------------------------ MODULE PositionLoop_proofs ------------------------
(***************************************************************************)
(* The position loop keeps its types, earns its flight, sustains its       *)
(* failure before it declares a failsafe and never flies to the origin,    *)
(* for every delay, every set of trajectories and estimates.               *)
(***************************************************************************)
EXTENDS PositionLoopLive, WellFoundedInduction, TLAPS

ControlType ==
  [z1 : SUBSET Axes, z2 : SUBSET Axes, z3 : SUBSET Axes,
   eso_input : SUBSET Axes, enabled : BOOLEAN, prev : BOOLEAN,
   thr : Thrusts, yaw : Yaws]

TakeoffType ==
  [state : States, spoolup : HysteresisType(SPOOLUP), progress : 0 .. RAMP]

(* A hysteresis stays one; set to FALSE it is FALSE at once; set to TRUE   *)
(* it turns TRUE only when its request is as old as the delay.             *)
LEMMA HysteresisStep ==
  ASSUME NEW delay \in Nat, NEW h \in HysteresisType(delay), NEW b \in BOOLEAN
  PROVE  LET a == Aged(h, delay)
             s == SetStateAndUpdate(a, b, delay)
         IN  /\ a \in HysteresisType(delay)
             /\ a.state = h.state /\ a.requested = h.requested
             /\ a.age <= h.age + 1
             /\ s \in HysteresisType(delay)
             /\ ~b => ~s.state /\ ~s.requested
             /\ b => IF s.state THEN h.state \/ s.age >= delay ELSE s.requested
             /\ b /\ h.state => s.state
             /\ b => s.age = 0 \/ s.age = a.age
             /\ b /\ ~h.state /\ ~h.requested => s.age = 0
<1>1. Aged(h, delay) \in HysteresisType(delay)
      /\ Aged(h, delay).state = h.state /\ Aged(h, delay).requested = h.requested
      /\ Aged(h, delay).age <= h.age + 1
  BY DEF Aged, HysteresisType
<1>2. ASSUME NEW a \in HysteresisType(delay)
      PROVE  LET s == SetStateAndUpdate(a, b, delay)
             IN  /\ s \in HysteresisType(delay)
                 /\ ~b => ~s.state /\ ~s.requested
                 /\ b => IF s.state THEN a.state \/ s.age >= delay ELSE s.requested
                 /\ b /\ a.state => s.state
                 /\ b => s.age = 0 \/ s.age = a.age
                 /\ b /\ ~a.state /\ ~a.requested => s.age = 0
  <2>. DEFINE r == IF b = a.state THEN [a EXCEPT !.requested = a.state]
                   ELSE IF b # a.requested THEN [a EXCEPT !.requested = b, !.age = 0] ELSE a
              s == SetStateAndUpdate(a, b, delay)
  <2>1. r \in HysteresisType(delay) /\ r.state = a.state /\ r.requested = b
        /\ (r.age = 0 \/ r.age = a.age)
        /\ (b /\ ~a.state /\ ~a.requested => r.age = 0)
    <3>0. a.state \in BOOLEAN /\ a.requested \in BOOLEAN /\ a.age \in 0 .. delay
          /\ a = [state |-> a.state, requested |-> a.requested, age |-> a.age]
      BY DEF HysteresisType
    <3>1. CASE b = a.state
      <4>1. r = [state |-> a.state, requested |-> a.state, age |-> a.age]
        BY <3>0, <3>1
      <4>. QED  BY <3>0, <3>1, <4>1 DEF HysteresisType
    <3>2. CASE b # a.state /\ b # a.requested
      <4>1. r = [state |-> a.state, requested |-> b, age |-> 0]
        BY <3>0, <3>2
      <4>. QED  BY <3>0, <3>2, <4>1 DEF HysteresisType
    <3>3. CASE b # a.state /\ b = a.requested
      <4>1. r = a
        BY <3>3
      <4>. QED  BY <3>0, <3>3, <4>1
    <3>. QED  BY <3>1, <3>2, <3>3
  <2>2. s = IF r.requested # r.state /\ (r.state \/ r.age >= delay)
              THEN [r EXCEPT !.state = r.requested] ELSE r
    BY DEF SetStateAndUpdate, Update
  <2>. HIDE DEF r, s
  <2>3. s \in HysteresisType(delay) /\ s.requested = b /\ s.age = r.age
    BY <2>1, <2>2 DEF HysteresisType
  <2>4. s.state = IF b # a.state /\ (a.state \/ r.age >= delay) THEN b ELSE a.state
    BY <2>1, <2>2 DEF HysteresisType
  <2>. QED
    BY <2>1, <2>3, <2>4 DEF HysteresisType, s
<1>. QED
  BY <1>1, <1>2

-----------------------------------------------------------------------------
(* The takeoff state machine keeps its type, is disarmed exactly when the  *)
(* vehicle is, and moves forward only from the state before or after       *)
(* spool-up, to flight only from flight or the end of the ramp.            *)
LEMMA TakeoffStep ==
  ASSUME TakeoffTypeOK, NEW armed \in BOOLEAN, NEW landed \in BOOLEAN,
         NEW want_takeoff \in BOOLEAN, NEW skip \in BOOLEAN
  PROVE  LET t == UpdateTakeoffState(armed, landed, want_takeoff, skip)
             past == {"ready_for_takeoff", "rampup", "flight"}
         IN  /\ t \in TakeoffType
             /\ UpdateRamp(t) \in TakeoffType
             /\ t.spoolup = SetStateAndUpdate(Aged(takeoff.spoolup, SPOOLUP), armed, SPOOLUP)
             /\ (t.state = "disarmed") <=> ~armed
             /\ ~skip /\ t.state \in past => t.spoolup.state \/ takeoff.state \in past
             /\ ~skip /\ t.state = "flight" =>
                  \/ takeoff.state = "flight"
                  \/ takeoff.state = "rampup" /\ takeoff.progress >= RAMP
             /\ ~skip /\ t.state = "rampup" =>
                  \/ t.progress = 0
                  \/ takeoff.state = "rampup" /\ t.progress = takeoff.progress
<1>. DEFINE spoolup == SetStateAndUpdate(Aged(takeoff.spoolup, SPOOLUP), armed, SPOOLUP)
            awake == IF takeoff.state = "disarmed" /\ armed THEN "spoolup" ELSE takeoff.state
            spun == IF awake = "spoolup" /\ spoolup.state THEN "ready_for_takeoff" ELSE awake
            start == spun = "ready_for_takeoff" /\ want_takeoff
            progress == IF start THEN 0 ELSE takeoff.progress
            ramping == start \/ spun = "rampup"
            flying == spun = "flight" \/ (ramping /\ progress >= RAMP)
            state == IF ~armed THEN "disarmed"
                     ELSE IF skip THEN "flight"
                     ELSE IF flying THEN IF landed THEN "ready_for_takeoff" ELSE "flight"
                     ELSE IF ramping THEN "rampup" ELSE spun
            t == UpdateTakeoffState(armed, landed, want_takeoff, skip)
<1>1. t = [state |-> state, spoolup |-> spoolup, progress |-> progress]
  BY DEF UpdateTakeoffState
<1>2. takeoff.state \in States /\ takeoff.progress \in 0 .. RAMP
      /\ takeoff.spoolup \in HysteresisType(SPOOLUP) /\ RAMP \in Nat \ {0}
  BY TakeoffAssumption DEF TakeoffTypeOK
<1>3. spoolup \in HysteresisType(SPOOLUP)
  BY <1>2, HysteresisStep, TakeoffAssumption
<1>. HIDE DEF t, spoolup
<1>4. state \in States /\ progress \in 0 .. RAMP
      /\ (state = "rampup" => progress < RAMP)
  BY <1>2 DEF States
<1>5. t \in TakeoffType /\ UpdateRamp(t) \in TakeoffType
  <2>. HIDE DEF state, progress
  <2>1. t \in TakeoffType /\ (t.state = "rampup" => t.progress + 1 \in 0 .. RAMP)
    BY <1>1, <1>2, <1>3, <1>4 DEF TakeoffType
  <2>. QED  BY <2>1 DEF TakeoffType, UpdateRamp
<1>6. (state = "disarmed") <=> ~armed
  BY <1>2 DEF States
<1>7. ~skip /\ state \in {"ready_for_takeoff", "rampup", "flight"} =>
        spoolup.state \/ takeoff.state \in {"ready_for_takeoff", "rampup", "flight"}
  BY <1>2, <1>3 DEF States, HysteresisType
<1>8. ~skip /\ state = "flight" =>
        takeoff.state = "flight" \/ (takeoff.state = "rampup" /\ takeoff.progress >= RAMP)
  BY <1>2 DEF States
<1>9. ~skip /\ state = "rampup" =>
        progress = 0 \/ (takeoff.state = "rampup" /\ progress = takeoff.progress)
  BY <1>2 DEF States
<1>. HIDE DEF state, progress
<1>. QED
  BY <1>1, <1>5, <1>6, <1>7, <1>8, <1>9 DEF t, spoolup

-----------------------------------------------------------------------------
(* update() keeps the controller's type.                                   *)
LEMMA ControlUpdateType ==
  ASSUME NEW c \in ControlType, NEW sp \in Setpoints, NEW est \in Estimates
  PROVE  ControlUpdate(c, sp, est) \in ControlType
<1>. DEFINE started == IF c.enabled /\ ~c.prev THEN EsoReset(c, est.pos, est.vel) ELSE c
            observed == IF c.enabled THEN EsoUpdate(started, est.pos) ELSE started
<1>1. est.pos \in SUBSET Axes /\ est.vel \in SUBSET Axes /\ sp.yaw \in Yaws
  BY DEF Estimates, Setpoints
<1>2. started \in ControlType
  BY <1>1 DEF ControlType, EsoReset
<1>3. observed \in ControlType
  <2>. HIDE DEF started
  <2>1. EsoUpdate(started, est.pos) \in ControlType
    BY <1>1, <1>2 DEF ControlType, EsoUpdate
  <2>. QED  BY <1>2, <2>1
<1>4. c.enabled \in BOOLEAN
  BY DEF ControlType
<1>5. \A acc : ThrustOf(acc) \in Thrusts
  BY DEF ThrustOf, Thrusts
<1>6. [c EXCEPT !.yaw = sp.yaw, !.prev = c.enabled] \in ControlType
  BY <1>1, <1>4 DEF ControlType
<1>7. ASSUME NEW thr \in Thrusts
      PROVE  [observed EXCEPT !.thr = thr,
                !.eso_input = IF thr = "nan" THEN {"z"} ELSE Axes,
                !.yaw = IF sp.yaw = "nan" THEN "current" ELSE sp.yaw,
                !.prev = c.enabled] \in ControlType
  <2>. HIDE DEF observed
  <2>1. (IF thr = "nan" THEN {"z"} ELSE Axes) \in SUBSET Axes
    BY DEF Axes
  <2>2. (IF sp.yaw = "nan" THEN "current" ELSE sp.yaw) \in Yaws
    BY <1>1 DEF Yaws
  <2>. QED  BY <1>3, <1>4, <2>1, <2>2 DEF ControlType
<1>. QED
  BY <1>5, <1>6, <1>7 DEF ControlUpdate

(* With all estimates valid the trajectory is refused only for a NaN in    *)
(* the observer's disturbance, which update() keeps and which makes it     *)
(* refuse the zero setpoint as well.  Without, both are invalid.           *)
LEMMA OriginRefused ==
  ASSUME NEW c \in ControlType, NEW sp \in Setpoints, NEW est \in Estimates,
         ~Succeeds(Sanitized(sp, est), est, ControlUpdate(c, Sanitized(sp, est), est))
  PROVE  ~Succeeds(Zeroed, est,
                   ControlUpdate(ControlUpdate(c, Sanitized(sp, est), est), Zeroed, est))
<1>. DEFINE feed == Sanitized(sp, est)
            first == ControlUpdate(c, feed, est)
            last == ControlUpdate(first, Zeroed, est)
            started == IF c.enabled /\ ~c.prev THEN EsoReset(c, est.pos, est.vel) ELSE c
            observed == IF c.enabled THEN EsoUpdate(started, est.pos) ELSE started
<1>1. SUFFICES ASSUME InputValid(Zeroed, est), last.thr = "computed" PROVE FALSE
  BY DEF Succeeds
<1>2. est.pos = Axes /\ est.vel = Axes
  BY <1>1 DEF InputValid, Zeroed, NoSetpoint, Estimates
<1>3. feed.pos = Axes /\ feed.vel = Axes /\ feed.acc = Axes
  BY <1>2 DEF Sanitized, Setpoints
<1>4. InputValid(feed, est)
  BY <1>2, <1>3 DEF InputValid
<1>5. \A s \in {feed, Zeroed} : VelocitySetpoint(s, est) = Axes
  BY <1>2, <1>3 DEF VelocitySetpoint, Zeroed, NoSetpoint, Axes
<1>6. \A s \in {feed, Zeroed}, d \in SUBSET Axes :
        ThrustOf(AccelerationSetpoint(s, est, d)) = "computed" <=> d = Axes
  <2>. SUFFICES ASSUME NEW s \in {feed, Zeroed}, NEW d \in SUBSET Axes
                PROVE  ThrustOf(AccelerationSetpoint(s, est, d)) = "computed" <=> d = Axes
    OBVIOUS
  <2>1. AccelerationSetpoint(s, est, d) = d
    BY <1>2, <1>5 DEF AccelerationSetpoint
  <2>. QED  BY <2>1 DEF ThrustOf, Axes
<1>7. observed \in ControlType /\ c.enabled \in BOOLEAN
  <2>1. started \in ControlType
    BY <1>2 DEF ControlType, EsoReset
  <2>. HIDE DEF started
  <2>2. EsoUpdate(started, est.pos) \in ControlType
    BY <1>2, <2>1 DEF ControlType, EsoUpdate
  <2>. QED  BY <2>1, <2>2 DEF ControlType
<1>. DEFINE d == IF c.enabled THEN observed.z3 ELSE Axes
<1>8. d \in SUBSET Axes
  BY <1>7 DEF ControlType
<1>9. /\ first.thr = ThrustOf(AccelerationSetpoint(feed, est, d))
      /\ first.z1 = observed.z1 /\ first.z3 = observed.z3
      /\ first.enabled = observed.enabled /\ first.prev = c.enabled
  <2>. HIDE DEF observed, feed
  <2>. QED  BY <1>4, <1>7 DEF ControlUpdate, ControlType, observed, started
<1>10. observed.enabled = c.enabled
  BY DEF ControlType, EsoUpdate, EsoReset
<1>11. c.enabled /\ observed.z3 # Axes
  <2>1. first.thr # "computed"
    BY <1>4 DEF Succeeds
  <2>. HIDE DEF first, observed, feed
  <2>. QED  BY <2>1, <1>6, <1>8, <1>9
<1>15. first \in ControlType
  <2>1. feed \in Setpoints
    BY <1>2 DEF Sanitized, Setpoints, Yaws
  <2>. QED  BY <2>1, ControlUpdateType
<1>12. last.thr = ThrustOf(AccelerationSetpoint(Zeroed, est, EsoUpdate(first, est.pos).z3))
  <2>1. first.enabled /\ first.prev
    BY <1>9, <1>10, <1>11
  <2>3. EsoUpdate(first, est.pos) \in ControlType
    <3>. HIDE DEF first
    <3>. QED  BY <1>2, <1>15 DEF EsoUpdate, ControlType
  <2>. HIDE DEF first
  <2>. QED  BY <1>1, <2>1, <1>15, <2>3 DEF ControlUpdate, ControlType
<1>13. EsoUpdate(first, est.pos).z3 \in SUBSET Axes /\ EsoUpdate(first, est.pos).z3 # Axes
  <2>1. first.z3 \in SUBSET Axes /\ first.z3 # Axes
    BY <1>7, <1>9, <1>11 DEF ControlType
  <2>. HIDE DEF first
  <2>. QED  BY <2>1, <1>15 DEF EsoUpdate, ControlType
<1>. QED
  BY <1>1, <1>6, <1>12, <1>13

-----------------------------------------------------------------------------
(* The setpoints the loop makes are setpoints.                             *)
LEMMA SetpointTypes ==
  ASSUME NEW sp \in Setpoints, NEW est \in Estimates, NEW state, NEW ground_contact
  PROVE  /\ NoSetpoint \in Setpoints
         /\ Zeroed \in Setpoints
         /\ Accepted(sp, state, ground_contact) \in Setpoints
         /\ Sanitized(sp, est) \in Setpoints
         /\ FailsafeSetpoint(est) \in Setpoints
<1>1. NoSetpoint \in Setpoints /\ Zeroed \in Setpoints /\ Pressed \in Setpoints
  BY DEF NoSetpoint, Zeroed, Pressed, Setpoints, Yaws
<1>2. Accepted(sp, state, ground_contact) \in Setpoints
  <2>1. [sp EXCEPT !.acc = @ \ {"z"}] \in Setpoints
    BY DEF Setpoints
  <2>. QED  BY <1>1, <2>1 DEF Accepted
<1>3. Sanitized(sp, est) \in Setpoints
  BY DEF Sanitized, Setpoints, Estimates, Yaws
<1>4. FailsafeSetpoint(est) \in Setpoints
  BY DEF FailsafeSetpoint, NoSetpoint, Setpoints, Estimates, Yaws
<1>. QED
  BY <1>1, <1>2, <1>3, <1>4

(* Flight stays earned in a step of the takeoff state machine.             *)
LEMMA EarnedStep ==
  ASSUME TypeOK, SpoolupInv, RampInv, FlightIsEarned,
         NEW armed \in BOOLEAN, NEW landed \in BOOLEAN,
         NEW want_takeoff \in BOOLEAN, NEW skip \in BOOLEAN,
         takeoff' = UpdateRamp(UpdateTakeoffState(armed, landed, want_takeoff, skip)),
         hist'.armed_for = ArmedFor(armed),
         hist'.skipped = (armed /\ (skip \/ hist.skipped))
  PROVE  SpoolupInv' /\ RampInv' /\ FlightIsEarned' /\ TakeoffTypeOK'
<1>. DEFINE t == UpdateTakeoffState(armed, landed, want_takeoff, skip)
            past == {"ready_for_takeoff", "rampup", "flight"}
<1>1. /\ t \in TakeoffType /\ UpdateRamp(t) \in TakeoffType
      /\ t.spoolup = SetStateAndUpdate(Aged(takeoff.spoolup, SPOOLUP), armed, SPOOLUP)
      /\ (t.state = "disarmed") <=> ~armed
      /\ ~skip /\ t.state \in past => t.spoolup.state \/ takeoff.state \in past
      /\ ~skip /\ t.state = "flight" =>
           \/ takeoff.state = "flight"
           \/ takeoff.state = "rampup" /\ takeoff.progress >= RAMP
      /\ ~skip /\ t.state = "rampup" =>
           \/ t.progress = 0
           \/ takeoff.state = "rampup" /\ t.progress = takeoff.progress
  BY TakeoffStep DEF TypeOK
<1>. HIDE DEF t
<1>2. /\ takeoff'.state = t.state /\ takeoff'.spoolup = t.spoolup
      /\ takeoff'.progress = IF t.state = "rampup" THEN t.progress + 1 ELSE t.progress
  BY <1>1 DEF UpdateRamp, TakeoffType, t
<1>3. /\ SPOOLUP \in Nat /\ RAMP \in Nat \ {0}
      /\ hist.armed_for \in 0 .. SPOOLUP + RAMP
      /\ takeoff.progress \in 0 .. RAMP /\ t.progress \in 0 .. RAMP
      /\ takeoff.state \in States /\ t.state \in States
      /\ hist.skipped \in BOOLEAN
  BY TakeoffAssumption, <1>1 DEF TypeOK, TakeoffTypeOK, TakeoffType, HistType
<1>4. /\ ~armed => ~t.spoolup.state /\ ~t.spoolup.requested
      /\ armed => IF t.spoolup.state THEN takeoff.spoolup.state \/ t.spoolup.age >= SPOOLUP
                  ELSE t.spoolup.requested
      /\ armed /\ takeoff.spoolup.state => t.spoolup.state
      /\ armed => t.spoolup.age = 0 \/ t.spoolup.age <= takeoff.spoolup.age + 1
      /\ armed /\ ~takeoff.spoolup.state /\ ~takeoff.spoolup.requested => t.spoolup.age = 0
      /\ takeoff.spoolup.age \in Nat /\ t.spoolup.age \in Nat
      /\ takeoff.spoolup.age <= SPOOLUP /\ t.spoolup.age <= SPOOLUP
      /\ {takeoff.spoolup.state, t.spoolup.state, takeoff.spoolup.requested,
          t.spoolup.requested} \subseteq BOOLEAN
  <2>1. takeoff.spoolup \in HysteresisType(SPOOLUP) /\ t.spoolup \in HysteresisType(SPOOLUP)
    BY <1>1 DEF TypeOK, TakeoffTypeOK, TakeoffType
  <2>. QED  BY <1>1, <1>3, <2>1, HysteresisStep DEF HysteresisType
<1>5. hist'.armed_for = IF armed /\ takeoff.state # "disarmed"
                          THEN IF hist.armed_for + 1 < SPOOLUP + RAMP
                                 THEN hist.armed_for + 1 ELSE SPOOLUP + RAMP
                          ELSE 0
  BY DEF ArmedFor, UpTo
<1>6. SpoolupInv'
  <2>1. CASE ~armed
    BY <1>1, <1>2, <1>4, <2>1 DEF SpoolupInv
  <2>2. CASE armed /\ takeoff.state = "disarmed"
    <3>1. ~takeoff.spoolup.state /\ ~takeoff.spoolup.requested
      BY <2>2 DEF SpoolupInv
    <3>2. t.spoolup.age = 0 /\ hist'.armed_for = 0
      BY <1>4, <1>5, <2>2, <3>1
    <3>3. IF t.spoolup.state THEN hist'.armed_for >= SPOOLUP
          ELSE t.spoolup.requested /\ t.spoolup.age <= hist'.armed_for
      <4>1. CASE t.spoolup.state
        <5>1. t.spoolup.age >= SPOOLUP
          BY <1>4, <2>2, <3>1, <4>1
        <5>. QED  BY <1>3, <3>2, <4>1, <5>1
      <4>2. CASE ~t.spoolup.state
        <5>1. t.spoolup.requested
          BY <1>4, <2>2, <4>2
        <5>. QED  BY <3>2, <4>2, <5>1
      <4>. QED  BY <4>1, <4>2
    <3>. QED  BY <1>1, <1>2, <2>2, <3>3 DEF SpoolupInv
  <2>3. CASE armed /\ takeoff.state # "disarmed"
    <3>1. IF takeoff.spoolup.state THEN hist.armed_for >= SPOOLUP
          ELSE takeoff.spoolup.age <= hist.armed_for
      BY <2>3 DEF SpoolupInv
    <3>2. IF t.spoolup.state THEN hist'.armed_for >= SPOOLUP
          ELSE t.spoolup.requested /\ t.spoolup.age <= hist'.armed_for
      <4>1. CASE takeoff.spoolup.state
        BY <1>3, <1>4, <1>5, <2>3, <3>1, <4>1
      <4>2. CASE ~takeoff.spoolup.state
        BY <1>3, <1>4, <1>5, <2>3, <3>1, <4>2
      <4>. QED  BY <4>1, <4>2
    <3>. QED  BY <1>1, <1>2, <2>3, <3>2 DEF SpoolupInv
  <2>. QED  BY <2>1, <2>2, <2>3
<1>7. ~hist'.skipped /\ t.state \in past => armed /\ ~skip /\ ~hist.skipped
  BY <1>1
<1>8. ~hist'.skipped /\ t.state \in past => hist'.armed_for >= SPOOLUP
  <2>. SUFFICES ASSUME ~hist'.skipped, t.state \in past PROVE hist'.armed_for >= SPOOLUP
    OBVIOUS
  <2>1. CASE t.spoolup.state
    BY <1>1, <1>2, <1>6, <1>7, <2>1 DEF SpoolupInv
  <2>2. CASE takeoff.state \in past
    BY <1>3, <1>5, <1>7, <2>2 DEF FlightIsEarned
  <2>. QED  BY <1>1, <1>7, <2>1, <2>2
<1>9. ~hist'.skipped /\ t.state = "flight" => hist'.armed_for >= SPOOLUP + RAMP
  BY <1>1, <1>3, <1>5, <1>7 DEF FlightIsEarned, RampInv
<1>10. RampInv'
  BY <1>1, <1>2, <1>3, <1>5, <1>7, <1>8 DEF RampInv
<1>11. FlightIsEarned'
  BY <1>2, <1>8, <1>9 DEF FlightIsEarned
<1>. QED
  BY <1>1, <1>6, <1>10, <1>11 DEF TakeoffTypeOK, TakeoffType, t

-----------------------------------------------------------------------------
(* The failsafe hysteresis still waits no longer than updates have failed  *)
(* after a sample whose update() succeeded or not.                         *)
LEMMA WaitStep ==
  ASSUME TypeOK, WaitInv, NEW ok \in BOOLEAN,
         land' = FailsafeLand(ok),
         hist'.failing = IF ok THEN 0
                         ELSE UpTo(hist.failing + 1, LOITER_TIME_BEFORE_DESCEND + 1)
  PROVE  WaitInv' /\ land' \in HysteresisType(LOITER_TIME_BEFORE_DESCEND)
<1>. DEFINE D == LOITER_TIME_BEFORE_DESCEND
<1>1. /\ D \in Nat /\ land \in HysteresisType(D) /\ (~ok) \in BOOLEAN
      /\ hist.failing \in 0 .. D + 1
  BY LoopAssumption DEF TypeOK, HistType
<1>2. /\ land' \in HysteresisType(D)
      /\ Aged(land, D) \in HysteresisType(D)
      /\ Aged(land, D).age <= land.age + 1
      /\ ok => ~land'.state /\ ~land'.requested
      /\ ~ok => IF land'.state THEN land.state \/ land'.age >= D ELSE land'.requested
      /\ ~ok /\ land.state => land'.state
      /\ ~ok => land'.age = 0 \/ land'.age = Aged(land, D).age
      /\ ~ok /\ ~land.state /\ ~land.requested => land'.age = 0
  BY <1>1, HysteresisStep DEF FailsafeLand
<1>3. /\ land.age \in Nat /\ land'.age \in Nat /\ land'.age <= D
      /\ Aged(land, D).age \in Nat
      /\ land'.state \in BOOLEAN /\ land.state \in BOOLEAN /\ land.requested \in BOOLEAN
  BY <1>1, <1>2 DEF HysteresisType
<1>4. CASE ok
  BY <1>2, <1>4 DEF WaitInv
<1>5. CASE ~ok
  <2>1. hist'.failing = IF hist.failing + 1 < D + 1 THEN hist.failing + 1 ELSE D + 1
    BY <1>5 DEF UpTo
  <2>2. CASE land.state
    <3>1. hist'.failing > D
      BY <1>1, <2>1, <2>2 DEF WaitInv
    <3>. QED  BY <1>2, <1>5, <2>2, <3>1 DEF WaitInv
  <2>3. CASE ~land.state
    <3>1. hist'.failing > land'.age
      <4>1. CASE land.requested
        <5>1. hist.failing > land.age
          BY <2>3, <4>1 DEF WaitInv
        <5>. QED  BY <1>1, <1>2, <1>3, <1>5, <2>1, <5>1
      <4>2. CASE ~land.requested
        <5>1. land'.age = 0
          BY <1>2, <1>5, <2>3, <4>2
        <5>. QED  BY <1>1, <2>1, <5>1
      <4>. QED  BY <4>1, <4>2
    <3>2. land'.state => hist'.failing > D
      <4>1. land'.state => land'.age >= D
        BY <1>2, <1>5, <2>3
      <4>. QED  BY <1>1, <1>3, <2>1, <3>1, <4>1
    <3>. QED  BY <1>2, <3>1, <3>2 DEF WaitInv
  <2>. QED  BY <1>2, <2>2, <2>3
<1>. QED
  BY <1>4, <1>5

(* A sample under position control keeps the invariant.                    *)
LEMMA PositionRunStep == LoopInv /\ PositionRun => LoopInv'
<1>. SUFFICES ASSUME LoopInv,
                     NEW armed \in BOOLEAN, NEW landed \in BOOLEAN,
                     NEW ground_contact \in BOOLEAN, NEW new \in BOOLEAN,
                     NEW est \in LocalPositions,
                     NEW sp \in IF new THEN Trajectories ELSE {setpoint},
                     NEW want_takeoff \in BOOLEAN,
                     PositionMode(armed, landed, ground_contact, est, new, sp, want_takeoff)
              PROVE  LoopInv'
  <2>1. ASSUME NEW armed \in BOOLEAN, NEW landed \in BOOLEAN, NEW sp, NEW est,
               NEW offboard
        PROVE  WantTakeoff(offboard, armed, landed, sp, est) \subseteq BOOLEAN
    <3>1. (armed /\ landed /\ CanClimb(sp, est)) \in BOOLEAN
      BY DEF CanClimb
    <3>. QED  BY <3>1 DEF WantTakeoff
  <2>2. \A armed, landed \in BOOLEAN : \A sp, est :
          UNION {WantTakeoff(offboard, armed, landed, sp, est) : offboard \in OFFBOARD}
            \subseteq BOOLEAN
    BY <2>1
  <2>. QED  BY <2>2 DEF PositionRun
<1>. DEFINE t == UpdateTakeoffState(armed, landed, want_takeoff, FALSE)
            gated == Gated(t.state)
            ready == IF new /\ Grounded(t.state, ground_contact)
                       THEN ResetIntegral(gated) ELSE gated
            feed == Sanitized(setpoint', est)
            first == ControlUpdate(ready, feed, est)
            ok == Succeeds(feed, est, first)
            waiting == FailsafeLand(ok)
            rescue == IF waiting.state THEN FailsafeSetpoint(est) ELSE Zeroed
            last == IF ok THEN first ELSE ControlUpdate(first, rescue, est)
<1>1. est \in Estimates /\ sp \in Setpoints /\ control \in ControlType
  BY LoopAssumption DEF LoopInv, TypeOK, ControlTypeOK, ControlType
<1>2. /\ takeoff' = UpdateRamp(t)
      /\ setpoint' = IF new THEN Accepted(sp, t.state, ground_contact) ELSE sp
      /\ ControlStep(armed, est, ready, feed)
  BY DEF PositionMode
<1>3. gated \in ControlType
  <2>. HIDE DEF t
  <2>. QED  BY <1>1 DEF ControlType, Gated
<1>4. ready \in ControlType
  <2>. HIDE DEF t, gated
  <2>1. ResetIntegral(gated) \in ControlType
    BY <1>3 DEF ControlType, ResetIntegral, Axes
  <2>. QED  BY <1>3, <2>1
<1>5. setpoint' \in Setpoints
  BY <1>1, <1>2, SetpointTypes
<1>6. feed \in Setpoints
  BY <1>1, <1>5, SetpointTypes
<1>. HIDE DEF t, ready, feed
<1>7. first \in ControlType /\ ok \in BOOLEAN
  BY <1>1, <1>4, <1>6, ControlUpdateType DEF Succeeds
<1>8. last \in ControlType
  BY <1>1, <1>7, SetpointTypes, ControlUpdateType
<1>9. ~ok /\ ~waiting.state => ~Succeeds(rescue, est, last)
  BY <1>1, <1>4, <1>5, OriginRefused DEF feed
<1>10. Succeeds(rescue, est, last) \in BOOLEAN /\ waiting.state \in BOOLEAN
  <2>1. land \in HysteresisType(LOITER_TIME_BEFORE_DESCEND) /\ (~ok) \in BOOLEAN
    BY DEF LoopInv, TypeOK
  <2>2. waiting \in HysteresisType(LOITER_TIME_BEFORE_DESCEND)
    BY <2>1, HysteresisStep, LoopAssumption DEF FailsafeLand
  <2>. QED  BY <2>2 DEF Succeeds, HysteresisType
<1>11. /\ land' = waiting
       /\ control' = last
       /\ out' = [position |-> TRUE, est |-> est,
                  fed |-> IF ok THEN "trajectory"
                          ELSE IF waiting.state THEN "failsafe" ELSE "zeroed",
                  ok |-> ok \/ Succeeds(rescue, est, last)]
       /\ hist' = [armed_for |-> ArmedFor(armed),
                   skipped |-> armed /\ hist.skipped,
                   failing |-> IF ok THEN 0
                               ELSE UpTo(hist.failing + 1, LOITER_TIME_BEFORE_DESCEND + 1),
                   observer |-> ObserverAfter(ready, feed, IF ok THEN feed ELSE rescue, est)]
  BY <1>2 DEF ControlStep
<1>. HIDE DEF first, ok, waiting, rescue, last
<1>12. SpoolupInv' /\ RampInv' /\ FlightIsEarned' /\ TakeoffTypeOK'
  <2>1. hist'.armed_for = ArmedFor(armed) /\ hist'.skipped = (armed /\ (FALSE \/ hist.skipped))
    BY <1>11
  <2>. QED  BY <1>2, <2>1, EarnedStep DEF LoopInv, t
<1>13. WaitInv' /\ land' \in HysteresisType(LOITER_TIME_BEFORE_DESCEND)
  <2>1. hist'.failing = IF ok THEN 0
                        ELSE UpTo(hist.failing + 1, LOITER_TIME_BEFORE_DESCEND + 1)
    BY <1>11
  <2>. QED  BY <1>7, <1>11, <2>1, WaitStep DEF LoopInv, waiting
<1>14. out' \in OutType /\ OriginNeverFlown'
  BY <1>1, <1>7, <1>9, <1>10, <1>11 DEF OutType, OriginNeverFlown
<1>15. hist' \in HistType
  <2>1. /\ hist.armed_for \in Nat /\ hist.failing \in Nat /\ hist.skipped \in BOOLEAN
        /\ SPOOLUP + RAMP \in Nat /\ LOITER_TIME_BEFORE_DESCEND \in Nat
    BY LoopAssumption, TakeoffAssumption DEF LoopInv, TypeOK, HistType
  <2>2. ArmedFor(armed) \in 0 .. SPOOLUP + RAMP
    BY <2>1 DEF ArmedFor, UpTo
  <2>3. hist'.failing \in 0 .. LOITER_TIME_BEFORE_DESCEND + 1
    BY <1>11, <2>1 DEF UpTo
  <2>4. ObserverAfter(ready, feed, IF ok THEN feed ELSE rescue, est)
          \in {"idle", "following", "cold"}
    BY DEF ObserverAfter
  <2>. QED  BY <1>11, <2>1, <2>2, <2>3, <2>4 DEF HistType
<1>16. TypeOK'
  BY <1>5, <1>8, <1>11, <1>12, <1>13, <1>14, <1>15 DEF TypeOK, ControlTypeOK, ControlType
<1>. QED
  BY <1>12, <1>13, <1>14, <1>16 DEF LoopInv

(* So does a sample without.                                               *)
LEMMA OtherRunStep == LoopInv /\ OtherRun => LoopInv'
<1>. SUFFICES ASSUME LoopInv, NEW armed \in BOOLEAN, NEW landed \in BOOLEAN,
                     OtherModes(armed, landed)
              PROVE  LoopInv'
  BY DEF OtherRun
<1>. DEFINE D == LOITER_TIME_BEFORE_DESCEND
            t == UpdateTakeoffState(armed, landed, FALSE, TRUE)
<1>1. /\ takeoff' = t
      /\ land' = Aged(land, D)
      /\ out' = NoOutput
      /\ hist' = [armed_for |-> ArmedFor(armed), skipped |-> armed,
                  failing |-> IF hist.failing = 0 THEN 0 ELSE UpTo(hist.failing + 1, D + 1),
                  observer |-> "idle"]
      /\ control' = control /\ setpoint' = setpoint
  BY DEF OtherModes
<1>2. /\ hist.armed_for \in Nat /\ hist.failing \in 0 .. D + 1
      /\ SPOOLUP + RAMP \in Nat /\ D \in Nat
      /\ land \in HysteresisType(D)
  BY LoopAssumption, TakeoffAssumption DEF LoopInv, TypeOK, HistType
<1>3. SpoolupInv' /\ RampInv' /\ FlightIsEarned' /\ TakeoffTypeOK'
  <2>1. t.state \in {"disarmed", "flight"}
    BY DEF UpdateTakeoffState
  <2>2. t \in TakeoffType
    BY TakeoffStep DEF LoopInv, TypeOK
  <2>3. UpdateRamp(t) = t
    <3>. HIDE DEF t
    <3>. QED  BY <2>1, <2>2 DEF UpdateRamp, TakeoffType
  <2>4. hist'.armed_for = ArmedFor(armed) /\ hist'.skipped = (armed /\ (TRUE \/ hist.skipped))
    BY <1>1
  <2>. QED  BY <1>1, <2>3, <2>4, EarnedStep DEF LoopInv
<1>4. hist' \in HistType
  <2>1. ArmedFor(armed) \in 0 .. SPOOLUP + RAMP
    BY <1>2 DEF ArmedFor, UpTo
  <2>2. hist'.failing \in 0 .. D + 1
    BY <1>1, <1>2 DEF UpTo
  <2>. QED  BY <1>1, <2>1, <2>2 DEF HistType
<1>5. WaitInv' /\ land' \in HysteresisType(D)
  <2>1. /\ land' \in HysteresisType(D)
        /\ land'.state = land.state /\ land'.requested = land.requested
        /\ land'.age <= land.age + 1
    BY <1>1, <1>2, HysteresisStep
  <2>2. land.age \in Nat /\ land'.age \in Nat /\ land'.age <= D
    BY <1>2, <2>1 DEF HysteresisType
  <2>3. hist'.failing = IF hist.failing = 0 THEN 0
                        ELSE IF hist.failing + 1 < D + 1 THEN hist.failing + 1 ELSE D + 1
    BY <1>1 DEF UpTo
  <2>4. land.state => hist'.failing > D
    BY <1>2, <2>3 DEF LoopInv, WaitInv
  <2>5. ~land.state /\ land.requested => hist'.failing > land'.age
    <3>1. ~land.state /\ land.requested => hist.failing > land.age
      BY DEF LoopInv, WaitInv
    <3>. QED  BY <1>2, <2>1, <2>2, <2>3, <3>1
  <2>. QED  BY <2>1, <2>4, <2>5 DEF WaitInv
<1>6. out' \in OutType /\ OriginNeverFlown'
  BY <1>1 DEF NoOutput, OutType, Estimates, OriginNeverFlown
<1>7. TypeOK'
  BY <1>1, <1>3, <1>4, <1>5, <1>6 DEF LoopInv, TypeOK, ControlTypeOK
<1>. QED
  BY <1>3, <1>5, <1>6, <1>7 DEF LoopInv

-----------------------------------------------------------------------------
(* LoopInv holds in every state the position loop reaches.                 *)
THEOREM LoopInvariant == Spec => []LoopInv
<1>1. Init => LoopInv
  <2>. SUFFICES ASSUME Init PROVE LoopInv
    OBVIOUS
  <2>1. TakeoffTypeOK
    BY TakeoffAssumption
    DEF Init, TakeoffInit, TakeoffTypeOK, HysteresisInit, HysteresisType, States
  <2>2. ControlTypeOK
    BY DEF Init, ControlInit, ControlTypeOK, Thrusts, Yaws
  <2>3. setpoint \in Setpoints /\ out \in OutType
    BY DEF Init, NoSetpoint, Setpoints, Yaws, NoOutput, OutType, Estimates
  <2>4. land \in HysteresisType(LOITER_TIME_BEFORE_DESCEND) /\ hist \in HistType
    BY LoopAssumption, TakeoffAssumption DEF Init, HysteresisInit, HysteresisType, HistType
  <2>5. SpoolupInv /\ RampInv /\ FlightIsEarned
    BY DEF Init, TakeoffInit, HysteresisInit, SpoolupInv, RampInv, FlightIsEarned
  <2>6. WaitInv /\ OriginNeverFlown
    BY DEF Init, HysteresisInit, NoOutput, WaitInv, OriginNeverFlown
  <2>. QED  BY <2>1, <2>2, <2>3, <2>4, <2>5, <2>6 DEF LoopInv, TypeOK
<1>2. LoopInv /\ [Next]_vars => LoopInv'
  <2>1. LoopInv /\ UNCHANGED vars => LoopInv'
    BY DEF vars, LoopInv, TypeOK, TakeoffTypeOK, ControlTypeOK, SpoolupInv, RampInv,
           WaitInv, FlightIsEarned, OriginNeverFlown
  <2>. QED  BY <2>1, PositionRunStep, OtherRunStep DEF Next
<1>. QED
  BY <1>1, <1>2, PTL DEF Spec

(* Every value stays in its set, the counters of samples included.         *)
THEOREM LoopTypeCorrect == Spec => []TypeOK
<1>1. LoopInv => TypeOK
  BY DEF LoopInv
<1>. QED
  BY <1>1, LoopInvariant, PTL

(* updateTakeoffState lets a vehicle that stays under position control     *)
(* past spool-up, and into flight, no earlier than the two times allow.    *)
THEOREM FlightIsEarnedTheorem == Spec => []FlightIsEarned
<1>1. LoopInv => FlightIsEarned
  BY DEF LoopInv
<1>. QED
  BY <1>1, LoopInvariant, PTL

(* The zero setpoint of the failsafe's delay is never flown.               *)
THEOREM OriginNeverFlownTheorem == Spec => []OriginNeverFlown
<1>1. LoopInv => OriginNeverFlown
  BY DEF LoopInv
<1>. QED
  BY <1>1, LoopInvariant, PTL

(* The failsafe is declared only after an uninterrupted delay of failures. *)
THEOREM FailsafeIsSustainedTheorem == Spec => []FailsafeIsSustained
<1>1. LoopInv => FailsafeIsSustained
  BY DEF LoopInv, WaitInv, FailsafeIsSustained
<1>. QED
  BY <1>1, LoopInvariant, PTL
-----------------------------------------------------------------------------
(* update() never succeeds on the setpoint that failsafe() makes: it has   *)
(* no position and a velocity below the limit, so that the horizontal      *)
(* velocity setpoint is NaN whatever is estimated.                         *)
LEMMA FailsafeRefused ==
  ASSUME NEW c \in ControlType, NEW est \in Estimates
  PROVE  ~Succeeds(FailsafeSetpoint(est), est, ControlUpdate(c, FailsafeSetpoint(est), est))
<1>. DEFINE sp == FailsafeSetpoint(est)
            started == IF c.enabled /\ ~c.prev THEN EsoReset(c, est.pos, est.vel) ELSE c
            observed == IF c.enabled THEN EsoUpdate(started, est.pos) ELSE started
<1>1. sp.pos = {} /\ sp.fast = FALSE
  BY DEF FailsafeSetpoint, NoSetpoint
<1>2. VelocitySetpoint(sp, est) = {"z"}
  BY <1>1 DEF VelocitySetpoint
<1>3. \A d : ThrustOf(AccelerationSetpoint(sp, est, d)) = "nan"
  BY <1>2 DEF AccelerationSetpoint, ThrustOf
<1>4. observed \in ControlType
  <2>1. est.pos \in SUBSET Axes /\ est.vel \in SUBSET Axes
    BY DEF Estimates
  <2>2. started \in ControlType
    BY <2>1 DEF ControlType, EsoReset
  <2>. HIDE DEF started
  <2>3. EsoUpdate(started, est.pos) \in ControlType
    BY <2>1, <2>2 DEF ControlType, EsoUpdate
  <2>. QED  BY <2>2, <2>3
<1>5. InputValid(sp, est) => ControlUpdate(c, sp, est).thr = "nan"
  <2>. HIDE DEF sp, observed
  <2>. QED  BY <1>3, <1>4 DEF ControlUpdate, ControlType, observed, started
<1>. QED
  BY <1>5 DEF Succeeds

(* What a sample under position control does: the observer is enabled in   *)
(* flight only, and out tells whether update() accepted the trajectory.    *)
Sampled(armed, state, est, ready, ok, rescue) ==
  LET feed == Sanitized(setpoint', est)
      first == ControlUpdate(ready, feed, est)
  IN  /\ setpoint' \in Setpoints /\ feed \in Setpoints
      /\ takeoff'.state = state
      /\ (state = "disarmed") <=> ~armed
      /\ state = "flight" => takeoff.state \in {"flight", "rampup"}
      /\ ready \in {Gated(state), ResetIntegral(Gated(state))}
      /\ ok = Succeeds(feed, est, first)
      /\ land' = FailsafeLand(ok)
      /\ rescue = IF land'.state THEN FailsafeSetpoint(est) ELSE Zeroed
      /\ control' = IF ok THEN first ELSE ControlUpdate(first, rescue, est)
      /\ out' = [position |-> TRUE, est |-> est, ok |-> ok,
                 fed |-> IF ok THEN "trajectory"
                         ELSE IF land'.state THEN "failsafe" ELSE "zeroed"]
      /\ hist'.skipped = (armed /\ hist.skipped)
      /\ hist'.observer = ObserverAfter(ready, feed, IF ok THEN feed ELSE rescue, est)

(* Every sample under position control is of this form.                    *)
LEMMA SampleFacts ==
  ASSUME LoopInv, PositionRun
  PROVE  \E armed \in BOOLEAN, state \in States, est \in Estimates,
            ready \in ControlType, ok \in BOOLEAN, rescue \in Setpoints :
           Sampled(armed, state, est, ready, ok, rescue)
<1>. PICK armed \in BOOLEAN, landed \in BOOLEAN, ground_contact \in BOOLEAN, new \in BOOLEAN,
          est \in LocalPositions :
       \E sp \in IF new THEN Trajectories ELSE {setpoint} :
         \E want_takeoff \in UNION {WantTakeoff(offboard, armed, landed, sp, est) :
                                      offboard \in OFFBOARD} :
           PositionMode(armed, landed, ground_contact, est, new, sp, want_takeoff)
  BY DEF PositionRun
<1>. PICK sp \in IF new THEN Trajectories ELSE {setpoint} :
       \E want_takeoff \in UNION {WantTakeoff(offboard, armed, landed, sp, est) :
                                    offboard \in OFFBOARD} :
         PositionMode(armed, landed, ground_contact, est, new, sp, want_takeoff)
  OBVIOUS
<1>. PICK want_takeoff \in BOOLEAN :
       PositionMode(armed, landed, ground_contact, est, new, sp, want_takeoff)
  <2>1. (armed /\ landed /\ CanClimb(sp, est)) \in BOOLEAN
    BY DEF CanClimb
  <2>2. \A offboard : WantTakeoff(offboard, armed, landed, sp, est) \subseteq BOOLEAN
    BY <2>1 DEF WantTakeoff
  <2>. QED  BY <2>2
<1>. DEFINE t == UpdateTakeoffState(armed, landed, want_takeoff, FALSE)
            gated == Gated(t.state)
            ready == IF new /\ Grounded(t.state, ground_contact)
                       THEN ResetIntegral(gated) ELSE gated
            feed == Sanitized(setpoint', est)
            first == ControlUpdate(ready, feed, est)
            ok == Succeeds(feed, est, first)
            waiting == FailsafeLand(ok)
            rescue == IF waiting.state THEN FailsafeSetpoint(est) ELSE Zeroed
            last == IF ok THEN first ELSE ControlUpdate(first, rescue, est)
<1>1. est \in Estimates /\ sp \in Setpoints /\ control \in ControlType
  BY LoopAssumption DEF LoopInv, TypeOK, ControlTypeOK, ControlType
<1>2. /\ takeoff' = UpdateRamp(t)
      /\ setpoint' = IF new THEN Accepted(sp, t.state, ground_contact) ELSE sp
      /\ ControlStep(armed, est, ready, feed)
  BY DEF PositionMode
<1>3. /\ t \in TakeoffType
      /\ (t.state = "disarmed") <=> ~armed
      /\ t.state = "flight" => takeoff.state \in {"flight", "rampup"}
  <2>. DEFINE u(skip) == UpdateTakeoffState(armed, landed, want_takeoff, skip)
  <2>1. ASSUME NEW skip \in BOOLEAN
        PROVE  /\ u(skip) \in TakeoffType
               /\ (u(skip).state = "disarmed") <=> ~armed
               /\ ~skip /\ u(skip).state = "flight" =>
                    \/ takeoff.state = "flight"
                    \/ takeoff.state = "rampup" /\ takeoff.progress >= RAMP
    BY TakeoffStep DEF LoopInv, TypeOK
  <2>2. t = u(FALSE)
    OBVIOUS
  <2>. HIDE DEF t, u
  <2>. QED  BY <2>1, <2>2
<1>4. takeoff'.state = t.state /\ t.state \in States
  <2>. HIDE DEF t
  <2>. QED  BY <1>2, <1>3 DEF UpdateRamp, TakeoffType
<1>5. gated \in ControlType
  <2>. HIDE DEF t
  <2>. QED  BY <1>1 DEF ControlType, Gated
<1>6. ready \in ControlType /\ ready \in {Gated(t.state), ResetIntegral(Gated(t.state))}
  <2>1. ready \in {gated, ResetIntegral(gated)}
    OBVIOUS
  <2>. HIDE DEF gated
  <2>2. ResetIntegral(gated) \in ControlType
    BY <1>5 DEF ControlType, ResetIntegral, Axes
  <2>. QED  BY <1>5, <2>1, <2>2 DEF gated
<1>7. setpoint' \in Setpoints
  BY <1>1, <1>2, SetpointTypes
<1>8. feed \in Setpoints /\ rescue \in Setpoints
  BY <1>1, <1>7, SetpointTypes
<1>9. /\ land' = waiting
      /\ control' = last
      /\ out' = [position |-> TRUE, est |-> est,
                 fed |-> IF ok THEN "trajectory"
                         ELSE IF waiting.state THEN "failsafe" ELSE "zeroed",
                 ok |-> ok \/ Succeeds(rescue, est, last)]
      /\ hist'.skipped = (armed /\ hist.skipped)
      /\ hist'.observer = ObserverAfter(ready, feed, IF ok THEN feed ELSE rescue, est)
  BY <1>2 DEF ControlStep
<1>. HIDE DEF t, ready
<1>10. first \in ControlType /\ ok \in BOOLEAN
  BY <1>1, <1>6, <1>8, ControlUpdateType DEF Succeeds
<1>11. ~ok => ~Succeeds(rescue, est, last)
  <2>1. ~ok /\ ~waiting.state => ~Succeeds(rescue, est, last)
    BY <1>1, <1>6, <1>7, OriginRefused
  <2>2. ~ok /\ waiting.state => ~Succeeds(rescue, est, last)
    BY <1>1, <1>10, FailsafeRefused
  <2>. QED  BY <2>1, <2>2
<1>12. out' = [position |-> TRUE, est |-> est, ok |-> ok,
               fed |-> IF ok THEN "trajectory"
                       ELSE IF land'.state THEN "failsafe" ELSE "zeroed"]
  <2>1. (ok \/ Succeeds(rescue, est, last)) = ok
    BY <1>10, <1>11 DEF Succeeds
  <2>. HIDE DEF ok, waiting, rescue, last
  <2>. QED  BY <1>9, <2>1
<1>. HIDE DEF feed, first, ok, waiting, last
<1>. QED
  <2>. USE <1>1, <1>4, <1>6, <1>8, <1>10
  <2>. WITNESS armed \in BOOLEAN, t.state \in States, est \in Estimates, ready \in ControlType,
               ok \in BOOLEAN, rescue \in Setpoints
  <2>. QED
    BY <1>3, <1>4, <1>6, <1>7, <1>8, <1>9, <1>12
    DEF feed, first, ok, waiting, last, rescue, Sampled

(* A thrust comes from the trajectory or not at all: neither the zero      *)
(* setpoint nor the failsafe's gives update() an executable one.           *)
RescueRefused == out.position /\ out.fed # "trajectory" => ~out.ok

(* failsafe() asks update() to try again with its own setpoint; no sample  *)
(* is ever rescued by it, for any estimates and trajectories.              *)
THEOREM RescueRefusedTheorem == Spec => []RescueRefused
<1>1. Init => RescueRefused
  BY DEF Init, NoOutput, RescueRefused
<1>2. LoopInv /\ RescueRefused /\ [Next]_vars => RescueRefused'
  <2>. SUFFICES ASSUME LoopInv, RescueRefused, [Next]_vars PROVE RescueRefused'
    OBVIOUS
  <2>1. CASE PositionRun
    <3>1. PICK armed \in BOOLEAN, state \in States, est \in Estimates,
               ready \in ControlType, ok \in BOOLEAN, rescue \in Setpoints :
            Sampled(armed, state, est, ready, ok, rescue)
      BY <2>1, SampleFacts
    <3>2. out'.ok = ok /\ (out'.fed # "trajectory" => ~ok)
      BY <3>1 DEF Sampled
    <3>. QED  BY <3>2 DEF RescueRefused
  <2>2. CASE OtherRun
    <3>1. out' = NoOutput
      BY <2>2 DEF OtherRun, OtherModes
    <3>. QED  BY <3>1 DEF NoOutput, RescueRefused
  <2>3. CASE UNCHANGED vars
    BY <2>3 DEF vars, RescueRefused
  <2>. QED  BY <2>1, <2>2, <2>3 DEF Next
<1>. QED
  BY <1>1, <1>2, LoopInvariant, PTL DEF Spec

-----------------------------------------------------------------------------
(* update() takes the gate over as the last state of the observer.         *)
LEMMA PrevAfterUpdate ==
  ASSUME NEW c \in ControlType, NEW sp \in Setpoints, NEW est \in Estimates
  PROVE  /\ ControlUpdate(c, sp, est).prev = c.enabled
         /\ ControlUpdate(c, sp, est).enabled = c.enabled
<1>. DEFINE started == IF c.enabled /\ ~c.prev THEN EsoReset(c, est.pos, est.vel) ELSE c
            observed == IF c.enabled THEN EsoUpdate(started, est.pos) ELSE started
<1>1. observed \in ControlType /\ observed.enabled = c.enabled
  <2>1. est.pos \in SUBSET Axes /\ est.vel \in SUBSET Axes
    BY DEF Estimates
  <2>2. started \in ControlType /\ started.enabled = c.enabled
    BY <2>1 DEF ControlType, EsoReset
  <2>. HIDE DEF started
  <2>3. EsoUpdate(started, est.pos) \in ControlType /\ EsoUpdate(started, est.pos).enabled = c.enabled
    BY <2>1, <2>2 DEF ControlType, EsoUpdate
  <2>. QED  BY <2>2, <2>3
<1>. HIDE DEF observed
<1>. QED
  BY <1>1 DEF ControlUpdate, ControlType, observed, started

(* A success clears the failsafe hysteresis, and a failure sets it only if *)
(* it was waiting, unless there is no delay.                               *)
LEMMA LandStep ==
  ASSUME land \in HysteresisType(LOITER_TIME_BEFORE_DESCEND),
         LOITER_TIME_BEFORE_DESCEND > 0, NEW ok \in BOOLEAN
  PROVE  /\ ok => ~FailsafeLand(ok).state /\ ~FailsafeLand(ok).requested
         /\ ~ok /\ FailsafeLand(ok).state => land.state \/ land.requested
<1>. DEFINE D == LOITER_TIME_BEFORE_DESCEND
            set(b) == SetStateAndUpdate(Aged(land, D), b, D)
<1>1. D \in Nat /\ land \in HysteresisType(D)
  BY LoopAssumption
<1>2. ASSUME NEW b \in BOOLEAN
      PROVE  /\ ~b => ~set(b).state /\ ~set(b).requested
             /\ b /\ set(b).state => land.state \/ set(b).age >= D
             /\ b /\ ~land.state /\ ~land.requested => set(b).age = 0
  <2>1. CASE b = TRUE
    <3>1. /\ set(TRUE).state => land.state \/ set(TRUE).age >= D
          /\ ~land.state /\ ~land.requested => set(TRUE).age = 0
      BY <1>1, HysteresisStep
    <3>. QED  BY <2>1, <3>1
  <2>2. CASE b = FALSE
    <3>1. ~set(FALSE).state /\ ~set(FALSE).requested
      BY <1>1, HysteresisStep
    <3>. QED  BY <2>2, <3>1
  <2>. QED  BY <2>1, <2>2
<1>3. FailsafeLand(ok) = set(~ok)
  BY DEF FailsafeLand
<1>. HIDE DEF set
<1>4. CASE ok
  <2>1. FailsafeLand(ok) = set(FALSE)
    BY <1>3, <1>4
  <2>. QED  BY <1>2, <1>4, <2>1
<1>5. CASE ~ok
  <2>1. FailsafeLand(ok) = set(TRUE)
    BY <1>3, <1>5, Zenon
  <2>2. set(TRUE).state => land.state \/ set(TRUE).age >= D
    BY <1>2, Zenon
  <2>3. ~land.state /\ ~land.requested => set(TRUE).age = 0
    BY <1>2, Zenon
  <2>4. ~(0 >= D)
    BY <1>1
  <2>. QED  BY <1>5, <2>1, <2>2, <2>3, <2>4
<1>. QED
  BY <1>4, <1>5

(* A sample under position control, with the gate: ColdInv is kept, and a  *)
(* cold start is explained.                                                *)
LEMMA ColdSample ==
  ASSUME LoopInv, ColdInv, PositionRun, ESO_POS_ESOGATE, LOITER_TIME_BEFORE_DESCEND > 0
  PROVE  /\ ColdInv'
         /\ hist'.observer = "cold" => hist'.skipped \/ (out.position /\ ~out.ok)
<1>0. PICK armed \in BOOLEAN, state \in States, est \in Estimates,
           ready \in ControlType, ok \in BOOLEAN, rescue \in Setpoints :
        Sampled(armed, state, est, ready, ok, rescue)
  BY SampleFacts
<1>. DEFINE feed == Sanitized(setpoint', est)
            first == ControlUpdate(ready, feed, est)
<1>. HIDE DEF feed, first
<1>1. /\ setpoint' \in Setpoints /\ feed \in Setpoints
      /\ takeoff'.state = state
      /\ (state = "disarmed") <=> ~armed
      /\ state = "flight" => takeoff.state \in {"flight", "rampup"}
      /\ ready \in {Gated(state), ResetIntegral(Gated(state))}
      /\ ok = Succeeds(feed, est, first)
      /\ land' = FailsafeLand(ok)
      /\ rescue = IF land'.state THEN FailsafeSetpoint(est) ELSE Zeroed
      /\ control' = IF ok THEN first ELSE ControlUpdate(first, rescue, est)
      /\ out'.position /\ out'.ok = ok
      /\ hist'.skipped = (armed /\ hist.skipped)
      /\ hist'.observer = ObserverAfter(ready, feed, IF ok THEN feed ELSE rescue, est)
  BY <1>0 DEF feed, first, Sampled
<1>2. /\ ready.enabled = (state = "flight")
      /\ ready.prev => control.prev
  BY <1>1 DEF Gated, ResetIntegral, LoopInv, TypeOK, ControlTypeOK
<1>3. first \in ControlType /\ first.enabled = ready.enabled /\ first.prev = ready.enabled
  BY <1>1, ControlUpdateType, PrevAfterUpdate DEF first
<1>4. control'.prev = ready.enabled
  <2>1. ControlUpdate(first, rescue, est).prev = ready.enabled
    BY <1>3, PrevAfterUpdate
  <2>2. control' = first \/ control' = ControlUpdate(first, rescue, est)
    BY <1>1
  <2>. QED  BY <1>3, <2>1, <2>2
<1>5. ~ok => ~out'.ok /\ out'.position
  BY <1>1
<1>6. ok => ~land'.state /\ ~land'.requested
  BY <1>1, LandStep DEF LoopInv, TypeOK
<1>7. ~ok /\ land'.state => land.state \/ land.requested
  BY <1>1, LandStep DEF LoopInv, TypeOK
<1>8. InputValid(feed, est) \in BOOLEAN /\ InputValid(rescue, est) \in BOOLEAN
  BY DEF InputValid
<1>9. hist'.observer = "idle" /\ control'.prev => ~ok
  BY <1>1, <1>4, <1>8 DEF ObserverAfter, Observes, Succeeds
<1>10. ColdInv'
  BY <1>5, <1>6, <1>9 DEF ColdInv
<1>11. ASSUME hist'.observer = "cold" PROVE hist'.skipped \/ (out.position /\ ~out.ok)
  <2>1. ready.enabled /\ hist.observer = "idle"
    BY <1>1, <1>11 DEF ObserverAfter, Observes
  <2>2. armed /\ takeoff.state # "disarmed"
    BY <1>1, <1>2, <2>1
  <2>3. CASE InputValid(feed, est)
    <3>1. ready.prev
      BY <1>1, <1>11, <2>1, <2>3 DEF ObserverAfter, Observes
    <3>. QED  BY <1>1, <1>2, <2>1, <2>2, <3>1 DEF ColdInv
  <2>4. CASE ~InputValid(feed, est)
    <3>1. ~ok
      BY <1>1, <2>4 DEF Succeeds
    <3>2. InputValid(rescue, est)
      BY <1>1, <1>11, <2>1, <2>4, <3>1 DEF ObserverAfter, Observes
    <3>3. land'.state
      <4>. SUFFICES ASSUME ~land'.state PROVE FALSE
        OBVIOUS
      <4>1. InputValid(Zeroed, est)
        BY <1>1, <3>2
      <4>2. est.pos = Axes /\ est.vel = Axes
        BY <4>1 DEF InputValid, Zeroed, NoSetpoint, Estimates
      <4>3. feed.pos = Axes /\ feed.vel = Axes /\ feed.acc = Axes
        BY <1>1, <4>2 DEF feed, Sanitized, Setpoints
      <4>. QED  BY <2>4, <4>2, <4>3 DEF InputValid
    <3>4. land.state \/ land.requested
      BY <1>7, <3>1, <3>3
    <3>. QED  BY <1>1, <2>2, <3>4 DEF ColdInv
  <2>. QED  BY <1>8, <2>3, <2>4
<1>. QED
  BY <1>10, <1>11

(* With ESO_POS_ESOGATE at its default and a failsafe delay of a sample or *)
(* more, only a failed update() or time outside position control hides the *)
(* observer's enable edge.  (Without the gate the first sample of a flight *)
(* starts it cold.)                                                        *)
THEOREM ColdStartTheorem ==
  ASSUME ESO_POS_ESOGATE, LOITER_TIME_BEFORE_DESCEND > 0
  PROVE  Spec => ColdStartExplained
<1>1. Init => ColdInv
  BY DEF Init, TakeoffInit, ColdInv
<1>2. LoopInv /\ ColdInv /\ [Next]_vars => ColdInv'
  <2>. SUFFICES ASSUME LoopInv, ColdInv, [Next]_vars PROVE ColdInv'
    OBVIOUS
  <2>1. CASE PositionRun
    BY <2>1, ColdSample
  <2>2. CASE OtherRun
    <3>. PICK armed \in BOOLEAN, landed \in BOOLEAN : OtherModes(armed, landed)
      BY <2>2 DEF OtherRun
    <3>1. hist'.skipped = armed
      BY DEF OtherModes
    <3>2. ~armed => takeoff'.state = "disarmed"
      BY DEF OtherModes, UpdateTakeoffState
    <3>. QED  BY <3>1, <3>2 DEF ColdInv
  <2>3. CASE UNCHANGED vars
    BY <2>3 DEF vars, ColdInv
  <2>. QED  BY <2>1, <2>2, <2>3 DEF Next
<1>3. LoopInv /\ ColdInv /\ [Next]_vars =>
        [hist'.observer = "cold" => hist'.skipped \/ (out.position /\ ~out.ok)]_vars
  <2>. SUFFICES ASSUME LoopInv, ColdInv, Next, hist'.observer = "cold"
                PROVE  hist'.skipped \/ (out.position /\ ~out.ok)
    OBVIOUS
  <2>1. CASE PositionRun
    BY <2>1, ColdSample
  <2>2. CASE OtherRun
    BY <2>2 DEF OtherRun, OtherModes
  <2>. QED  BY <2>1, <2>2 DEF Next
<1>. QED
  BY <1>1, <1>2, <1>3, LoopInvariant, PTL DEF Spec, ColdStartExplained
-----------------------------------------------------------------------------
(* With a sound observer update() refuses a full trajectory only because   *)
(* an estimate is missing, and then leaves the thrust alone, on the        *)
(* trajectory and on the zero setpoint.                                    *)
LEMMA ThrustKept ==
  ASSUME NEW c \in ControlType, NEW sp \in Setpoints, NEW est \in Estimates,
         sp.pos = Axes, c.z1 = Axes, c.z3 = Axes,
         ~Succeeds(Sanitized(sp, est), est, ControlUpdate(c, Sanitized(sp, est), est))
  PROVE  ControlUpdate(ControlUpdate(c, Sanitized(sp, est), est), Zeroed, est).thr = c.thr
<1>. DEFINE feed == Sanitized(sp, est)
            started == IF c.enabled /\ ~c.prev THEN EsoReset(c, est.pos, est.vel) ELSE c
            observed == IF c.enabled THEN EsoUpdate(started, est.pos) ELSE started
<1>1. est.pos \in SUBSET Axes /\ est.vel \in SUBSET Axes
  BY DEF Estimates
<1>2. feed.pos = Axes /\ feed.vel = Axes /\ feed.acc = Axes /\ feed \in Setpoints
  <2>1. feed.pos = Axes /\ feed.vel = Axes /\ feed.acc = Axes
    BY <1>1 DEF Sanitized, Setpoints
  <2>. QED  BY <2>1, SetpointTypes
<1>3. ~InputValid(feed, est)
  <2>. SUFFICES ASSUME InputValid(feed, est) PROVE FALSE
    OBVIOUS
  <2>1. est.pos = Axes /\ est.vel = Axes
    BY <1>1, <1>2 DEF InputValid
  <2>2. started \in ControlType /\ started.z1 = Axes /\ started.z3 = Axes
    BY <2>1 DEF EsoReset, ControlType
  <2>3. observed \in ControlType /\ observed.z3 = Axes
    <3>. HIDE DEF started
    <3>1. EsoUpdate(started, est.pos) \in ControlType /\ EsoUpdate(started, est.pos).z3 = Axes
      BY <2>1, <2>2 DEF EsoUpdate, ControlType
    <3>. QED  BY <2>2, <3>1
  <2>4. VelocitySetpoint(feed, est) = Axes
    BY <1>2, <2>1 DEF VelocitySetpoint, Axes
  <2>5. ThrustOf(AccelerationSetpoint(feed, est, Axes)) = "computed"
    BY <2>1, <2>4 DEF AccelerationSetpoint, ThrustOf, Axes
  <2>6. ControlUpdate(c, feed, est).thr = "computed"
    <3>. HIDE DEF observed, feed
    <3>1. (IF c.enabled THEN observed.z3 ELSE Axes) = Axes
      BY <2>3
    <3>2. ControlUpdate(c, feed, est).thr =
            ThrustOf(AccelerationSetpoint(feed, est, IF c.enabled THEN observed.z3 ELSE Axes))
      BY <2>3 DEF ControlUpdate, ControlType, observed, started
    <3>. QED  BY <2>5, <3>1, <3>2
  <2>. QED  BY <2>6 DEF Succeeds
<1>4. ~InputValid(Zeroed, est)
  BY <1>2, <1>3 DEF InputValid, Zeroed, NoSetpoint
<1>5. ASSUME NEW d \in ControlType, NEW s \in Setpoints, ~InputValid(s, est)
      PROVE  ControlUpdate(d, s, est).thr = d.thr
  BY <1>5 DEF ControlUpdate, ControlType
<1>6. ControlUpdate(c, feed, est) \in ControlType /\ Zeroed \in Setpoints
  BY <1>2, SetpointTypes, ControlUpdateType
<1>. HIDE DEF feed
<1>7. ControlUpdate(ControlUpdate(c, feed, est), Zeroed, est).thr = c.thr
  BY <1>2, <1>3, <1>4, <1>5, <1>6
<1>. QED
  BY <1>7 DEF feed

(* During the failsafe's delay update() leaves the last thrust alone, with *)
(* whatever estimates are missing, if the trajectory is a position and the *)
(* observer holds no NaN.                                                  *)
THEOREM KeepsThrustTheorem == Spec => KeepsThrust
<1>. DEFINE Kept == /\ out'.position /\ out'.fed = "zeroed"
                    /\ setpoint'.pos = Axes
                    /\ control.z1 \cap control.z2 \cap control.z3 \cap control.eso_input = Axes
                    => control'.thr = control.thr
<1>1. LoopInv /\ [Next]_vars => [Kept]_vars
  <2>. SUFFICES ASSUME LoopInv, Next, out'.position, out'.fed = "zeroed", setpoint'.pos = Axes,
                       control.z1 \cap control.z2 \cap control.z3 \cap control.eso_input = Axes
                PROVE  control'.thr = control.thr
    OBVIOUS
  <2>1. PositionRun
    <3>1. OtherRun => out' = NoOutput
      BY DEF OtherRun, OtherModes
    <3>2. ~NoOutput.position
      BY DEF NoOutput
    <3>. QED  BY <3>1, <3>2 DEF Next
  <2>2. control \in ControlType /\ control.z1 = Axes /\ control.z3 = Axes
    BY DEF LoopInv, TypeOK, ControlTypeOK, ControlType
  <2>3. PICK armed \in BOOLEAN, state \in States, est \in Estimates,
             ready \in ControlType, ok \in BOOLEAN, rescue \in Setpoints :
          Sampled(armed, state, est, ready, ok, rescue)
    BY <2>1, SampleFacts
  <2>. DEFINE feed == Sanitized(setpoint', est)
              first == ControlUpdate(ready, feed, est)
  <2>. HIDE DEF feed, first
  <2>4. /\ setpoint' \in Setpoints
        /\ ready \in {Gated(state), ResetIntegral(Gated(state))}
        /\ ok = Succeeds(feed, est, first)
        /\ rescue = IF land'.state THEN FailsafeSetpoint(est) ELSE Zeroed
        /\ control' = IF ok THEN first ELSE ControlUpdate(first, rescue, est)
        /\ out'.fed = IF ok THEN "trajectory" ELSE IF land'.state THEN "failsafe" ELSE "zeroed"
    BY <2>3 DEF Sampled, feed, first
  <2>5. ~ok /\ ~land'.state
    BY <2>4
  <2>6. ready.z1 = Axes /\ ready.z3 = Axes /\ ready.thr = control.thr
    BY <2>2, <2>4 DEF Gated, ResetIntegral, ControlType
  <2>7. ~Succeeds(feed, est, first) /\ control' = ControlUpdate(first, Zeroed, est)
    BY <2>4, <2>5
  <2>8. ControlUpdate(first, Zeroed, est).thr = ready.thr
    BY <2>4, <2>6, <2>7, ThrustKept DEF feed, first
  <2>. QED  BY <2>6, <2>7, <2>8
<1>. QED
  BY <1>1, LoopInvariant, PTL DEF Spec, KeepsThrust

-----------------------------------------------------------------------------
(* constrainXY keeps its limit for any two velocities, those that point    *)
(* against each other and the zero ones included.                          *)
LEMMA ConstrainXYLimited ==
  ASSUME NEW v0 \in Int, NEW v1 \in Int, NEW max \in Nat
  PROVE  Abs(ConstrainXY(v0, v1, max)) <= max
<1>. USE DEF Abs, Sign
<1>1. CASE Abs(v0 + v1) <= max
  BY <1>1 DEF ConstrainXY
<1>2. CASE ~(Abs(v0 + v1) <= max) /\ (Abs(v0) >= max \/ v1 = v0)
  <2>1. ConstrainXY(v0, v1, max) = Sign(v0) * max
    BY <1>2 DEF ConstrainXY
  <2>2. Sign(v0) * max \in {-max, 0, max}
    OBVIOUS
  <2>. QED  BY <2>1, <2>2
<1>3. CASE ~(Abs(v0 + v1) <= max) /\ ~(Abs(v0) >= max \/ v1 = v0)
  <2>1. v1 # 0
    BY <1>3
  <2>2. CASE v0 = 0
    <3>1. ConstrainXY(v0, v1, max) = Sign(v1) * max
      BY <1>3, <2>2 DEF ConstrainXY
    <3>2. Sign(v1) * max \in {-max, 0, max}
      OBVIOUS
    <3>. QED  BY <3>1, <3>2
  <2>3. CASE v0 # 0
    <3>1. ConstrainXY(v0, v1, max) = v0 + Sign(v1) * (max - Sign(v1) * v0)
      BY <1>3, <2>3 DEF ConstrainXY
    <3>2. v0 + Sign(v1) * (max - Sign(v1) * v0) \in {-max, max}
      BY <2>1
    <3>. QED  BY <3>1, <3>2
  <2>. QED  BY <2>2, <2>3
<1>. QED
  BY <1>1, <1>2, <1>3

(* _positionControl keeps the velocity setpoint within the limit for every *)
(* gain, limit, error, integral and feed-forward.                          *)
THEOREM VelocityLimitTheorem == VelocityLimited
<1>. SUFFICES ASSUME NEW err \in Errors, NEW int \in Integrals, NEW ff \in FeedForwards
              PROVE  Abs(VelSp(err, int, ff)) <= LIM_VEL_HORIZONTAL
  BY DEF VelocityLimited
<1>1. /\ MaxError \in Nat /\ LIM_POS_INT \in Nat /\ MaxFeedForward \in Nat
      /\ GAIN_POS_P \in Int /\ GAIN_POS_I \in Int /\ LIM_VEL_HORIZONTAL \in Nat
  BY VelocityAssumption
<1>2. err \in Int /\ int \in Int /\ ff \in Int
  BY <1>1 DEF Errors, Integrals, FeedForwards
<1>3. err * GAIN_POS_P \in Int /\ int * GAIN_POS_I \in Int
  BY <1>1, <1>2
<1>4. Unconstrained(err, int, ff) \in Int
  BY <1>2, <1>3 DEF Unconstrained, Stable
<1>. QED
  BY <1>1, <1>2, <1>4, ConstrainXYLimited DEF VelSp

(* Why the integral unwinds: a call at the setpoint without feed-forward   *)
(* leaves an integral alone that asks for no more than the limit allows,   *)
(* and brings any other nearer to zero, if a sample adds no more to the    *)
(* velocity through the integral than the error does through its gain.     *)
THEOREM UnwindTheorem ==
  ASSUME GAIN_POS_I <= GAIN_POS_P, NEW int \in Integrals
  PROVE  /\ NextIntegral(0, int, 0) \in Integrals
         /\ Abs(Stable(0, int)) <= LIM_VEL_HORIZONTAL => NextIntegral(0, int, 0) = int
         /\ Abs(Stable(0, int)) > LIM_VEL_HORIZONTAL => Abs(NextIntegral(0, int, 0)) < Abs(int)
<1>. DEFINE lim == LIM_VEL_HORIZONTAL
            v == int * GAIN_POS_I
<1>1. /\ LIM_POS_INT \in Nat /\ GAIN_POS_P \in {1, 2} /\ GAIN_POS_I \in {0, 1, 2}
      /\ GAIN_POS_I <= GAIN_POS_P /\ lim \in Nat \ {0}
  BY VelocityAssumption
<1>2. int \in Int /\ -LIM_POS_INT <= int /\ int <= LIM_POS_INT
  BY <1>1 DEF Integrals
<1>3. v \in {0, int, int + int} /\ v \in Int /\ (GAIN_POS_P = 1 => v \in {0, int})
  BY <1>1, <1>2
<1>4. Stable(0, int) = v /\ Unconstrained(0, int, 0) = v
  BY <1>1, <1>2, <1>3 DEF Stable, Unconstrained
<1>. HIDE DEF v, lim
<1>5. VelSp(0, int, 0) = IF Abs(v) <= lim THEN v ELSE IF v < 0 THEN -lim ELSE lim
  <2>1. VelSp(0, int, 0) = ConstrainXY(v, 0, lim)
    BY <1>4 DEF VelSp, lim
  <2>. QED  BY <1>1, <1>3, <2>1 DEF ConstrainXY, Abs, Sign
<1>6. CASE Abs(v) <= lim
  <2>1. NextIntegral(0, int, 0) = Constrain(int, -LIM_POS_INT, LIM_POS_INT)
    BY <1>1, <1>2, <1>3, <1>4, <1>5, <1>6 DEF NextIntegral
  <2>2. NextIntegral(0, int, 0) = int
    BY <1>1, <1>2, <2>1 DEF Constrain
  <2>. QED  BY <1>1, <1>2, <1>3, <1>4, <1>6, <2>2 DEF Abs, lim
<1>7. CASE Abs(v) > lim
  <2>. DEFINE edge == IF v < 0 THEN -lim ELSE lim
              by == (v - edge) * (2 \div GAIN_POS_P)
  <2>1. NextIntegral(0, int, 0) = Constrain(int - by, -LIM_POS_INT, LIM_POS_INT)
    BY <1>1, <1>2, <1>3, <1>4, <1>5, <1>7 DEF NextIntegral, Abs
  <2>2. by \in Int /\ Abs(int - by) < Abs(int)
    <3>1. CASE GAIN_POS_P = 1
      <4>1. v = int /\ by = (v - edge) + (v - edge)
        BY <1>1, <1>2, <1>3, <1>7, <3>1 DEF Abs
      <4>. QED  BY <1>1, <1>2, <1>7, <4>1 DEF Abs
    <3>2. CASE GAIN_POS_P = 2
      <4>1. v \in {int, int + int} /\ by = v - edge
        BY <1>1, <1>2, <1>3, <1>7, <3>2 DEF Abs
      <4>. QED  BY <1>1, <1>2, <1>7, <4>1 DEF Abs
    <3>. QED  BY <1>1, <3>1, <3>2
  <2>3. NextIntegral(0, int, 0) = int - by
    <3>. HIDE DEF by
    <3>1. -LIM_POS_INT <= int - by /\ int - by <= LIM_POS_INT
      BY <1>1, <1>2, <2>2 DEF Abs
    <3>. QED  BY <1>1, <1>2, <2>1, <2>2, <3>1 DEF Constrain
  <2>. HIDE DEF by
  <2>4. NextIntegral(0, int, 0) \in Integrals
    BY <1>1, <1>2, <2>2, <2>3 DEF Abs, Integrals
  <2>. QED  BY <1>1, <1>3, <1>4, <1>7, <2>2, <2>3, <2>4 DEF Abs, lim
<1>8. Abs(v) <= lim \/ Abs(v) > lim
  BY <1>1, <1>3 DEF Abs
<1>. QED
  BY <1>6, <1>7, <1>8

-----------------------------------------------------------------------------
(* Induction, with a set of numbers in the place of a predicate.           *)
LEMMA SetInduction ==
  ASSUME NEW S, 0 \in S, \A n \in Nat : n \in S => n + 1 \in S
  PROVE  Nat \subseteq S
<1>. SUFFICES ASSUME Nat \ S # {} PROVE FALSE
  OBVIOUS
<1>. DEFINE R == OpToRel(<, Nat)
<1>1. IsWellFoundedOn(R, Nat)
  BY NatLessThanWellFounded
<1>2. \A x, y \in Nat : x < y => <<x, y>> \in R
  BY DEF OpToRel
<1>. HIDE DEF R
<1>3. \E x \in Nat \ S : \A y \in Nat \ S : ~(<<y, x>> \in R)
  BY <1>1, WFMin
<1>4. PICK x \in Nat \ S : \A y \in Nat \ S : ~(<<y, x>> \in R)
  BY <1>3
<1>5. x - 1 \in Nat /\ x - 1 < x /\ (x - 1) + 1 = x
  BY <1>4
<1>6. x - 1 \in S
  BY <1>2, <1>4, <1>5
<1>. QED
  BY <1>4, <1>5, <1>6

(* IntegralAtRest has what its recursive definition says: each value is    *)
(* the call of the one before.                                             *)
LEMMA IntegralAtRestDef ==
  ASSUME NEW int
  PROVE  LET after == IntegralAtRest(int)
         IN  /\ after[0] = int
             /\ \A n \in 1 .. 2 * LIM_POS_INT : after[n] = NextIntegral(0, after[n - 1], 0)
<1>. DEFINE Values(f, m) ==
              f = [n \in 0 .. m |-> IF n = 0 THEN int ELSE NextIntegral(0, f[n - 1], 0)]
            Upto == {m \in Nat : \E f : Values(f, m)}
            last == 2 * LIM_POS_INT
<1>1. last \in Nat
  BY VelocityAssumption
<1>2. 0 \in Upto
  <2>1. Values([n \in 0 .. 0 |-> int], 0)
    OBVIOUS
  <2>. QED  BY <2>1
<1>3. ASSUME NEW m \in Nat, m \in Upto
      PROVE  m + 1 \in Upto
  <2>1. PICK f : Values(f, m)
    BY <1>3
  <2>. DEFINE g == [n \in 0 .. m + 1 |-> IF n = 0 THEN int ELSE NextIntegral(0, f[n - 1], 0)]
  <2>2. \A n \in 0 .. m : g[n] = f[n]
    BY <2>1
  <2>3. \A n \in 0 .. m + 1 : n # 0 => n - 1 \in 0 .. m
    OBVIOUS
  <2>4. Values(g, m + 1)
    BY <2>2, <2>3
  <2>. HIDE DEF Values, g
  <2>5. \E h : Values(h, m + 1)
    BY <2>4
  <2>. QED  BY <2>5
<1>4. Nat \subseteq Upto
  <2>. HIDE DEF Upto
  <2>. QED  BY <1>2, <1>3, SetInduction
<1>5. \E f : Values(f, last)
  BY <1>1, <1>4
<1>6. IntegralAtRest(int) = CHOOSE f : Values(f, last)
  BY DEF IntegralAtRest
<1>. DEFINE after == IntegralAtRest(int)
<1>7. Values(after, last)
  <2>. HIDE DEF Values
  <2>. QED  BY <1>5, <1>6
<1>. HIDE DEF after
<1>8. after[0] = int /\ \A n \in 1 .. last : after[n] = NextIntegral(0, after[n - 1], 0)
  BY <1>1, <1>7
<1>. QED
  BY <1>8 DEF after

(* The integral unwinds within as many calls as it has values on a side:   *)
(* until it settles, each call brings it nearer to zero by one at least.   *)
THEOREM UnwindsTheorem ==
  ASSUME GAIN_POS_I <= GAIN_POS_P
  PROVE  Unwinds
<1>. DEFINE Settled(int) == Abs(Stable(0, int)) <= LIM_VEL_HORIZONTAL
<1>. SUFFICES ASSUME NEW int \in Integrals
              PROVE  LET rest == IntegralAtRest(int)[2 * LIM_POS_INT]
                     IN  Settled(rest) /\ NextIntegral(0, rest, 0) = rest
  BY DEF Unwinds
<1>. DEFINE after == IntegralAtRest(int)
            last == 2 * LIM_POS_INT
            Near == {n \in Nat : n <= last =>
                       /\ after[n] \in Integrals
                       /\ Settled(after[n]) \/ Abs(after[n]) <= LIM_POS_INT - n}
<1>1. LIM_POS_INT \in Nat /\ last \in Nat /\ LIM_VEL_HORIZONTAL \in Nat /\ GAIN_POS_I \in Nat
      /\ GAIN_POS_P \in Nat
  BY VelocityAssumption
<1>2. after[0] = int /\ \A n \in 1 .. last : after[n] = NextIntegral(0, after[n - 1], 0)
  BY IntegralAtRestDef
<1>. HIDE DEF after
<1>3. \A i \in Integrals : i \in Int /\ Abs(i) \in Nat /\ Abs(i) <= LIM_POS_INT
  BY <1>1 DEF Integrals, Abs
<1>4. 0 \in Near
  BY <1>1, <1>2, <1>3
<1>5. \A i \in Integrals : /\ NextIntegral(0, i, 0) \in Integrals
                           /\ Settled(i) => NextIntegral(0, i, 0) = i
                           /\ Settled(i) \/ Abs(NextIntegral(0, i, 0)) < Abs(i)
  <2>. SUFFICES ASSUME NEW i \in Integrals
                PROVE  /\ NextIntegral(0, i, 0) \in Integrals
                       /\ Settled(i) => NextIntegral(0, i, 0) = i
                       /\ Settled(i) \/ Abs(NextIntegral(0, i, 0)) < Abs(i)
    OBVIOUS
  <2>1. i * GAIN_POS_I \in Int /\ 0 * GAIN_POS_P \in Int
    BY <1>1, <1>3
  <2>2. Abs(Stable(0, i)) \in Int
    BY <2>1 DEF Stable, Abs
  <2>. QED  BY <1>1, <2>2, UnwindTheorem
<1>. HIDE DEF Settled
<1>6. ASSUME NEW n \in Nat, n \in Near
      PROVE  n + 1 \in Near
  <2>. SUFFICES ASSUME n + 1 <= last
                PROVE  /\ after[n + 1] \in Integrals
                       /\ Settled(after[n + 1]) \/ Abs(after[n + 1]) <= LIM_POS_INT - (n + 1)
    BY <1>1
  <2>1. /\ after[n] \in Integrals
        /\ Settled(after[n]) \/ Abs(after[n]) <= LIM_POS_INT - n
    BY <1>1, <1>6
  <2>2. n + 1 \in 1 .. last /\ (n + 1) - 1 = n
    BY <1>1
  <2>3. after[n + 1] = NextIntegral(0, after[n], 0)
    BY <1>2, <2>2
  <2>4. after[n + 1] \in Integrals
    BY <1>5, <2>1, <2>3
  <2>5. CASE Settled(after[n])
    BY <1>5, <2>1, <2>3, <2>4, <2>5
  <2>6. CASE ~Settled(after[n])
    BY <1>1, <1>3, <1>5, <2>1, <2>3, <2>4, <2>6
  <2>. QED  BY <2>5, <2>6
<1>7. Nat \subseteq Near
  <2>. HIDE DEF Near
  <2>. QED  BY <1>4, <1>6, SetInduction
<1>8. after[last] \in Integrals
      /\ (Settled(after[last]) \/ Abs(after[last]) <= LIM_POS_INT - last)
  BY <1>1, <1>7
<1>9. Settled(after[last])
  <2>1. CASE Abs(after[last]) <= LIM_POS_INT - last
    <3>1. after[last] = 0
      BY <1>1, <1>3, <1>8, <2>1 DEF Abs
    <3>. QED  BY <1>1, <3>1 DEF Settled, Stable, Abs
  <2>. QED  BY <1>8, <2>1
<1>. QED
  BY <1>5, <1>8, <1>9 DEF after

(* Under position control the velocity setpoint is limited and a saturated *)
(* integral unwinds, in every behaviour of the loop, for every limit and   *)
(* every gain of the integral that is no larger than that of the error.    *)
THEOREM LimitTheorem ==
  ASSUME GAIN_POS_I <= GAIN_POS_P
  PROVE  LiveSpec => []LimitHolds
<1>1. LimitHolds
  BY VelocityLimitTheorem, UnwindsTheorem DEF LimitHolds
<1>. QED
  BY <1>1, PTL

-----------------------------------------------------------------------------
(* The loop with an estimator that never stops is the loop: what is proved *)
(* of Spec holds in every behaviour the liveness properties speak of.      *)
THEOREM LiveSpecImplementsSpec == LiveSpec => Spec
<1>1. LiveInit => Init
  BY DEF LiveInit
<1>2. [LiveNext]_LiveVars => [Next]_vars
  BY DEF LiveNext, LiveVars, vars
<1>. QED
  BY <1>1, <1>2, PTL DEF LiveSpec, Spec
=============================================================================
