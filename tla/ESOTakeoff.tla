----------------------------- MODULE ESOTakeoff -----------------------------
(***************************************************************************)
(* The takeoff state machine of the position loop: motors spool up after   *)
(* arming, the climb-rate limit ramps up once a takeoff is wanted, and     *)
(* only then is the vehicle in flight.  Time is counted in samples of      *)
(* vehicle_local_position, each of which runs the loop once.               *)
(***************************************************************************)
EXTENDS Hysteresis

CONSTANTS
  SPOOLUP,  \* ESO_SPOOLUP_TIME, in samples
  RAMP      \* ESO_TKO_RAMP_T, in samples; 1 when it is no longer than dt

ASSUME TakeoffAssumption ==
  /\ SPOOLUP \in Nat
  /\ RAMP \in Nat \ {0}

VARIABLE takeoff  \* [state, spoolup, progress], progress in samples of RAMP

States == {"disarmed", "spoolup", "ready_for_takeoff", "rampup", "flight"}

TakeoffTypeOK ==
  takeoff \in [state : States, spoolup : HysteresisType(SPOOLUP), progress : 0 .. RAMP]

TakeoffInit ==
  takeoff = [state |-> "disarmed", spoolup |-> HysteresisInit, progress |-> 0]

(* Mutant: the motors count as spun up as soon as the vehicle is armed.    *)
UpdateTakeoffState_NoSpoolup(armed, landed, want_takeoff, skip_takeoff) ==
  LET spun == IF takeoff.state \in {"disarmed", "spoolup"} /\ armed
                THEN "ready_for_takeoff" ELSE takeoff.state
      start == spun = "ready_for_takeoff" /\ want_takeoff
      progress == IF start THEN 0 ELSE takeoff.progress
      ramping == start \/ spun = "rampup"
      flying == spun = "flight" \/ (ramping /\ progress >= RAMP)
  IN  [state |-> IF ~armed THEN "disarmed"
                 ELSE IF skip_takeoff THEN "flight"
                 ELSE IF flying THEN IF landed THEN "ready_for_takeoff" ELSE "flight"
                 ELSE IF ramping THEN "rampup" ELSE spun,
       spoolup |-> SetStateAndUpdate(Aged(takeoff.spoolup, SPOOLUP), armed, SPOOLUP),
       progress |-> progress]

(* The state machine falls through its cases from disarmed to flight.      *)
UpdateTakeoffState(armed, landed, want_takeoff, skip_takeoff) ==
  LET spoolup == SetStateAndUpdate(Aged(takeoff.spoolup, SPOOLUP), armed, SPOOLUP)
      awake == IF takeoff.state = "disarmed" /\ armed THEN "spoolup" ELSE takeoff.state
      spun == IF awake = "spoolup" /\ spoolup.state THEN "ready_for_takeoff" ELSE awake
      start == spun = "ready_for_takeoff" /\ want_takeoff
      progress == IF start THEN 0 ELSE takeoff.progress
      ramping == start \/ spun = "rampup"
      flying == spun = "flight" \/ (ramping /\ progress >= RAMP)
  IN  [state |-> IF ~armed THEN "disarmed"
                 ELSE IF skip_takeoff THEN "flight"
                 ELSE IF flying THEN IF landed THEN "ready_for_takeoff" ELSE "flight"
                 ELSE IF ramping THEN "rampup" ELSE spun,
       spoolup |-> spoolup,
       progress |-> progress]

(* The ramp advances by one sample while it runs.  The climb-rate limit it *)
(* returns bounds a magnitude and is left out.                             *)
UpdateRamp(t) ==
  [t EXCEPT !.progress = IF t.state = "rampup" THEN @ + 1 ELSE @]
=============================================================================
