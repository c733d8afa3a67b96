------------------------------ MODULE RateLoop ------------------------------
(***************************************************************************)
(* ESOMulticopterRateControl on one axis, in a loop with the control       *)
(* allocator, which tells it how much of the torque it asked for the       *)
(* motors could not deliver.  Torques are integers in units of half the    *)
(* normalised range.  The observer is abstracted to the age of what it has *)
(* integrated, the rate setpoint to who made it; the landing gear and the  *)
(* battery scaling, which touch neither, are left out.                     *)
(***************************************************************************)
EXTENDS Integers

CONSTANTS
  LIM_INT,     \* _lim_int
  MAX_TORQUE,  \* _max_torque, where update() cuts the torque
  MaxError,    \* bound on the rate error; it stands for 400 deg/s and more
  Limits       \* the torques the allocator can deliver, depending on the thrust

ASSUME RateAssumption ==
  /\ {LIM_INT, MAX_TORQUE} \subseteq Nat
  /\ MaxError \in Nat \ {0}
  /\ Limits # {} /\ Limits \subseteq Nat

VARIABLES
  vehicle,  \* [mode, armed, ground] as the commander and the land detector publish it
  seen,     \* the rate loop has run since vehicle changed
  rates,    \* vehicle_rates_setpoint: [by, unread]
  loop,     \* the members of ESOMulticopterRateControl and ESORateControl
  torque,   \* vehicle_torque_setpoint: [val, unread]
  alloc,    \* ControlAllocator: [sp, got] of its last allocation
  status    \* control_allocator_status: [unallocated, unread]

vars == <<vehicle, seen, rates, loop, torque, alloc, status>>

Modes == {"acro", "attitude", "none"}  \* none: a termination, without rate control
Torques == -MAX_TORQUE .. MAX_TORQUE
Sources == {"sticks", "attitude loop"}

TypeOK ==
  /\ vehicle \in [mode : Modes, armed : BOOLEAN, ground : BOOLEAN]
  /\ seen \in BOOLEAN
  /\ rates \in [by : Sources, unread : BOOLEAN]
  /\ loop \in [sp : Sources, rate_int : -LIM_INT .. LIM_INT, sat : {-1, 0, 1},
               eso : SUBSET {"this flight", "an earlier one"}, last_torque : Torques]
  /\ torque \in [val : Torques, unread : BOOLEAN]
  /\ alloc \in [sp : Torques, got : Torques]
  /\ status \in [unallocated : -2 * MAX_TORQUE .. 2 * MAX_TORQUE, unread : BOOLEAN]

Init ==
  /\ vehicle = [mode |-> "attitude", armed |-> FALSE, ground |-> TRUE]
  /\ seen = TRUE
  /\ rates = [by |-> "attitude loop", unread |-> FALSE]
  /\ loop = [sp |-> "attitude loop", rate_int |-> 0, sat |-> 0, eso |-> {}, last_torque |-> 0]
  /\ torque = [val |-> 0, unread |-> FALSE]
  /\ alloc = [sp |-> 0, got |-> 0]
  /\ status = [unallocated |-> 0, unread |-> FALSE]

-----------------------------------------------------------------------------
Constrain(n, bound) == IF n > bound THEN bound ELSE IF n < -bound THEN -bound ELSE n
Sign(n) == IF n > 0 THEN 1 ELSE IF n < 0 THEN -1 ELSE 0

(* What the observer holds when a flight ends belongs to an earlier one.   *)
Aged(eso) == IF eso = {} THEN {} ELSE {"an earlier one"}

(* The commander arms, disarms or changes the mode, the vehicle takes off  *)
(* or lands.  None of it happens twice between two gyro samples, and a     *)
(* terminated vehicle neither arms nor takes off.                          *)
VehicleChanges ==
  /\ seen
  /\ \/ \E mode \in Modes \ {vehicle.mode} : vehicle' = [vehicle EXCEPT !.mode = mode]
     \/ /\ vehicle.armed \/ vehicle.mode # "none"
        /\ vehicle' = [vehicle EXCEPT !.armed = ~@]
     \/ /\ vehicle.ground => vehicle.armed /\ vehicle.mode # "none"
        /\ vehicle' = [vehicle EXCEPT !.ground = ~@]
  /\ loop' = IF vehicle'.ground \/ ~vehicle'.armed THEN [loop EXCEPT !.eso = Aged(@)] ELSE loop
  /\ seen' = FALSE
  /\ UNCHANGED <<rates, torque, alloc, status>>

(* The attitude loop publishes a rate setpoint unless it is in Acro.       *)
AttitudeLoop ==
  /\ vehicle.mode = "attitude"
  /\ rates' = [by |-> "attitude loop", unread |-> TRUE]
  /\ UNCHANGED <<vehicle, seen, loop, torque, alloc, status>>

(* Mutant: a setpoint of the topic is taken off it and not used.           *)
Setpoint_TopicOnlyInAttitude(l, stick) ==
  CASE vehicle.mode = "acro" /\ stick -> [sp |-> "sticks", topic |-> [by |-> "sticks", unread |-> TRUE]]
    [] vehicle.mode = "acro" /\ ~stick -> [sp |-> l.sp, topic |-> rates]
    [] vehicle.mode # "acro" -> [sp |-> l.sp, topic |-> [rates EXCEPT !.unread = FALSE]]

(* In Acro a new stick position makes the setpoint and goes out on the     *)
(* topic that the other modes read it from.                                *)
Setpoint(l, stick) ==
  CASE vehicle.mode = "acro" /\ stick -> [sp |-> "sticks", topic |-> [by |-> "sticks", unread |-> TRUE]]
    [] vehicle.mode = "acro" /\ ~stick -> [sp |-> l.sp, topic |-> rates]
    [] vehicle.mode # "acro" -> [sp |-> IF rates.unread THEN rates.by ELSE l.sp,
                                 topic |-> [rates EXCEPT !.unread = FALSE]]

(* Mutant: a torque setpoint that was achieved leaves the flags as they are. *)
SetSaturationStatus_OnlySets(l) ==
  IF status.unread /\ status.unallocated # 0
  THEN [l EXCEPT !.sat = Sign(status.unallocated)] ELSE l

(* The flags follow the newest status of the allocator.                    *)
SetSaturationStatus(l) ==
  IF status.unread THEN [l EXCEPT !.sat = Sign(status.unallocated)] ELSE l

(* Mutant: each flag stops the integral on the side it does not speak of.  *)
UpdateIntegral_SwappedFlags(l, e) ==
  IF (l.sat # 0 /\ Sign(e) = -l.sat) \/ e \in {-MaxError, MaxError} THEN l
  ELSE [l EXCEPT !.rate_int = Constrain(@ + Sign(e), LIM_INT)]

(* A flag drops the error that would push the integral further, and a very *)
(* large error does not integrate.                                         *)
UpdateIntegral(l, e) ==
  IF (l.sat # 0 /\ Sign(e) = l.sat) \/ e \in {-MaxError, MaxError} THEN l
  ELSE [l EXCEPT !.rate_int = Constrain(@ + Sign(e), LIM_INT)]

(* Mutant: the observer runs on through a landing.                         *)
Update_KeepsObserver(l, e) ==
  LET m == IF vehicle.ground THEN l ELSE UpdateIntegral(l, e)
  IN  [m EXCEPT !.eso = @ \cup {"this flight"},
                !.last_torque = Constrain(e + m.rate_int, MAX_TORQUE)]

(* ESORateControl::update: on the ground the observer starts over and the  *)
(* integral stands still; the observer takes in this sample; and the       *)
(* torque, cut to the normalised range, is kept for its next input.        *)
Update(l, e) ==
  LET m == IF vehicle.ground THEN [l EXCEPT !.eso = {}, !.last_torque = 0]
           ELSE UpdateIntegral(l, e)
  IN  [m EXCEPT !.eso = @ \cup {"this flight"},
                !.last_torque = Constrain(e + m.rate_int, MAX_TORQUE)]

(* resetIntegral and resetESO.                                             *)
Reset(l) == [l EXCEPT !.rate_int = 0, !.eso = {}, !.last_torque = 0]

(* One gyro sample.  Rate control that is not enabled changes and          *)
(* publishes no torque (in a termination it zeroes the actuators).         *)
RateRun ==
  \E e \in -MaxError .. MaxError, stick \in BOOLEAN :
    LET new == Setpoint(loop, stick)
        set == [loop EXCEPT !.sp = new.sp]
        next == Update(SetSaturationStatus(IF vehicle.armed THEN set ELSE Reset(set)), e)
    IN  /\ seen' = TRUE
        /\ rates' = new.topic
        /\ loop' = IF vehicle.mode = "none" THEN set ELSE next
        /\ torque' = IF vehicle.mode = "none" THEN torque
                     ELSE [val |-> next.last_torque, unread |-> TRUE]
        /\ status' = IF vehicle.mode = "none" THEN status ELSE [status EXCEPT !.unread = FALSE]
        /\ UNCHANGED <<vehicle, alloc>>

(* ControlAllocator::Run: a new torque is allocated as far as the motors   *)
(* go; the status of the last allocation goes out at a limited rate.       *)
AllocatorRun ==
  \E limit \in Limits, publish \in BOOLEAN :
    LET done == IF torque.unread THEN [sp |-> torque.val, got |-> Constrain(torque.val, limit)]
                ELSE alloc
    IN  /\ torque' = [torque EXCEPT !.unread = FALSE]
        /\ alloc' = done
        /\ status' = IF publish THEN [unallocated |-> done.sp - done.got, unread |-> TRUE]
                     ELSE status
        /\ UNCHANGED <<vehicle, seen, rates, loop>>

Publishes == AllocatorRun /\ status' = [unallocated |-> alloc'.sp - alloc'.got, unread |-> TRUE]

Next == VehicleChanges \/ AttitudeLoop \/ RateRun \/ AllocatorRun

(* The gyro keeps the rate loop running, its torques and the backup        *)
(* schedule the allocator, whose status is due every 5 ms; and in its mode *)
(* the attitude loop keeps publishing.                                     *)
Fairness == WF_vars(RateRun) /\ WF_vars(Publishes) /\ WF_vars(AttitudeLoop)

Spec == Init /\ [][Next]_vars /\ Fairness

-----------------------------------------------------------------------------
(* Anti-windup: the integral, zero in every sample of a disarmed vehicle,  *)
(* never moves to the side on which the newest status of the allocator     *)
(* says that torque is missing, from whichever earlier torque it comes.    *)
NoWindup ==
  [][LET base == IF vehicle.armed THEN loop.rate_int ELSE 0
     IN  status.unallocated # 0 /\ loop'.rate_int # loop.rate_int =>
           Sign(loop'.rate_int - base) # Sign(status.unallocated)]_vars

(* In flight the observer holds nothing from before the vehicle was last   *)
(* on the ground or disarmed, however it got there (a touch-and-go, a      *)
(* change to a mode without rate control).                                 *)
FreshObserver ==
  vehicle.armed /\ ~vehicle.ground => "an earlier one" \notin loop.eso

(* An integrator stopped by a saturation is released: once the allocator   *)
(* delivers every torque in a mode with rate control, the flags clear.     *)
SaturationReleased ==
  <>[](alloc.sp = alloc.got /\ vehicle.mode # "none") => <>[](loop.sat = 0)

(* After Acro, in which the loop publishes on the topic it reads at other  *)
(* times, the setpoints of the attitude loop take over again.              *)
AttitudeTakesOver ==
  <>[](vehicle.mode = "attitude") => []<>(loop.sp = "attitude loop")

(* The comment on the parameter landed of update(): on the ground the      *)
(* integral is to be cleared.  update() only stops integrating.            *)
IntegralClearedOnLanding ==
  vehicle.ground /\ seen /\ vehicle.mode # "none" => loop.rate_int = 0

(* The comment in update(): the observer's next input must be a torque     *)
(* that can be realised, or it takes what was never applied for a          *)
(* disturbance.  The input is cut to the normalised range only, and the    *)
(* allocator's report of what is missing is not taken off.                 *)
ObserverInputRealised ==
  [][RateRun /\ vehicle.armed /\ ~vehicle.ground /\ vehicle.mode # "none"
       /\ status.unread /\ alloc.sp = loop.last_torque => loop.last_torque = alloc.got]_vars
=============================================================================
