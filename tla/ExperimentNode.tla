--------------------------- MODULE ExperimentNode ---------------------------
(***************************************************************************)
(* An experiment session: the offboard node (hover, or a square path) that *)
(* brings the vehicle into OFFBOARD, arms it and, once it is at its        *)
(* target, enables the arm motion over a latched topic; the motion node    *)
(* that moves the arm from then on; and the vehicle, seen through MAVROS.  *)
(* Time is counted in ticks, every age stops at its bound, and the 20 Hz   *)
(* loop runs at least once in every tick.  The tracking differentiator,    *)
(* which smooths the published target, is left out.                        *)
(***************************************************************************)
EXTENDS Integers

CONSTANTS
  RETRY,        \* ticks between two requests, 5 s
  HOLD,         \* activation_hold_s, or static_validation_delay_s
  CORNER_HOLD,  \* corner_hold_s
  SEGMENT,      \* the time from a corner to the next
  LAST,         \* index of the last waypoint; 0 is the hover node
  VALIDATION,   \* static_validation_delay_s >= 0
  JOINT_WAIT    \* how long the motion node waits for joint states

ASSUME ExperimentAssumption ==
  /\ {RETRY, HOLD, CORNER_HOLD, SEGMENT, LAST, JOINT_WAIT} \subseteq Nat
  /\ VALIDATION \in BOOLEAN

VARIABLES
  vehicle,  \* [mode, armed, pos]
  calm,     \* from now on nothing interferes and no call is lost
  known,    \* g_current_state and g_current_pose, "none" before the first pose
  node,     \* the variables of main
  enable,   \* experiment/arm_motion_enabled, latched: the last value published
  motion,   \* the motion node, and how long it has waited for joint states
  joints,   \* joint states are being published
  ran,      \* the loop has run in this tick
  off,      \* ticks since a run of the loop saw the vehicle off its target
  still     \* ticks since the published target came to a corner

vars == <<vehicle, calm, known, node, enable, motion, joints, ran, off, still>>

Positions == {"ground", "high", "target"}  \* high: above activation_altitude_m
Flight == [mode : {"OFFBOARD", "other"}, armed : BOOLEAN, pos : Positions]
MaxPhase == IF CORNER_HOLD > SEGMENT THEN CORNER_HOLD ELSE SEGMENT

TypeOK ==
  /\ vehicle \in Flight
  /\ calm \in BOOLEAN
  /\ known \in [mode : {"OFFBOARD", "other"}, armed : BOOLEAN, pos : Positions \cup {"none"}]
  /\ node \in [stage : {"stream", "loop"}, request : 0 .. RETRY + 1, window : BOOLEAN,
               since : 0 .. HOLD, enabled : BOOLEAN, moving : BOOLEAN, wp_idx : 0 .. LAST,
               phase : 0 .. MaxPhase, complete : BOOLEAN]
  /\ enable \in {"none", "false", "true"}
  /\ motion \in [stage : {"off", "waiting", "running", "dead"}, enabled : BOOLEAN,
                 waited : 0 .. JOINT_WAIT]
  /\ {joints, ran} \subseteq BOOLEAN
  /\ off \in 0 .. HOLD
  /\ still \in 0 .. CORNER_HOLD

Init ==
  /\ vehicle = [mode |-> "other", armed |-> FALSE, pos |-> "ground"]
  /\ calm = FALSE
  /\ known = [mode |-> "other", armed |-> FALSE, pos |-> "none"]
  /\ node = [stage |-> "stream", request |-> 0, window |-> FALSE, since |-> 0,
             enabled |-> FALSE, moving |-> FALSE, wp_idx |-> 0, phase |-> 0, complete |-> FALSE]
  /\ enable = "none"
  /\ motion = [stage |-> "off", enabled |-> FALSE, waited |-> 0]
  /\ joints = FALSE
  /\ ran = FALSE
  /\ off = 0
  /\ still = CORNER_HOLD

-----------------------------------------------------------------------------
(* The vehicle climbs to its target in OFFBOARD.                           *)
Climb ==
  /\ vehicle.armed /\ vehicle.mode = "OFFBOARD" /\ vehicle.pos # "target"
  /\ vehicle' = [vehicle EXCEPT !.pos = IF @ = "ground" THEN "high" ELSE "target"]
  /\ UNCHANGED <<calm, known, node, enable, motion, joints, ran, off, still>>

(* A gust, a pilot or a failsafe takes the vehicle off its target or out   *)
(* of OFFBOARD, where it may come down and be disarmed.                    *)
Interfere ==
  /\ ~calm
  /\ \/ vehicle.pos = "target" /\ vehicle' = [vehicle EXCEPT !.pos = "high"]
     \/ vehicle.mode = "OFFBOARD" /\ vehicle' = [vehicle EXCEPT !.mode = "other"]
     \/ vehicle.mode = "other" /\ vehicle' = [vehicle EXCEPT !.pos = "ground"]
     \/ vehicle.pos = "ground" /\ vehicle' = [vehicle EXCEPT !.armed = FALSE]
  /\ UNCHANGED <<calm, known, node, enable, motion, joints, ran, off, still>>

CalmsDown ==
  /\ calm' = TRUE
  /\ UNCHANGED <<vehicle, known, node, enable, motion, joints, ran, off, still>>

(* state_cb and pose_cb, in spinOnce.                                      *)
StateMessage ==
  /\ known' = [known EXCEPT !.mode = vehicle.mode, !.armed = vehicle.armed]
  /\ UNCHANGED <<vehicle, calm, node, enable, motion, joints, ran, off, still>>

PoseMessage ==
  /\ known' = [known EXCEPT !.pos = vehicle.pos]
  /\ UNCHANGED <<vehicle, calm, node, enable, motion, joints, ran, off, still>>

(* The setpoints streamed before the loop, and the latched FALSE.          *)
Stream ==
  /\ node.stage = "stream"
  /\ node' = [node EXCEPT !.stage = "loop", !.request = 0]
  /\ enable' = "false"
  /\ ran' = TRUE
  /\ UNCHANGED <<vehicle, calm, known, motion, joints, off, still>>

(* Mutant: every run of the loop restarts the time to the next request.    *)
Request_AlwaysRestarts(late, applied) ==
  IF known.mode # "OFFBOARD" /\ node.request > RETRY
  THEN [node |-> [node EXCEPT !.request = 0],
        vehicle |-> IF applied THEN [vehicle EXCEPT !.mode = "OFFBOARD"] ELSE vehicle]
  ELSE IF ~known.armed /\ (node.request > RETRY \/ (late /\ node.request = RETRY))
  THEN [node |-> [node EXCEPT !.request = 0],
        vehicle |-> IF applied THEN [vehicle EXCEPT !.armed = TRUE] ELSE vehicle]
  ELSE [node |-> [node EXCEPT !.request = 0], vehicle |-> vehicle]

(* OFFBOARD first, then arming, at most one request in RETRY; the clock is *)
(* read again for the second and may be late.  A call that is lost or      *)
(* refused changes nothing.                                                *)
Request(late, applied) ==
  IF known.mode # "OFFBOARD" /\ node.request > RETRY
  THEN [node |-> [node EXCEPT !.request = 0],
        vehicle |-> IF applied THEN [vehicle EXCEPT !.mode = "OFFBOARD"] ELSE vehicle]
  ELSE IF ~known.armed /\ (node.request > RETRY \/ (late /\ node.request = RETRY))
  THEN [node |-> [node EXCEPT !.request = 0],
        vehicle |-> IF applied THEN [vehicle EXCEPT !.armed = TRUE] ELSE vehicle]
  ELSE [node |-> node, vehicle |-> vehicle]

Enabled(n) == [n EXCEPT !.enabled = TRUE, !.phase = 0]

(* With static validation: the window starts when the vehicle is armed and *)
(* high enough; its end is looked at before the vehicle is.                *)
Validate(n) ==
  LET ready == known.armed /\ known.pos \in {"high", "target"}
      m == IF ~n.window /\ ready THEN [n EXCEPT !.window = TRUE, !.since = 0] ELSE n
  IN  IF m.window /\ m.since >= HOLD THEN Enabled(m)
      ELSE [m EXCEPT !.window = @ /\ ready]

(* Mutant: leaving the target does not restart the hold.                   *)
Activate_NoRestart(n) ==
  IF known.pos # "target" THEN n
  ELSE IF ~n.window THEN [n EXCEPT !.window = TRUE, !.since = 0]
  ELSE IF n.since >= HOLD THEN Enabled(n) ELSE n

(* Without: the vehicle has to be at its target for the hold time.         *)
Activate(n) ==
  IF known.pos # "target" THEN [n EXCEPT !.window = FALSE]
  ELSE IF ~n.window THEN [n EXCEPT !.window = TRUE, !.since = 0]
  ELSE IF n.since >= HOLD THEN Enabled(n) ELSE n

(* Mutant: the time at the corner counts from the start of the segment.    *)
Follow_PhaseRunsOn(n) ==
  IF ~n.enabled \/ n.complete \/ LAST = 0 THEN n
  ELSE IF n.moving
  THEN IF n.phase >= SEGMENT THEN [n EXCEPT !.wp_idx = @ + 1, !.moving = FALSE] ELSE n
  ELSE IF n.phase < CORNER_HOLD THEN n
  ELSE IF n.wp_idx = LAST THEN [n EXCEPT !.complete = TRUE]
  ELSE [n EXCEPT !.moving = TRUE, !.phase = 0]

(* Along the square by the clock: hold at a corner, then move to the next. *)
Follow(n) ==
  IF ~n.enabled \/ n.complete \/ LAST = 0 THEN n
  ELSE IF n.moving
  THEN IF n.phase >= SEGMENT THEN [n EXCEPT !.wp_idx = @ + 1, !.moving = FALSE, !.phase = 0] ELSE n
  ELSE IF n.phase < CORNER_HOLD THEN n
  ELSE IF n.wp_idx = LAST THEN [n EXCEPT !.complete = TRUE]
  ELSE [n EXCEPT !.moving = TRUE, !.phase = 0]

(* One run of the loop.                                                    *)
Loop ==
  /\ node.stage = "loop"
  /\ \E late, applied \in BOOLEAN :
       LET r == Request(late, applied)
           n == IF r.node.enabled THEN r.node
                ELSE IF VALIDATION THEN Validate(r.node) ELSE Activate(r.node)
       IN  /\ calm => applied
           /\ vehicle' = r.vehicle
           /\ node' = Follow(n)
           /\ enable' = IF n.enabled THEN "true" ELSE enable
  /\ ran' = TRUE
  /\ off' = IF known.pos = "target" THEN off ELSE 0
  /\ still' = IF node.moving /\ ~node'.moving THEN 0 ELSE still
  /\ UNCHANGED <<calm, known, motion, joints>>

Older(age, bound) == IF age < bound THEN age + 1 ELSE age

Tick ==
  /\ ran
  /\ ran' = FALSE
  /\ node' = [node EXCEPT !.request = Older(@, RETRY + 1), !.since = Older(@, HOLD),
                          !.phase = Older(@, MaxPhase)]
  /\ motion' = IF motion.stage = "waiting" THEN [motion EXCEPT !.waited = Older(@, JOINT_WAIT)]
               ELSE motion
  /\ off' = Older(off, HOLD)
  /\ still' = Older(still, CORNER_HOLD)
  /\ UNCHANGED <<vehicle, calm, known, enable, joints>>

-----------------------------------------------------------------------------
(* The motion node starts, at any time, and subscribes.                    *)
StartMotion ==
  /\ motion.stage = "off"
  /\ motion' = [motion EXCEPT !.stage = "waiting"]
  /\ UNCHANGED <<vehicle, calm, known, node, enable, joints, ran, off, still>>

JointStates ==
  /\ ~joints /\ joints' = TRUE
  /\ UNCHANGED <<vehicle, calm, known, node, enable, motion, ran, off, still>>

(* _wait_for_joint_states: it gives up when the deadline has passed.       *)
WaitForJointStates ==
  /\ motion.stage = "waiting"
  /\ joints \/ motion.waited = JOINT_WAIT
  /\ motion' = [motion EXCEPT !.stage = IF joints THEN "running" ELSE "dead"]
  /\ UNCHANGED <<vehicle, calm, known, node, enable, joints, ran, off, still>>

(* _enable_cb, with what the latched topic holds.                          *)
EnableMessage ==
  /\ motion.stage \in {"waiting", "running"} /\ enable # "none"
  /\ motion' = [motion EXCEPT !.enabled = @ \/ enable = "true"]
  /\ UNCHANGED <<vehicle, calm, known, node, enable, joints, ran, off, still>>

Next ==
  \/ Climb \/ Interfere \/ CalmsDown \/ StateMessage \/ PoseMessage
  \/ Stream \/ Loop \/ Tick
  \/ StartMotion \/ JointStates \/ WaitForJointStates \/ EnableMessage

(* The nodes are started and run, messages arrive, the vehicle flies.      *)
Fairness ==
  /\ WF_vars(Climb) /\ WF_vars(StateMessage) /\ WF_vars(PoseMessage)
  /\ WF_vars(Stream) /\ WF_vars(Loop) /\ WF_vars(Tick)
  /\ WF_vars(StartMotion) /\ WF_vars(WaitForJointStates) /\ WF_vars(EnableMessage)

Spec == Init /\ [][Next]_vars /\ Fairness

-----------------------------------------------------------------------------
(* Without static validation the arm motion is enabled only when every run *)
(* of the loop in the whole hold time saw the vehicle at its target,       *)
(* through gusts, mode changes and late poses.                             *)
EnabledAfterHold ==
  [][~node.enabled /\ node'.enabled => known.pos = "target" /\ off >= HOLD]_vars

(* The target leaves no corner of the square before its hold time.         *)
CornerHeld ==
  [][~node.moving /\ node'.moving => still >= CORNER_HOLD]_vars

(* Once nothing interferes any more, the vehicle gets into OFFBOARD, armed *)
(* and to its target, the square is flown to its end, and the arm moves if *)
(* it has not given up waiting for joint states.                           *)
Completes ==
  calm ~> /\ node.enabled
          /\ node.complete \/ LAST = 0
          /\ motion.enabled \/ motion.stage = "dead"

(* The repository's README: the vehicle is in OFFBOARD when the arm motion *)
(* is enabled.  The loop looks at the position only.                       *)
EnabledInOffboard ==
  [][~node.enabled /\ node'.enabled => known.mode = "OFFBOARD"]_vars

(* The log message of the static validation: when readiness is lost, the   *)
(* timer restarts.  In the run in which the delay ends, it does not.       *)
MarkerWhileReady ==
  [][~node.enabled /\ node'.enabled => known.armed /\ known.pos \in {"high", "target"}]_vars
=============================================================================
