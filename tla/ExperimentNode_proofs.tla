----------------------- MODULE ExperimentNode_proofs ------------------------
(***************************************************************************)
(* Proofs about the experiment session, for any hold times, any number of  *)
(* waypoints and any retry interval.                                       *)
(***************************************************************************)
EXTENDS ExperimentNode, TLAPS

NodeType ==
  [stage : {"stream", "loop"}, request : 0 .. RETRY + 1, window : BOOLEAN,
   since : 0 .. HOLD, enabled : BOOLEAN, moving : BOOLEAN, wp_idx : 0 .. LAST,
   phase : 0 .. MaxPhase, complete : BOOLEAN]

(* There is a next waypoint to move to.                                    *)
LegInv == node.moving => node.wp_idx < LAST

(* The window that is open without static validation has been so for no    *)
(* longer than the vehicle has been seen at its target.                    *)
HoldInv == ~VALIDATION /\ ~node.enabled /\ node.window => node.since <= off

(* The time the loop counts at a corner has really been spent there.       *)
CornerInv == ~node.moving => node.phase <= still \/ still = CORNER_HOLD

NodeInv == TypeOK /\ LegInv /\ HoldInv /\ CornerInv

(* What the proofs use of the constants.                                   *)
LEMMA ConstantFacts ==
  /\ RETRY \in Nat /\ HOLD \in Nat /\ CORNER_HOLD \in Nat /\ SEGMENT \in Nat
  /\ LAST \in Nat /\ JOINT_WAIT \in Nat
  /\ MaxPhase \in Nat /\ CORNER_HOLD <= MaxPhase
  BY ExperimentAssumption DEF MaxPhase

(* An age grows up to its bound.                                           *)
LEMMA OlderFacts ==
  ASSUME NEW bound \in Nat, NEW age \in 0 .. bound
  PROVE  Older(age, bound) \in 0 .. bound /\ Older(age, bound) >= age
  BY DEF Older

(* A request touches the time of the last one only.                        *)
LEMMA RequestFacts ==
  ASSUME TypeOK, NEW late \in BOOLEAN, NEW applied \in BOOLEAN
  PROVE  LET r == Request(late, applied)
         IN  /\ r.vehicle \in Flight
             /\ r.node \in NodeType
             /\ r.node \in {node, [node EXCEPT !.request = 0]}
<1>1. node \in NodeType /\ vehicle \in Flight
  BY DEF TypeOK, NodeType
<1>2. [node EXCEPT !.request = 0] \in NodeType
  BY <1>1, ConstantFacts DEF NodeType
<1>3. [vehicle EXCEPT !.mode = "OFFBOARD"] \in Flight /\ [vehicle EXCEPT !.armed = TRUE] \in Flight
  BY <1>1 DEF Flight
<1>. QED
  BY <1>1, <1>2, <1>3 DEF Request

(* Neither kind of activation touches the path, except that enabling the   *)
(* motion starts the time at the first corner.                             *)
LEMMA ActivationFacts ==
  ASSUME NEW n \in NodeType, ~n.enabled, NEW a \in {Activate(n), Validate(n)}
  PROVE  /\ a \in NodeType
         /\ a.moving = n.moving /\ a.wp_idx = n.wp_idx /\ a.complete = n.complete
         /\ a.stage = n.stage
         /\ a.phase = n.phase \/ (a.enabled /\ a.phase = 0)
<1>1. 0 \in 0 .. HOLD /\ 0 \in 0 .. MaxPhase
  BY ConstantFacts
<1>. DEFINE Kept(m) == /\ m \in NodeType
                       /\ m.moving = n.moving /\ m.wp_idx = n.wp_idx /\ m.complete = n.complete
                       /\ m.stage = n.stage /\ m.phase = n.phase
<1>2. Kept(n)
  OBVIOUS
<1>3. Kept([n EXCEPT !.window = TRUE, !.since = 0])
  BY <1>1 DEF NodeType
<1>4. ASSUME NEW m, Kept(m)
      PROVE  /\ \A w \in BOOLEAN : Kept([m EXCEPT !.window = w])
             /\ Enabled(m) \in NodeType
             /\ Enabled(m).moving = n.moving /\ Enabled(m).wp_idx = n.wp_idx
             /\ Enabled(m).complete = n.complete /\ Enabled(m).stage = n.stage
             /\ Enabled(m).enabled /\ Enabled(m).phase = 0
  BY <1>1, <1>4 DEF NodeType, Enabled
<1>. DEFINE Fine(m) == /\ m \in NodeType
                       /\ m.moving = n.moving /\ m.wp_idx = n.wp_idx /\ m.complete = n.complete
                       /\ m.stage = n.stage
                       /\ m.phase = n.phase \/ (m.enabled /\ m.phase = 0)
<1>5. \A m : Kept(m) => Fine(m)
  OBVIOUS
<1>6. \A m : Kept(m) => Fine(Enabled(m))
  BY <1>4
<1>7. Fine(Activate(n))
  <2>1. Kept([n EXCEPT !.window = FALSE])
    BY <1>2, <1>4
  <2>. HIDE DEF Kept, Fine
  <2>. QED
    BY <1>2, <1>3, <1>5, <1>6, <2>1 DEF Activate
<1>8. Fine(Validate(n))
  <2>. DEFINE ready == known.armed /\ known.pos \in {"high", "target"}
              m == IF ~n.window /\ ready THEN [n EXCEPT !.window = TRUE, !.since = 0] ELSE n
  <2>1. Kept(m)
    <3>. HIDE DEF Kept
    <3>. QED
      BY <1>2, <1>3
  <2>2. Kept([m EXCEPT !.window = m.window /\ ready])
    <3>1. (m.window /\ ready) \in BOOLEAN
      OBVIOUS
    <3>. HIDE DEF Kept, m, ready
    <3>. QED
      BY <1>4, <2>1, <3>1
  <2>3. Validate(n) = IF m.window /\ m.since >= HOLD THEN Enabled(m)
                      ELSE [m EXCEPT !.window = m.window /\ ready]
    BY DEF Validate
  <2>. HIDE DEF Kept, Fine, m, ready
  <2>. QED
    BY <1>5, <1>6, <2>1, <2>2, <2>3
<1>. QED
  BY <1>7, <1>8

(* Without static validation: the window that a run leaves open, and the   *)
(* one that a run enables the motion in.                                   *)
LEMMA ActivateHold ==
  ASSUME NEW n \in NodeType, ~n.enabled, NEW age \in 0 .. HOLD, n.window => n.since <= age
  PROVE  LET a == Activate(n)
         IN  /\ a.window /\ ~a.enabled => known.pos = "target" /\ a.since <= age
             /\ a.enabled => known.pos = "target" /\ age >= HOLD
<1>1. HOLD \in Nat /\ n.since \in 0 .. HOLD
  BY ConstantFacts DEF NodeType
<1>2. CASE known.pos # "target"
  <2>1. Activate(n) = [n EXCEPT !.window = FALSE]
    BY <1>2 DEF Activate
  <2>. QED
    BY <2>1 DEF NodeType
<1>3. CASE known.pos = "target" /\ ~n.window
  <2>1. Activate(n) = [n EXCEPT !.window = TRUE, !.since = 0]
    BY <1>3 DEF Activate
  <2>. QED
    BY <1>1, <1>3, <2>1 DEF NodeType
<1>4. CASE known.pos = "target" /\ n.window
  <2>1. Activate(n) = IF n.since >= HOLD THEN Enabled(n) ELSE n
    BY <1>4 DEF Activate
  <2>2. CASE n.since >= HOLD
    BY <1>1, <1>4, <2>1, <2>2 DEF Enabled, NodeType
  <2>3. CASE ~(n.since >= HOLD)
    BY <1>1, <1>4, <2>1, <2>3
  <2>. QED
    BY <2>2, <2>3
<1>. QED
  BY <1>2, <1>3, <1>4

(* Along the square: what a run does to the path.                          *)
LEMMA FollowFacts ==
  ASSUME NEW n \in NodeType, n.moving => n.wp_idx < LAST
  PROVE  LET f == Follow(n)
         IN  /\ f \in NodeType
             /\ f.window = n.window /\ f.since = n.since /\ f.enabled = n.enabled
             /\ f.moving => f.wp_idx < LAST
             /\ ~n.moving /\ f.moving => n.phase >= CORNER_HOLD
             /\ ~n.moving /\ ~f.moving => f.phase = n.phase
             /\ n.moving /\ ~f.moving => f.phase = 0
<1>1. LAST \in Nat /\ n.wp_idx \in 0 .. LAST /\ 0 \in 0 .. MaxPhase
  BY ConstantFacts DEF NodeType
<1>2. CASE Follow(n) = n
  BY <1>2
<1>3. CASE n.moving /\ Follow(n) = [n EXCEPT !.wp_idx = @ + 1, !.moving = FALSE, !.phase = 0]
  <2>1. n.wp_idx + 1 \in 0 .. LAST
    BY <1>1, <1>3
  <2>. QED
    BY <1>1, <1>3, <2>1 DEF NodeType
<1>4. CASE ~n.moving /\ Follow(n) = [n EXCEPT !.complete = TRUE]
  BY <1>4 DEF NodeType
<1>5. CASE /\ ~n.moving /\ ~(n.phase < CORNER_HOLD) /\ n.wp_idx # LAST
           /\ Follow(n) = [n EXCEPT !.moving = TRUE, !.phase = 0]
  <2>1. n.phase >= CORNER_HOLD
    BY <1>5, ConstantFacts DEF NodeType
  <2>2. n.wp_idx < LAST
    BY <1>1, <1>5
  <2>. QED
    BY <1>1, <1>5, <2>1, <2>2 DEF NodeType
<1>. QED
  BY <1>2, <1>3, <1>4, <1>5 DEF Follow

(* One run of the loop, from the members the request leaves.               *)
LEMMA LoopFacts ==
  ASSUME NodeInv, Loop
  PROVE  /\ vehicle' \in Flight
         /\ node' \in NodeType
         /\ enable' \in {enable, "true"}
         /\ UNCHANGED <<calm, known, motion, joints>> /\ ran' = TRUE
         /\ off' = IF known.pos = "target" THEN off ELSE 0
         /\ still' = IF node.moving /\ ~node'.moving THEN 0 ELSE still
         /\ node'.moving => node'.wp_idx < LAST
         /\ ~node.moving /\ node'.moving => node.phase >= CORNER_HOLD \/ CORNER_HOLD = 0
         /\ ~node.moving /\ ~node'.moving => node'.phase \in {0, node.phase}
         /\ node.moving /\ ~node'.moving => node'.phase = 0
         /\ ~VALIDATION =>
              /\ node'.window /\ ~node'.enabled =>
                   ~node.enabled /\ known.pos = "target" /\ node'.since <= off
              /\ ~node.enabled /\ node'.enabled => known.pos = "target" /\ off >= HOLD
<1>1. PICK late \in BOOLEAN, applied \in BOOLEAN :
        LET r == Request(late, applied)
            n == IF r.node.enabled THEN r.node
                 ELSE IF VALIDATION THEN Validate(r.node) ELSE Activate(r.node)
        IN  /\ calm => applied
            /\ vehicle' = r.vehicle
            /\ node' = Follow(n)
            /\ enable' = IF n.enabled THEN "true" ELSE enable
  BY DEF Loop
<1>. DEFINE m == Request(late, applied).node
            n == IF m.enabled THEN m ELSE IF VALIDATION THEN Validate(m) ELSE Activate(m)
<1>2. vehicle' \in Flight /\ m \in NodeType /\ m \in {node, [node EXCEPT !.request = 0]}
  BY <1>1, RequestFacts DEF NodeInv
<1>3. node' = Follow(n) /\ enable' \in {enable, "true"}
  BY <1>1
<1>. HIDE DEF m
<1>4. /\ m.window = node.window /\ m.since = node.since /\ m.enabled = node.enabled
      /\ m.moving = node.moving /\ m.wp_idx = node.wp_idx /\ m.phase = node.phase
  BY <1>2 DEF NodeInv, TypeOK
<1>5. /\ n \in NodeType
      /\ n.moving = m.moving /\ n.wp_idx = m.wp_idx
      /\ n.phase = m.phase \/ (~m.enabled /\ n.phase = 0)
  <2>1. CASE m.enabled
    BY <1>2, <2>1
  <2>2. CASE ~m.enabled
    <3>1. n \in {Activate(m), Validate(m)}
      BY <2>2
    <3>. HIDE DEF n
    <3>. QED
      BY <1>2, <2>2, <3>1, ActivationFacts
  <2>. QED
    BY <2>1, <2>2
<1>6. ~VALIDATION =>
        /\ n.window /\ ~n.enabled =>
             ~m.enabled /\ known.pos = "target" /\ n.since <= off
        /\ ~m.enabled /\ n.enabled => known.pos = "target" /\ off >= HOLD
  <2>. SUFFICES ASSUME ~VALIDATION
                PROVE  /\ n.window /\ ~n.enabled =>
                            ~m.enabled /\ known.pos = "target" /\ n.since <= off
                       /\ ~m.enabled /\ n.enabled => known.pos = "target" /\ off >= HOLD
    OBVIOUS
  <2>1. CASE m.enabled
    BY <2>1
  <2>2. CASE ~m.enabled
    <3>1. n = Activate(m)
      BY <2>2
    <3>2. off \in 0 .. HOLD /\ (m.window => m.since <= off)
      BY <1>4, <2>2 DEF NodeInv, TypeOK, HoldInv
    <3>. HIDE DEF n
    <3>. QED
      BY <1>2, <2>2, <3>1, <3>2, ActivateHold
  <2>. QED
    BY <2>1, <2>2
<1>. HIDE DEF n
<1>7. LET f == node'
      IN  /\ f \in NodeType
          /\ f.window = n.window /\ f.since = n.since /\ f.enabled = n.enabled
          /\ f.moving => f.wp_idx < LAST
          /\ ~n.moving /\ f.moving => n.phase >= CORNER_HOLD
          /\ ~n.moving /\ ~f.moving => f.phase = n.phase
          /\ n.moving /\ ~f.moving => f.phase = 0
  <2>1. n.moving => n.wp_idx < LAST
    BY <1>4, <1>5 DEF NodeInv, LegInv
  <2>. QED
    BY <1>3, <1>5, <2>1, FollowFacts
<1>8. ~node.moving /\ node'.moving => node.phase >= CORNER_HOLD \/ CORNER_HOLD = 0
  BY <1>4, <1>5, <1>7, ConstantFacts
<1>9. ~node.moving /\ ~node'.moving => node'.phase \in {0, node.phase}
  BY <1>4, <1>5, <1>7
<1>10. /\ UNCHANGED <<calm, known, motion, joints>> /\ ran' = TRUE
       /\ off' = IF known.pos = "target" THEN off ELSE 0
       /\ still' = IF node.moving /\ ~node'.moving THEN 0 ELSE still
  BY DEF Loop
<1>11. ~VALIDATION =>
         /\ node'.window /\ ~node'.enabled =>
              ~node.enabled /\ known.pos = "target" /\ node'.since <= off
         /\ ~node.enabled /\ node'.enabled => known.pos = "target" /\ off >= HOLD
  BY <1>4, <1>6, <1>7
<1>. QED
  BY <1>2, <1>3, <1>4, <1>5, <1>7, <1>8, <1>9, <1>10, <1>11

(* A run of the node's loop: the hold window, the enable and the path.     *)
LEMMA LoopStep == NodeInv /\ Loop => NodeInv'
<1>. SUFFICES ASSUME NodeInv, Loop
              PROVE  NodeInv'
  OBVIOUS
<1>1. /\ vehicle' \in Flight /\ node' \in NodeType /\ enable' \in {enable, "true"}
      /\ UNCHANGED <<calm, known, motion, joints>> /\ ran' = TRUE
      /\ off' = IF known.pos = "target" THEN off ELSE 0
      /\ still' = IF node.moving /\ ~node'.moving THEN 0 ELSE still
      /\ node'.moving => node'.wp_idx < LAST
  BY LoopFacts
<1>2. TypeOK'
  <2>1. off' \in 0 .. HOLD /\ still' \in 0 .. CORNER_HOLD
    BY <1>1, ConstantFacts DEF NodeInv, TypeOK
  <2>. QED
    BY <1>1, <2>1 DEF NodeInv, TypeOK, NodeType
<1>3. LegInv'
  BY <1>1 DEF LegInv
<1>4. HoldInv'
  <2>1. ~VALIDATION /\ node'.window /\ ~node'.enabled =>
          known.pos = "target" /\ node'.since <= off
    BY LoopFacts
  <2>. QED
    BY <1>1, <2>1 DEF HoldInv
<1>5. CornerInv'
  <2>1. /\ ~node.moving /\ ~node'.moving => node'.phase \in {0, node.phase}
        /\ node.moving /\ ~node'.moving => node'.phase = 0
    BY LoopFacts
  <2>2. still \in 0 .. CORNER_HOLD /\ CORNER_HOLD \in Nat
    BY ConstantFacts DEF NodeInv, TypeOK
  <2>. QED
    BY <1>1, <2>1, <2>2 DEF NodeInv, CornerInv
<1>. QED
  BY <1>2, <1>3, <1>4, <1>5 DEF NodeInv

(* All ages grow together.                                                 *)
LEMMA TickStep == NodeInv /\ Tick => NodeInv'
<1>. SUFFICES ASSUME NodeInv, Tick
              PROVE  NodeInv'
  OBVIOUS
<1>. DEFINE request == Older(node.request, RETRY + 1)
            since == Older(node.since, HOLD)
            phase == Older(node.phase, MaxPhase)
<1>1. /\ node' = [node EXCEPT !.request = request, !.since = since, !.phase = phase]
      /\ off' = Older(off, HOLD) /\ still' = Older(still, CORNER_HOLD)
      /\ UNCHANGED <<vehicle, calm, known, enable, joints>> /\ ran' = FALSE
  BY DEF Tick
<1>2. /\ node \in NodeType /\ off \in 0 .. HOLD /\ still \in 0 .. CORNER_HOLD
      /\ node.request \in 0 .. RETRY + 1 /\ node.since \in 0 .. HOLD /\ node.phase \in 0 .. MaxPhase
  BY DEF NodeInv, TypeOK, NodeType
<1>3. request \in 0 .. RETRY + 1 /\ since \in 0 .. HOLD /\ phase \in 0 .. MaxPhase
  <2>1. request \in 0 .. RETRY + 1
    BY <1>2, ConstantFacts, OlderFacts
  <2>2. since \in 0 .. HOLD
    BY <1>2, ConstantFacts, OlderFacts
  <2>3. phase \in 0 .. MaxPhase
    BY <1>2, ConstantFacts, OlderFacts
  <2>. QED
    BY <2>1, <2>2, <2>3
<1>. HIDE DEF request, since, phase
<1>4. /\ node' \in NodeType
      /\ node'.since = since /\ node'.phase = phase
      /\ node'.window = node.window /\ node'.enabled = node.enabled
      /\ node'.moving = node.moving /\ node'.wp_idx = node.wp_idx
  BY <1>1, <1>2, <1>3 DEF NodeType
<1>5. motion' \in [stage : {"off", "waiting", "running", "dead"}, enabled : BOOLEAN,
                   waited : 0 .. JOINT_WAIT]
  <2>1. motion \in [stage : {"off", "waiting", "running", "dead"}, enabled : BOOLEAN,
                    waited : 0 .. JOINT_WAIT]
    BY DEF NodeInv, TypeOK
  <2>2. Older(motion.waited, JOINT_WAIT) \in 0 .. JOINT_WAIT
    BY <2>1, ConstantFacts, OlderFacts
  <2>. QED
    BY <2>1, <2>2 DEF Tick
<1>6. off' \in 0 .. HOLD /\ still' \in 0 .. CORNER_HOLD
  BY <1>1, <1>2, ConstantFacts, OlderFacts
<1>7. TypeOK'
  BY <1>1, <1>4, <1>5, <1>6 DEF NodeInv, TypeOK, NodeType
<1>8. LegInv'
  BY <1>4 DEF NodeInv, LegInv
<1>9. HoldInv'
  <2>1. node.since <= off => since <= Older(off, HOLD)
    BY <1>2, ConstantFacts DEF since, Older
  <2>. QED
    BY <1>1, <1>4, <2>1 DEF NodeInv, HoldInv
<1>10. CornerInv'
  <2>1. node.phase <= still \/ still = CORNER_HOLD =>
          phase <= Older(still, CORNER_HOLD) \/ Older(still, CORNER_HOLD) = CORNER_HOLD
    BY <1>2, ConstantFacts DEF phase, Older
  <2>. QED
    BY <1>1, <1>4, <2>1 DEF NodeInv, CornerInv
<1>. QED
  BY <1>7, <1>8, <1>9, <1>10 DEF NodeInv

(* The steps that leave the hold and the path alone.                       *)
LEMMA OtherStep ==
  NodeInv /\ (\/ Climb \/ Interfere \/ CalmsDown \/ StateMessage \/ PoseMessage \/ Stream
              \/ StartMotion \/ JointStates \/ WaitForJointStates \/ EnableMessage)
    => NodeInv' /\ node'.enabled = node.enabled /\ node'.moving = node.moving
<1>. SUFFICES ASSUME NodeInv,
                     \/ Climb \/ Interfere \/ CalmsDown \/ StateMessage \/ PoseMessage \/ Stream
                     \/ StartMotion \/ JointStates \/ WaitForJointStates \/ EnableMessage
              PROVE  NodeInv' /\ node'.enabled = node.enabled /\ node'.moving = node.moving
  OBVIOUS
<1>1. off' = off /\ still' = still
  BY DEF Climb, Interfere, CalmsDown, StateMessage, PoseMessage, Stream,
         StartMotion, JointStates, WaitForJointStates, EnableMessage
<1>2. /\ node' \in NodeType
      /\ node'.window = node.window /\ node'.since = node.since
      /\ node'.enabled = node.enabled /\ node'.moving = node.moving
      /\ node'.wp_idx = node.wp_idx /\ node'.phase = node.phase
  <2>1. node \in NodeType
    BY DEF NodeInv, TypeOK, NodeType
  <2>2. CASE node' = node
    BY <2>1, <2>2
  <2>3. CASE node' = [node EXCEPT !.stage = "loop", !.request = 0]
    <3>1. 0 \in 0 .. RETRY + 1
      BY ConstantFacts
    <3>. QED
      BY <2>1, <2>3, <3>1 DEF NodeType
  <2>4. node' = node \/ node' = [node EXCEPT !.stage = "loop", !.request = 0]
    BY DEF Climb, Interfere, CalmsDown, StateMessage, PoseMessage, Stream,
           StartMotion, JointStates, WaitForJointStates, EnableMessage
  <2>. QED
    BY <2>2, <2>3, <2>4
<1>3. vehicle' \in Flight
  <2>1. vehicle \in Flight
    BY DEF NodeInv, TypeOK
  <2>2. CASE Climb
    BY <2>1, <2>2 DEF Climb, Flight, Positions
  <2>3. CASE Interfere
    BY <2>1, <2>3 DEF Interfere, Flight, Positions
  <2>4. CASE vehicle' = vehicle
    BY <2>1, <2>4
  <2>. QED
    BY <2>2, <2>3, <2>4 DEF CalmsDown, StateMessage, PoseMessage, Stream,
         StartMotion, JointStates, WaitForJointStates, EnableMessage
<1>4. known' \in [mode : {"OFFBOARD", "other"}, armed : BOOLEAN, pos : Positions \cup {"none"}]
  <2>1. /\ vehicle \in Flight
        /\ known \in [mode : {"OFFBOARD", "other"}, armed : BOOLEAN, pos : Positions \cup {"none"}]
    BY DEF NodeInv, TypeOK
  <2>2. CASE StateMessage
    BY <2>1, <2>2 DEF StateMessage, Flight
  <2>3. CASE PoseMessage
    BY <2>1, <2>3 DEF PoseMessage, Flight
  <2>4. CASE known' = known
    BY <2>1, <2>4
  <2>. QED
    BY <2>2, <2>3, <2>4 DEF Climb, Interfere, CalmsDown, Stream,
         StartMotion, JointStates, WaitForJointStates, EnableMessage
<1>5. motion' \in [stage : {"off", "waiting", "running", "dead"}, enabled : BOOLEAN,
                   waited : 0 .. JOINT_WAIT]
  <2>1. motion \in [stage : {"off", "waiting", "running", "dead"}, enabled : BOOLEAN,
                    waited : 0 .. JOINT_WAIT]
    BY DEF NodeInv, TypeOK
  <2>2. CASE StartMotion
    BY <2>1, <2>2 DEF StartMotion
  <2>3. CASE WaitForJointStates
    BY <2>1, <2>3 DEF WaitForJointStates
  <2>4. CASE EnableMessage
    <3>1. motion' = [motion EXCEPT !.enabled = motion.enabled \/ enable = "true"]
      BY <2>4 DEF EnableMessage
    <3>2. (motion.enabled \/ enable = "true") \in BOOLEAN
      OBVIOUS
    <3>. QED
      BY <2>1, <3>1, <3>2
  <2>5. CASE motion' = motion
    BY <2>1, <2>5
  <2>. QED
    BY <2>2, <2>3, <2>4, <2>5
       DEF Climb, Interfere, CalmsDown, StateMessage, PoseMessage, Stream, JointStates
<1>6. enable' \in {"none", "false", "true"} /\ calm' \in BOOLEAN
  BY DEF Climb, Interfere, CalmsDown, StateMessage, PoseMessage, Stream,
         StartMotion, JointStates, WaitForJointStates, EnableMessage, NodeInv, TypeOK
<1>7. joints' \in BOOLEAN /\ ran' \in BOOLEAN
  BY DEF Climb, Interfere, CalmsDown, StateMessage, PoseMessage, Stream,
         StartMotion, JointStates, WaitForJointStates, EnableMessage, NodeInv, TypeOK
<1>8. TypeOK'
  BY <1>1, <1>2, <1>3, <1>4, <1>5, <1>6, <1>7 DEF NodeInv, TypeOK, NodeType
<1>9. LegInv' /\ HoldInv' /\ CornerInv'
  BY <1>1, <1>2 DEF NodeInv, LegInv, HoldInv, CornerInv
<1>. QED
  BY <1>2, <1>8, <1>9 DEF NodeInv

(* A session starts at the first waypoint with no window open.             *)
LEMMA NodeInvInit == Init => NodeInv
<1>. SUFFICES ASSUME Init
              PROVE  NodeInv
  OBVIOUS
<1>1. TypeOK
  <2>1. node \in NodeType
    BY ConstantFacts DEF Init, NodeType
  <2>2. 0 \in 0 .. HOLD /\ CORNER_HOLD \in 0 .. CORNER_HOLD /\ 0 \in 0 .. JOINT_WAIT
    BY ConstantFacts
  <2>. QED
    BY <2>1, <2>2 DEF Init, TypeOK, NodeType, Flight, Positions
<1>2. LegInv /\ HoldInv /\ CornerInv
  BY DEF Init, LegInv, HoldInv, CornerInv
<1>. QED
  BY <1>1, <1>2 DEF NodeInv

(* Every step of the session keeps NodeInv.                                *)
LEMMA NodeInvInductive == NodeInv /\ [Next]_vars => NodeInv'
<1>1. NodeInv /\ UNCHANGED vars => NodeInv'
  <2>1. TypeOK /\ UNCHANGED vars => TypeOK'
    BY DEF vars, TypeOK
  <2>2. LegInv /\ HoldInv /\ CornerInv /\ UNCHANGED vars => LegInv' /\ HoldInv' /\ CornerInv'
    BY DEF vars, LegInv, HoldInv, CornerInv
  <2>. QED
    BY <2>1, <2>2 DEF NodeInv
<1>. QED
  BY <1>1, LoopStep, TickStep, OtherStep DEF Next

(* Only a run of the loop enables the motion or starts a leg.              *)
LEMMA LoopDecides ==
  ASSUME NodeInv, [Next]_vars
  PROVE  Loop \/ (node'.enabled = node.enabled /\ node'.moving = node.moving)
<1>1. Tick \/ UNCHANGED vars => node'.enabled = node.enabled /\ node'.moving = node.moving
  BY DEF Tick, vars, NodeInv, TypeOK
<1>. QED
  BY <1>1, OtherStep DEF Next

(* Every age, index and stage of the session stays within its bounds; in   *)
(* particular the path index never passes the last waypoint.               *)
THEOREM SessionTypeCorrect == Spec => []TypeOK
<1>1. NodeInv => TypeOK
  BY DEF NodeInv
<1>. QED
  BY <1>1, NodeInvInit, NodeInvInductive, PTL DEF Spec

(* Without static validation the arm motion is enabled only after a whole  *)
(* hold time in which every run of the loop saw the vehicle at its target, *)
(* for any hold time.                                                      *)
THEOREM HoldTheorem ==
  ASSUME ~VALIDATION
  PROVE  Spec => EnabledAfterHold
<1>1. NodeInv /\ [Next]_vars =>
        [~node.enabled /\ node'.enabled => known.pos = "target" /\ off >= HOLD]_vars
  BY LoopDecides, LoopFacts
<1>. QED
  BY <1>1, NodeInvInit, NodeInvInductive, PTL DEF Spec, EnabledAfterHold

(* The published target leaves no corner before its hold time, for any     *)
(* hold time, segment time and number of waypoints, with static validation *)
(* or without.                                                             *)
THEOREM CornerTheorem == Spec => CornerHeld
<1>1. NodeInv /\ [Next]_vars =>
        [~node.moving /\ node'.moving => still >= CORNER_HOLD]_vars
  <2>. SUFFICES ASSUME NodeInv, [Next]_vars, ~node.moving, node'.moving
                PROVE  still >= CORNER_HOLD
    OBVIOUS
  <2>1. node.phase >= CORNER_HOLD \/ CORNER_HOLD = 0
    BY LoopDecides, LoopFacts
  <2>2. node.phase <= still \/ still = CORNER_HOLD
    BY DEF NodeInv, CornerInv
  <2>3. node.phase \in 0 .. MaxPhase /\ still \in 0 .. CORNER_HOLD
    BY DEF NodeInv, TypeOK
  <2>. QED
    BY <2>1, <2>2, <2>3, ConstantFacts
<1>. QED
  BY <1>1, NodeInvInit, NodeInvInductive, PTL DEF Spec, CornerHeld
=============================================================================
