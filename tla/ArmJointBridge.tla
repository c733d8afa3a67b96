--------------------------- MODULE ArmJointBridge ---------------------------
(***************************************************************************)
(* The PX4 end of the link: the MAVLink receiver thread, which stamps a    *)
(* named value and publishes it on debug_key_value (a topic that holds one *)
(* message), and the arm_joint_bridge work item, which collects the fields *)
(* and publishes arm_joint_states.                                         *)
(***************************************************************************)
EXTENDS JointLink

VARIABLES
  topic,  \* the message on debug_key_value that the bridge has not yet taken
  field,  \* _q, _dq and _valid_value, with their timestamps
  run,    \* next statement of Run
  joints  \* arm_joint_states as last published, at the time _last_publish

px4Vars == <<topic, field, run, joints>>

Received == [key : Keys, sample : Time, timestamp : Time]

Px4TypeOK ==
  /\ topic \subseteq Received
  /\ field \in [Keys -> [sample : Time, timestamp : Time]]
  /\ run \in {"update", "decide", "publish"}
  /\ joints \in [timestamp : Time, valid : BOOLEAN]

Px4Init ==
  /\ topic = {}
  /\ field = [k \in Keys |-> [sample |-> 0, timestamp |-> 0]]
  /\ run = "update"
  /\ joints = [timestamp |-> 0, valid |-> FALSE]

(* Mutant: the message is stamped with the time at which it will expire.   *)
HandleNamedValue_Expiry ==
  /\ \E m \in net :
       /\ topic' = {[key |-> m.key, sample |-> m.sample, timestamp |-> now + FIELD_TIMEOUT]}
       /\ net' = net \ {m}
  /\ UNCHANGED <<field, run, joints>>

(* handle_message_named_value_float: the value is stamped on arrival and   *)
(* replaces whatever the topic held.                                       *)
HandleNamedValue ==
  /\ \E m \in net :
       /\ topic' = {[key |-> m.key, sample |-> m.sample, timestamp |-> now]}
       /\ net' = net \ {m}
  /\ UNCHANGED <<field, run, joints>>

(* processDebugMessage, for a key of the link.                             *)
ProcessDebugMessage(msg) ==
  field' = [field EXCEPT ![msg.key] = [sample |-> msg.sample, timestamp |-> msg.timestamp]]

(* Run, first step: at most one message per call.                          *)
RunUpdate ==
  /\ run = "update"
  /\ \/ topic = {} /\ UNCHANGED field
     \/ \E msg \in topic : ProcessDebugMessage(msg)
  /\ topic' = {}
  /\ run' = "decide"
  /\ UNCHANGED joints

(* Run, second step: whether a publication is due.                         *)
RunDecide ==
  /\ run = "decide"
  /\ run' = IF joints.timestamp = 0 \/ now - joints.timestamp >= PUBLISH_INTERVAL
              THEN "publish" ELSE "update"
  /\ UNCHANGED <<topic, field, joints>>

(* Mutant: a field is fresh once it has been received.                     *)
FieldFresh_NoTimeout(timestamp) == timestamp # 0

FieldFresh(timestamp) == timestamp # 0 /\ now - timestamp <= FIELD_TIMEOUT

AllFresh ==
  /\ field[AJVAL].sample # 0
  /\ \A k \in Keys : FieldFresh(field[k].timestamp)

(* Run, third step: publishJointStates, which reads the clock again.       *)
RunPublish ==
  /\ run = "publish"
  /\ joints' = [timestamp |-> now, valid |-> AllFresh]
  /\ run' = "update"
  /\ UNCHANGED <<topic, field>>
=============================================================================
