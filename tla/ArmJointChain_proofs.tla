------------------------ MODULE ArmJointChain_proofs ------------------------
(***************************************************************************)
(* Proofs about the arm joint link, for any number of joints and any       *)
(* timeouts, and about the link together with the controllers that read    *)
(* it.                                                                     *)
(***************************************************************************)
EXTENDS ArmModelChain, TLAPS

(* The keys and joints are what arithmetic on N makes of them.             *)
LEMMA KeyFacts ==
  /\ AJVAL \in Nat /\ AJVAL \in Keys /\ 0 \in Keys /\ 0 \in Joints
  /\ \A j \in Joints : j \in Nat /\ (j + 1 < REQUIRED => j + 1 \in Joints)
  /\ \A k \in Keys : (k + 1) % (AJVAL + 1) \in Keys
  /\ \A k \in Keys : k % N \in Joints
PROOF
<1>1. PER_JOINT \in Nat /\ N \in Nat /\ N > 0 /\ REQUIRED \in 1 .. N
  BY LinkAssumption
<1>2. PER_JOINT * N \in Nat
  BY <1>1
<1>3. AJVAL \in Nat
  BY <1>2 DEF AJVAL
<1>4. AJVAL \in Keys /\ 0 \in Keys
  BY <1>3 DEF Keys
<1>5. 0 \in Joints /\ \A j \in Joints : j \in Nat /\ (j + 1 < REQUIRED => j + 1 \in Joints)
  BY <1>1 DEF Joints
<1>6. \A k \in Keys : (k + 1) % (AJVAL + 1) \in Keys
  BY <1>3 DEF Keys
<1>7. \A k \in Keys : k % N \in Joints
  BY <1>1, <1>3 DEF Keys, Joints
<1> QED
  BY <1>3, <1>4, <1>5, <1>6, <1>7

(* The initial state satisfies the inductive invariant.                    *)
LEMMA LinkInvInit == Init => LinkInv
PROOF
<1> SUFFICES ASSUME Init PROVE LinkInv
  OBVIOUS
<1> USE KeyFacts DEF Init, RosInit, Px4Init
<1>1. TypeOK
  BY DEF TypeOK, RosTypeOK, Px4TypeOK, Time
<1>2. SourceInv /\ SpinInv /\ NetInv /\ TopicInv
  BY DEF SourceInv, SpinInv, NetInv, TopicInv, Witnessed
<1>3. FieldStampsInThePast /\ FlagInv /\ ValidHasLiveSource
  BY DEF FieldStampsInThePast, FlagInv, ValidHasLiveSource, Witnessed
<1> QED
  BY <1>1, <1>2, <1>3 DEF LinkInv

(* The callback thread: only what it has finished storing can be reported  *)
(* fresh, and stamps grow from one message to the next.                    *)
LEMMA CallbackStep == LinkInv /\ JointStateCallback => LinkInv'
PROOF
<1> SUFFICES ASSUME LinkInv, JointStateCallback PROVE LinkInv'
  OBVIOUS
<1> USE KeyFacts, LinkAssumption DEF LinkInv, JointStateCallback, px4Vars
<1>1. /\ RosTypeOK' /\ SourceInv'
      /\ latest_stamp <= latest_stamp' /\ UNCHANGED spin
  <2> USE DEF TypeOK, RosTypeOK, Time, SourceInv
  <2>1. ASSUME NEW hasAll \in BOOLEAN, CbBegin(hasAll)
        PROVE  /\ RosTypeOK' /\ SourceInv'
               /\ latest_stamp <= latest_stamp' /\ UNCHANGED spin
    BY <2>1 DEF CbBegin
  <2>2. ASSUME NEW finite \in BOOLEAN, CbJoint(finite)
        PROVE  /\ RosTypeOK' /\ SourceInv'
               /\ latest_stamp <= latest_stamp' /\ UNCHANGED spin
    <3>1. /\ latest_stamp' = latest_stamp /\ UNCHANGED <<message_index, spin, now>>
          /\ cb.pc = "joint"
      BY <2>2 DEF CbJoint
    <3>2. complete' \in BOOLEAN
      BY <2>2 DEF CbJoint
    <3>3. values' \in [Joints -> Nat]
      BY <2>2 DEF CbJoint
    <3>4. cb' \in [pc : {"idle", "joint", "stamp"}, stamp : Nat, joint : Joints]
          /\ cb'.stamp = cb.stamp
      <4>1. \/ cb.joint + 1 \in Joints /\ cb' = [cb EXCEPT !.joint = cb.joint + 1]
            \/ cb' = [cb EXCEPT !.pc = "stamp", !.joint = 0]
            \/ cb' = [cb EXCEPT !.pc = "idle", !.joint = 0]
        <5>1. cb.joint \in Joints /\ (cb.joint + 1 < REQUIRED => cb.joint + 1 \in Joints)
          OBVIOUS
        <5> QED
          BY <2>2, <5>1, Zenon DEF CbJoint
      <4>2. CASE cb.joint + 1 \in Joints /\ cb' = [cb EXCEPT !.joint = cb.joint + 1]
        BY <4>2
      <4>3. CASE cb' = [cb EXCEPT !.pc = "stamp", !.joint = 0]
        BY <4>3
      <4>4. CASE cb' = [cb EXCEPT !.pc = "idle", !.joint = 0]
        BY <4>4
      <4> QED
        BY <4>1, <4>2, <4>3, <4>4
    <3> QED
      BY <3>1, <3>2, <3>3, <3>4
  <2>3. CASE CbStamp
    BY <2>3 DEF CbStamp
  <2> QED
    BY <2>1, <2>2, <2>3
<1>2. TypeOK' /\ latest_stamp \in Nat /\ latest_stamp' \in Nat
  BY <1>1 DEF TypeOK, RosTypeOK, Px4TypeOK, Time
<1>3. SpinInv'
  BY <1>1, <1>2 DEF SpinInv, Witnessed, TypeOK, RosTypeOK, Time
<1>4. NetInv' /\ TopicInv'
  BY <1>1, <1>2 DEF NetInv, TopicInv, Witnessed, TypeOK, RosTypeOK, Px4TypeOK, Time, NamedValue, Received
<1>5. FieldStampsInThePast' /\ FlagInv' /\ ValidHasLiveSource'
  BY <1>1, <1>2 DEF FieldStampsInThePast, FlagInv, ValidHasLiveSource, Witnessed, TypeOK, RosTypeOK,
                 Px4TypeOK, Time, SourceBound
<1> QED
  BY <1>1, <1>2, <1>3, <1>4, <1>5

(* The loop: it samples the freshness of the snapshot at the clock it then *)
(* sends along.                                                            *)
LEMMA SpinStep == LinkInv /\ Spin => LinkInv'
PROOF
<1> SUFFICES ASSUME LinkInv, Spin PROVE LinkInv'
  OBVIOUS
<1> USE KeyFacts, LinkAssumption DEF LinkInv, Spin, px4Vars
<1>1. /\ UNCHANGED <<latest_stamp, cb, now, topic, field, run, joints>>
      /\ complete' = complete /\ values' = values
  BY DEF SpinFresh, SpinSend
<1>2. SourceInv' /\ TopicInv' /\ FieldStampsInThePast' /\ FlagInv' /\ ValidHasLiveSource'
  BY <1>1 DEF SourceInv, TopicInv, FieldStampsInThePast, FlagInv, ValidHasLiveSource, Witnessed
<1>3. CASE SpinFresh /\ UNCHANGED net
  <2>1. TypeOK'
    BY <1>3 DEF TypeOK, RosTypeOK, Px4TypeOK, Time, SpinFresh
  <2>2. SpinInv' /\ NetInv'
    BY <1>3 DEF SpinInv, NetInv, SourceInv, Witnessed, TypeOK, RosTypeOK, Time, SpinFresh,
                JointStateFresh
  <2> QED
    BY <1>2, <2>1, <2>2
<1>4. CASE SpinSend
  <2>1. ValueOf(message_index) \in Time
    BY DEF ValueOf, TypeOK, RosTypeOK
  <2>2. TypeOK'
    <3>1. net' \subseteq NamedValue
      BY <1>4, <2>1 DEF TypeOK, RosTypeOK, SpinSend, NamedValue
    <3>2. spin' \in [pc : {"sleep", "send"}, fresh : Time, time : Time] /\ message_index' \in Keys
      BY <1>4 DEF TypeOK, RosTypeOK, SpinSend, Time
    <3> QED
      BY <1>1, <3>1, <3>2 DEF TypeOK, RosTypeOK, Px4TypeOK
  <2>3. SpinInv'
    BY <1>1, <1>4 DEF SpinInv, Witnessed, TypeOK, RosTypeOK, Time, SpinSend
  <2>4. NetInv'
    BY <1>1, <1>4 DEF NetInv, SpinInv, Witnessed, TypeOK, RosTypeOK, Time, SpinSend, ValueOf
  <2> QED
    BY <1>2, <2>2, <2>3, <2>4
<1> QED
  BY <1>3, <1>4

(* The receiver turns the sending time into an arrival time at most        *)
(* MAX_TRANSIT later.                                                      *)
LEMMA ReceiverStep == LinkInv /\ MavlinkReceiver => LinkInv'
PROOF
<1> SUFFICES ASSUME LinkInv, MavlinkReceiver PROVE LinkInv'
  OBVIOUS
<1> USE KeyFacts, LinkAssumption DEF LinkInv, MavlinkReceiver, HandleNamedValue, rosVars
<1>1. PICK m \in net : /\ topic' = {[key |-> m.key, sample |-> m.sample, timestamp |-> now]}
                      /\ net' = net \ {m}
  OBVIOUS
<1>2. TypeOK'
  BY <1>1 DEF TypeOK, RosTypeOK, Px4TypeOK, NamedValue, Received
<1>3. TopicInv'
  BY <1>1 DEF TopicInv, NetInv, Witnessed, TypeOK, RosTypeOK, NamedValue, Time
<1>4. SourceInv' /\ SpinInv' /\ NetInv'
  BY <1>1 DEF SourceInv, SpinInv, NetInv, Witnessed
<1>5. FieldStampsInThePast' /\ FlagInv' /\ ValidHasLiveSource'
  BY DEF FieldStampsInThePast, FlagInv, ValidHasLiveSource, Witnessed
<1> QED
  BY <1>2, <1>3, <1>4, <1>5

(* The bridge publishes valid only while AJVAL's arrival is recent.        *)
LEMMA BridgeStep == LinkInv /\ BridgeRun => LinkInv'
PROOF
<1> SUFFICES ASSUME LinkInv, BridgeRun PROVE LinkInv'
  OBVIOUS
<1> USE KeyFacts, LinkAssumption DEF LinkInv, BridgeRun, rosVars
<1>1. SourceInv' /\ SpinInv' /\ NetInv'
  BY DEF SourceInv, SpinInv, NetInv, Witnessed
<1>2. TypeOK'
  <2> USE DEF TypeOK, RosTypeOK, Px4TypeOK
  <2>1. CASE RunUpdate
    <3>1. field' \in [Keys -> [sample : Time, timestamp : Time]]
      <4>1. CASE UNCHANGED field
        BY <4>1
      <4>2. ASSUME NEW m \in topic, ProcessDebugMessage(m)
            PROVE  field' \in [Keys -> [sample : Time, timestamp : Time]]
        BY <4>2 DEF ProcessDebugMessage, Received
      <4> QED
        BY <2>1, <4>1, <4>2 DEF RunUpdate
    <3> QED
      BY <2>1, <3>1 DEF RunUpdate
  <2>2. CASE RunDecide
    BY <2>2 DEF RunDecide
  <2>3. CASE RunPublish
    <3>1. AllFresh \in BOOLEAN
      BY DEF AllFresh
    <3> QED
      BY <2>3, <3>1 DEF RunPublish
  <2> QED
    BY <2>1, <2>2, <2>3
<1>3. TopicInv'
  BY DEF TopicInv, Witnessed, RunUpdate, RunDecide, RunPublish
<1>4. FieldStampsInThePast' /\ FlagInv'
  <2>1. CASE UNCHANGED field
    BY <2>1 DEF FieldStampsInThePast, FlagInv, Witnessed
  <2>2. ASSUME NEW m \in topic, ProcessDebugMessage(m) PROVE FieldStampsInThePast' /\ FlagInv'
    BY <2>2 DEF FieldStampsInThePast, FlagInv, Witnessed, TopicInv, ProcessDebugMessage,
                TypeOK, Px4TypeOK, Received
  <2> QED
    BY <2>1, <2>2 DEF RunUpdate, RunDecide, RunPublish
<1>5. ValidHasLiveSource'
  <2>1. CASE UNCHANGED joints
    BY <2>1 DEF ValidHasLiveSource
  <2>2. CASE RunPublish
    BY <2>2 DEF RunPublish, ValidHasLiveSource, AllFresh, FieldFresh, FlagInv, Witnessed,
                SourceBound, TypeOK, RosTypeOK, Px4TypeOK, Time
  <2> QED
    BY <2>1, <2>2 DEF RunUpdate, RunDecide
<1> QED
  BY <1>1, <1>2, <1>3, <1>4, <1>5

(* Losing a named value and the passing of time.                           *)
LEMMA EnvironmentStep == LinkInv /\ (Lose \/ Tick) => LinkInv'
PROOF
<1> SUFFICES ASSUME LinkInv, Lose \/ Tick PROVE LinkInv'
  OBVIOUS
<1> USE LinkAssumption DEF LinkInv, rosVars, px4Vars
<1>1. CASE Lose
  BY <1>1 DEF Lose, TypeOK, RosTypeOK, Px4TypeOK, SourceInv, SpinInv, NetInv, TopicInv,
              FieldStampsInThePast, FlagInv, ValidHasLiveSource, Witnessed
<1>2. CASE Tick
  <2>1. TypeOK' /\ SourceInv' /\ SpinInv'
    BY <1>2 DEF Tick, TypeOK, RosTypeOK, Px4TypeOK, Time, SourceInv, SpinInv, Witnessed
  <2>2. NetInv' /\ TopicInv'
    BY <1>2 DEF Tick, TypeOK, RosTypeOK, Px4TypeOK, Time, NamedValue, Received, NetInv, TopicInv,
                Witnessed
  <2>3. FieldStampsInThePast' /\ FlagInv' /\ ValidHasLiveSource'
    BY <1>2 DEF Tick, TypeOK, Px4TypeOK, Time, FieldStampsInThePast, FlagInv,
                ValidHasLiveSource, Witnessed
  <2> QED
    BY <2>1, <2>2, <2>3
<1> QED
  BY <1>1, <1>2

(* Every step of the link, of either thread or of the network, keeps       *)
(* LinkInv.                                                                *)
LEMMA LinkInvInductive == LinkInv /\ [Next]_vars => LinkInv'
PROOF
<1> SUFFICES ASSUME LinkInv, [Next]_vars PROVE LinkInv'
  OBVIOUS
<1>1. CASE UNCHANGED vars
  BY <1>1 DEF vars, rosVars, px4Vars, LinkInv, TypeOK, RosTypeOK, Px4TypeOK, SourceInv, SpinInv,
              NetInv, TopicInv, FieldStampsInThePast, FlagInv, ValidHasLiveSource, Witnessed
<1> QED
  BY <1>1, CallbackStep, SpinStep, ReceiverStep, BridgeStep, EnvironmentStep DEF Next

(* LinkInv is an invariant of the link.                                    *)
THEOREM LinkInvariant == Spec => []LinkInv
PROOF
  BY LinkInvInductive, LinkInvInit, PTL DEF Spec

(* Type correctness of the link.                                           *)
THEOREM LinkTypeCorrect == Spec => []TypeOK
PROOF
<1>1. LinkInv => TypeOK
  BY DEF LinkInv
<1> QED
  BY <1>1, LinkInvariant, PTL

(* The promise to the controllers, for every number of joints and every    *)
(* choice of the three delays: arm_joint_states is never published valid   *)
(* later than SourceBound after the newest joint state accepted.           *)
THEOREM ValidSourceTheorem == Spec => []ValidHasLiveSource
PROOF
<1>1. LinkInv => ValidHasLiveSource
  BY DEF LinkInv
<1> QED
  BY <1>1, LinkInvariant, PTL

(* fieldFresh never subtracts a later time from an earlier one.            *)
THEOREM FieldStampsTheorem == Spec => []FieldStampsInThePast
PROOF
<1>1. LinkInv => FieldStampsInThePast
  BY DEF LinkInv
<1> QED
  BY <1>1, LinkInvariant, PTL

(* What the controllers see of the callback and of a publication.          *)
LEMMA AcceptStep ==
  ASSUME LinkInv, JointStateCallback
  PROVE  latest_stamp' \in latest_stamp .. now /\ UNCHANGED <<now, joints>>
PROOF
<1>1. latest_stamp \in Nat /\ cb.stamp \in Nat /\ now \in Nat
      /\ latest_stamp <= cb.stamp /\ cb.stamp <= now
  BY DEF LinkInv, TypeOK, RosTypeOK, SourceInv, Time
<1>2. latest_stamp' \in {latest_stamp, cb.stamp}
  BY DEF JointStateCallback, CbBegin, CbJoint, CbStamp
<1> QED
  BY <1>1, <1>2 DEF JointStateCallback, px4Vars

(* publishJointStates says valid only within the bound of the feed.        *)
LEMMA PublishBound ==
  ASSUME LinkInv
  PROVE  AllFresh \in BOOLEAN /\ (AllFresh => now - latest_stamp <= SourceBound)
  BY KeyFacts, LinkAssumption
     DEF LinkInv, AllFresh, FieldFresh, FlagInv, Witnessed, SourceBound,
         TypeOK, RosTypeOK, Px4TypeOK, Time

(* The link implements the abstract feed the controllers are checked       *)
(* against: its steps are a tick, a stamp stored by the callback, a        *)
(* publication within the bound, or invisible to the controllers.          *)
THEOREM LinkImplementsFeed == Spec => FeedImplemented
PROOF
<1> USE DEF Feed!feedVars
<1>1. Init => Feed!FeedInit
  BY DEF Init, RosInit, Px4Init, Feed!FeedInit
<1>2. LinkInv /\ [Next]_vars => [Feed!FeedNext]_(Feed!feedVars)
  <2> SUFFICES ASSUME LinkInv, [Next]_vars
               PROVE  Feed!FeedNext \/ UNCHANGED <<now, latest_stamp, joints>>
    OBVIOUS
  <2>1. CASE JointStateCallback
    BY <2>1, AcceptStep DEF Feed!FeedNext, Feed!Accept
  <2>2. CASE Spin
    BY <2>2 DEF Spin, SpinFresh, SpinSend, px4Vars
  <2>3. CASE MavlinkReceiver
    BY <2>3 DEF MavlinkReceiver, HandleNamedValue, rosVars
  <2>4. CASE BridgeRun
    <3>1. CASE RunPublish
      <4>1. AllFresh \in BOOLEAN /\ (AllFresh => now - latest_stamp <= SourceBound)
        BY PublishBound
      <4>2. Feed!Publish(AllFresh)
        BY <2>4, <3>1, <4>1 DEF RunPublish, BridgeRun, rosVars, Feed!Publish
      <4> QED
        BY <4>1, <4>2 DEF Feed!FeedNext
    <3> QED
      BY <2>4, <3>1 DEF BridgeRun, RunUpdate, RunDecide, rosVars
  <2>5. CASE Lose
    BY <2>5 DEF Lose, rosVars, px4Vars
  <2>6. CASE Tick
    BY <2>6 DEF Tick, rosVars, px4Vars, Feed!FeedNext, Feed!Tick
  <2>7. CASE UNCHANGED vars
    BY <2>7 DEF vars, rosVars, px4Vars
  <2> QED
    BY <2>1, <2>2, <2>3, <2>4, <2>5, <2>6, <2>7 DEF Next
<1> QED
  BY <1>1, <1>2, LinkInvariant, PTL DEF Spec, FeedImplemented, Feed!FeedSpec

-----------------------------------------------------------------------------
(* The system of link and controllers takes the steps of the link, and two *)
(* that only a bridge which is stopped and started takes.                  *)
LEMMA LinkKept == SystemInv /\ [SystemNext]_systemVars => LinkInv'
PROOF
<1> SUFFICES ASSUME SystemInv, [SystemNext]_systemVars PROVE LinkInv'
  OBVIOUS
<1>0. LinkInv /\ HeldInv
  BY DEF SystemInv
<1>1. CASE [Next]_vars
  BY <1>0, <1>1, LinkInvInductive
<1>2. CASE BridgeCollects /\ FirstDecide
  BY <1>0, <1>2
     DEF BridgeCollects, FirstDecide, rosVars, LinkInv, TypeOK, RosTypeOK, Px4TypeOK, SourceInv,
         SpinInv, NetInv, TopicInv, FieldStampsInThePast, FlagInv, ValidHasLiveSource, Witnessed
<1>3. CASE StartBridge
  <2> USE KeyFacts DEF StartBridge, rosVars, LinkInv
  <2>1. SourceInv' /\ SpinInv' /\ NetInv' /\ ValidHasLiveSource'
    BY <1>0, <1>3 DEF SourceInv, SpinInv, NetInv, Witnessed, ValidHasLiveSource
  <2>2. TopicInv'
    BY <1>0, <1>3 DEF TopicInv, HeldInv, Witnessed
  <2>3. FieldStampsInThePast' /\ FlagInv'
    BY <1>0, <1>3 DEF FieldStampsInThePast, FlagInv, Witnessed, TypeOK, Time
  <2>4. TypeOK'
    BY <1>0, <1>3 DEF TypeOK, RosTypeOK, Px4TypeOK, HeldInv, Time
  <2> QED
    BY <2>1, <2>2, <2>3, <2>4
<1>4. SystemNext => [Next]_vars \/ (BridgeCollects /\ FirstDecide) \/ StartBridge
  BY DEF SystemNext, LinkStep, BridgeCollects, BridgePublishes, StopBridge, ControllerRuns,
         SystemTime, Next, BridgeRun
<1>5. CASE UNCHANGED systemVars
  BY <1>1, <1>5 DEF systemVars
<1> QED
  BY <1>1, <1>2, <1>3, <1>4, <1>5

(* What debug_key_value holds is no worse for being read again later.      *)
LEMMA HeldKept == SystemInv /\ [SystemNext]_systemVars => HeldInv'
PROOF
<1> SUFFICES ASSUME SystemInv, [SystemNext]_systemVars PROVE HeldInv'
  OBVIOUS
<1>1. LinkInv' /\ LinkInv /\ HeldInv
  BY LinkKept DEF SystemInv
<1>2. CASE held' = topic'
  BY <1>1, <1>2 DEF LinkInv, TopicInv, HeldInv, TypeOK, Px4TypeOK
<1>3. CASE held' = held /\ latest_stamp <= latest_stamp' /\ now <= now'
  <2>1. now \in Nat /\ now' \in Nat /\ latest_stamp \in Nat /\ latest_stamp' \in Nat
    BY <1>1 DEF LinkInv, TypeOK, RosTypeOK, Time
  <2> SUFFICES ASSUME NEW m \in held
               PROVE  /\ m \in Received /\ m.timestamp <= now'
                      /\ m.key = AJVAL =>
                           Witnessed(m.sample, m.timestamp, JOINT_STATE_TIMEOUT + MAX_TRANSIT)'
    BY <1>3 DEF HeldInv, Received
  <2>2. /\ m \in Received /\ m.timestamp <= now
        /\ m.key = AJVAL => Witnessed(m.sample, m.timestamp, JOINT_STATE_TIMEOUT + MAX_TRANSIT)
    BY <1>1 DEF HeldInv
  <2>3. m.timestamp \in Nat /\ m.sample \in Nat
    BY <2>2 DEF Received, Time
  <2> QED
    BY <1>3, <2>1, <2>2, <2>3 DEF Witnessed
<1>4. now \in Nat /\ latest_stamp \in Nat
  BY <1>1 DEF LinkInv, TypeOK, RosTypeOK, Time
<1>5. CASE LinkStep
  <2>1. CASE JointStateCallback /\ UNCHANGED held
    BY <1>1, <1>3, <1>4, <2>1, AcceptStep
  <2>2. CASE (Spin \/ Lose) /\ UNCHANGED held
    BY <1>3, <1>4, <2>2 DEF Spin, SpinFresh, SpinSend, Lose, rosVars
  <2> QED
    BY <1>2, <1>5, <2>1, <2>2 DEF LinkStep
<1>6. CASE SystemTime
  BY <1>3, <1>4, <1>6 DEF SystemTime, Tick, rosVars
<1>7. CASE UNCHANGED <<now, latest_stamp, held>>
  BY <1>3, <1>4, <1>7
<1>8. BridgeCollects \/ BridgePublishes \/ StopBridge \/ StartBridge \/ ControllerRuns
        \/ UNCHANGED systemVars
      => UNCHANGED <<now, latest_stamp, held>>
  BY DEF BridgeCollects, BridgePublishes, StopBridge, StartBridge, ControllerRuns, systemVars,
         vars, rosVars
<1> QED
  BY <1>5, <1>6, <1>7, <1>8 DEF SystemNext

(* The invariants of the link survive a bridge that is stopped and         *)
(* started: what it reads again carries the stamp of its arrival.          *)
THEOREM SystemInvariant == SystemSpec => []SystemInv
PROOF
<1>1. SystemInit => SystemInv
  BY LinkInvInit DEF SystemInit, SystemInv, HeldInv
<1>2. SystemInv /\ [SystemNext]_systemVars => SystemInv'
  BY LinkKept, HeldKept DEF SystemInv
<1> QED
  BY <1>1, <1>2, PTL DEF SystemSpec

(* Link and controllers together implement the controllers on top of the   *)
(* abstract feed, so what is shown of those holds of the whole.            *)
THEOREM SystemImplementsModel == SystemSpec => Model!Spec
PROOF
<1>1. SystemInit => Model!Init
  BY DEF SystemInit
<1>2. SystemInv /\ [SystemNext]_systemVars => [Model!Next]_(Model!vars)
  <2> SUFFICES ASSUME LinkInv, SystemNext \/ UNCHANGED systemVars
               PROVE  Model!Next \/ UNCHANGED Model!vars
    BY DEF SystemInv
  <2> USE DEF Model!vars, Model!ownVars, Model!feedVars, controllerVars
  <2>1. CASE LinkStep
    <3>1. CASE JointStateCallback
      <4>1. Model!Accept
        BY <3>1, AcceptStep DEF Model!Accept
      <4> QED
        BY <2>1, <4>1 DEF LinkStep, Model!FeedAccept, Model!Next
    <3>2. CASE Spin \/ Lose \/ MavlinkReceiver
      BY <2>1, <3>2 DEF LinkStep, Spin, SpinFresh, SpinSend, Lose, MavlinkReceiver,
                        HandleNamedValue, rosVars, px4Vars
    <3> QED
      BY <2>1, <3>1, <3>2 DEF LinkStep
  <2>2. CASE BridgeCollects
    BY <2>2 DEF BridgeCollects, RunUpdate, RunDecide, FirstDecide, rosVars
  <2>3. CASE BridgePublishes
    <3>1. Model!Publish(AllFresh)
      BY <2>3, PublishBound DEF BridgePublishes, RunPublish, rosVars, Model!Publish
    <3>2. Model!FeedPublish
      BY <2>3, <3>1, PublishBound DEF BridgePublishes, Model!FeedPublish
    <3> QED
      BY <3>2 DEF Model!Next
  <2>4. CASE StopBridge
    BY <2>4 DEF StopBridge, vars, rosVars, px4Vars, Model!StartStopBridge, Model!Next
  <2>5. CASE StartBridge
    BY <2>5 DEF StartBridge, rosVars, Model!StartStopBridge, Model!Next
  <2>6. CASE ControllerRuns
    BY <2>6 DEF ControllerRuns, Model!Next
  <2>7. CASE SystemTime
    <3>1. Model!Tick
      BY <2>7 DEF SystemTime, Tick, rosVars, px4Vars, Model!Tick
    <3> QED
      BY <2>7, <3>1 DEF SystemTime, Model!TimePasses, Model!Next
  <2>8. CASE UNCHANGED systemVars
    BY <2>8 DEF systemVars, vars, rosVars, px4Vars
  <2> QED
    BY <2>1, <2>2, <2>3, <2>4, <2>5, <2>6, <2>7, <2>8 DEF SystemNext
<1> QED
  BY <1>1, <1>2, SystemInvariant, PTL DEF SystemSpec, Model!Spec

(* End to end, from the joint state to the control law: whatever is lost   *)
(* or delayed on the way and however often the bridge is stopped and       *)
(* started, the position controller does not fly with a centre of mass     *)
(* from joints that ROS accepted longer ago than the delays add up to, no  *)
(* controller keeps a model after it has read an invalid message, and the  *)
(* attitude and rate controllers use the last message's model or none.     *)
THEOREM SystemTheorem ==
  ASSUME DYNAMIC_COM_TIMEOUT \in Nat, RUN_BACKUP \in Nat
  PROVE  SystemSpec => [](/\ Model!ComHasLiveSource
                          /\ Model!InvalidFeedDropped
                          /\ Model!ModelIsCurrent)
PROOF
<1>1. Model!ModelAssumption /\ Model!FeedAssumption
  BY LinkAssumption DEF Model!ModelAssumption, Model!FeedAssumption, SourceBound
<1>2. Model!Spec => []Model!ComHasLiveSource
  BY <1>1, Model!ComSourceTheorem DEF Model!ComSourceTheorem
<1>3. Model!Spec => []Model!InvalidFeedDropped
  BY <1>1, Model!InvalidFeedTheorem DEF Model!InvalidFeedTheorem
<1>4. Model!Spec => []Model!ModelIsCurrent
  BY <1>1, Model!ModelCurrentTheorem DEF Model!ModelCurrentTheorem
<1> QED
  BY <1>2, <1>3, <1>4, SystemImplementsModel, PTL
=============================================================================
