--------------------------- MODULE UsbLineProofs ---------------------------
(***************************************************************************)
(* The device core and the handler around it.  First the core on its own   *)
(* (Spec of UdcCore): the application's view of its interface and the      *)
(* endpoints that are really allocated agree, for every set of addresses   *)
(* and any number of endpoints that could not be mapped; and a             *)
(* configuration descriptor leaves the device with the type that was asked *)
(* for.  Then the core inside the handler: the composition implements the  *)
(* core, so what is proved of it holds under suspensions and resets too,   *)
(* and the IN stream and the wake-up interrupt survive them.               *)
(***************************************************************************)
EXTENDS UsbLine, TLAPS

\* EnabledConsistent is not inductive: which endpoints a request frees depends
\* on the setting, and the setting survives a reset of the configuration.
UdcInv ==
    /\ enabled \in BOOLEAN /\ config \in {0, 1} /\ alt \in {0, 1}
    /\ eps \subseteq {"in", "out"} /\ faults \in Nat
    /\ EnabledConsistent /\ EndpointsOwned

LEMMA InitUdcInv == Init => UdcInv
<1> SUFFICES ASSUME Init PROVE UdcInv
  OBVIOUS
<1>1. config \in {0, 1} /\ alt \in {0, 1} /\ faults \in Nat
  BY DEF Init
<1>2. eps = {} /\ enabled = FALSE
  BY DEF Init
<1> QED
  BY <1>1, <1>2 DEF UdcInv, EnabledConsistent, EndpointsOwned

\* What is left after the interface was disabled.
LEMMA DisableLeaves ==
    ASSUME UdcInv
    PROVE  /\ Disabled = FALSE /\ ResetDisabled = FALSE
           /\ Kept \subseteq {"in", "out"} /\ ResetKept \subseteq {"in", "out"}
           /\ faults = 0 => Kept = {} /\ ResetKept = {}
BY DEF UdcInv, EnabledConsistent, EndpointsOwned, Disabled, ResetDisabled,
       Kept, ResetKept, Endpoints

LEMMA IfaceEnableKeepsInv ==
    ASSUME UdcInv, NEW s \in 0 .. 2, NEW e \in SUBSET {"in", "out"}, NEW req,
           faults = 0 => e = {}, IfaceEnable(s, e, FALSE, req),
           config' \in {0, 1}, s = 1 => config' = 1
    PROVE  UdcInv'
<1>1. CASE /\ s \in {0, 1} /\ e \cap Endpoints(s) = {}
           /\ eps' = e \cup Endpoints(s)
           /\ alt' = s /\ enabled' = (s = 1 \/ FALSE)
           /\ Answer(req, TRUE, "nothing")
           /\ UNCHANGED faults
  <2>1. CASE s = 1
    <3>1. eps' = {"in", "out"} /\ enabled' = TRUE /\ alt' = 1 /\ config' = 1
      BY <1>1, <2>1 DEF Endpoints
    <3>2. faults' \in Nat
      BY <1>1 DEF UdcInv
    <3> QED
      BY <3>1, <3>2 DEF UdcInv, EnabledConsistent, EndpointsOwned, Endpoints
  <2>2. CASE s = 0
    <3>0. s # 1 /\ Endpoints(s) = {}
      BY <2>2 DEF Endpoints
    <3>1. eps' = e /\ enabled' = FALSE /\ alt' \in {0, 1}
      BY <1>1, <3>0
    <3>2. faults' \in Nat /\ faults' = faults
      BY <1>1 DEF UdcInv
    <3> QED
      BY <3>1, <3>2 DEF UdcInv, EnabledConsistent, EndpointsOwned
  <2> QED
    BY <1>1, <2>1, <2>2
<1>2. CASE s \notin {0, 1} /\ eps' = e /\ alt' = alt /\ enabled' = FALSE
           /\ UNCHANGED faults
  BY <1>2 DEF UdcInv, EnabledConsistent, EndpointsOwned
<1>3. CASE s = 1 /\ eps' = e /\ UNCHANGED faults /\ alt' = alt /\ enabled' = FALSE
  BY <1>3 DEF UdcInv, EnabledConsistent, EndpointsOwned
<1>4. CASE s = 1 /\ faults' = faults + 1 /\ eps' \in {e, e \cup {"in"}}
           /\ alt' = alt /\ enabled' = FALSE
  <2>1. faults' \in Nat /\ faults' # 0
    BY <1>4 DEF UdcInv
  <2>2. eps' \subseteq {"in", "out"}
    BY <1>4
  <2> QED
    BY <1>4, <2>1, <2>2 DEF UdcInv, EnabledConsistent, EndpointsOwned
<1> QED
  BY <1>1, <1>2, <1>3, <1>4 DEF IfaceEnable

\* A step that leaves these variables alone keeps the invariant.
LEMMA UntouchedKeepsInv ==
    ASSUME UdcInv, UNCHANGED <<config, alt, eps, enabled, faults>> PROVE UdcInv'
BY DEF UdcInv, EnabledConsistent, EndpointsOwned

LEMMA NextKeepsUdcInv == ASSUME UdcInv, [Next]_vars PROVE UdcInv'
<1>0. /\ Disabled = FALSE /\ ResetDisabled = FALSE
      /\ Kept \in SUBSET {"in", "out"} /\ ResetKept \in SUBSET {"in", "out"}
      /\ faults = 0 => Kept = {}
      /\ faults = 0 => ResetKept = {}
  BY DisableLeaves
<1>1. ASSUME NEW c \in 0 .. 2, SetConfiguration(c) PROVE UdcInv'
  <2>1. CASE Refuse
    BY <2>1, UntouchedKeepsInv DEF Refuse, state
  <2>2. CASE /\ config' = c /\ ValidConfiguration(c) /\ c = 0
             /\ eps' = ResetKept /\ enabled' = ResetDisabled
             /\ UNCHANGED <<alt, faults>>
    BY <1>0, <2>2 DEF UdcInv, EnabledConsistent, EndpointsOwned
  <2>3. CASE /\ config' = c /\ ValidConfiguration(c) /\ c # 0
             /\ IfaceEnable(0, ResetKept, ResetDisabled, "set configuration")
    <3>1. config' = 1
      <4>1. c \in 0 .. 2 /\ c <= 1 /\ c # 0
        BY <2>3 DEF ValidConfiguration
      <4>2. c = 1
        BY <4>1
      <4> QED
        BY <2>3, <4>2
    <3>2. IfaceEnable(0, ResetKept, FALSE, "set configuration")
      BY <1>0, <2>3
    <3>3. PICK z \in 0 .. 2 : z = 0
      OBVIOUS
    <3>4. IfaceEnable(z, ResetKept, FALSE, "set configuration")
      BY <3>2, <3>3
    <3> HIDE DEF IfaceEnable, ResetKept
    <3> QED
      BY <1>0, <3>1, <3>3, <3>4, IfaceEnableKeepsInv
  <2> QED
    BY <1>1, <2>1, <2>2, <2>3 DEF SetConfiguration
<1>2. ASSUME NEW i \in 0 .. 1, NEW s \in 0 .. 2, SetInterface(i, s) PROVE UdcInv'
  <2>1. CASE Refuse
    BY <2>1, UntouchedKeepsInv DEF Refuse, state
  <2>2. CASE /\ config # 0 /\ IfaceEnable(s, Kept, Disabled, "set interface")
             /\ config' = config
    <3>1. config' = 1
      BY <2>2 DEF UdcInv
    <3>2. IfaceEnable(s, Kept, FALSE, "set interface")
      BY <1>0, <2>2
    <3> QED
      BY <1>0, <3>1, <3>2, IfaceEnableKeepsInv
  <2> QED
    BY <1>2, <2>1, <2>2 DEF SetInterface
<1>3. ASSUME NEW valid \in BOOLEAN, SetTestMode(valid) PROVE UdcInv'
  <2>1. CASE Refuse
    BY <2>1, UntouchedKeepsInv DEF Refuse, state
  <2>2. CASE /\ config' = 0 /\ eps' = ResetKept /\ enabled' = ResetDisabled
             /\ UNCHANGED <<alt, faults>>
    BY <1>0, <2>2 DEF UdcInv, EnabledConsistent, EndpointsOwned
  <2> QED
    BY <1>3, <2>1, <2>2 DEF SetTestMode
<1>4. ASSUME NEW kind, NEW n, GetDescriptor(kind, n) PROVE UdcInv'
  BY <1>4, UntouchedKeepsInv DEF GetDescriptor, ServeConfiguration, Refuse, state
<1>5. CASE \/ \E a \in Addresses : SetAddress(a)
           \/ \E i \in 0 .. 1 : GetInterface(i)
           \/ GetConfiguration \/ EmptyInRequest \/ EndOfRequest
           \/ \E p \in {"in", "out", "none"} : SetHalt(p) \/ ClearHalt(p)
           \/ \E p \in {"in", "out"} : GetHalt(p)
  BY <1>5, UntouchedKeepsInv
     DEF SetAddress, GetInterface, GetConfiguration, EmptyInRequest, EndOfRequest,
         SetHalt, ClearHalt, GetHalt, Refuse, state
<1>6. CASE BusReset
  BY <1>0, <1>6 DEF BusReset, UdcInv, EnabledConsistent, EndpointsOwned
<1>7. CASE UNCHANGED vars
  BY <1>7, UntouchedKeepsInv DEF vars
<1> QED
  BY <1>1, <1>2, <1>3, <1>4, <1>5, <1>6, <1>7 DEF Next, Requests

\* main_b_vendor_enable is true only while the device is configured, setting 1
\* is selected and both endpoints are allocated.
THEOREM EnabledIsConsistent == Spec => []EnabledConsistent
<1>1. UdcInv /\ [Next]_vars => UdcInv'
  BY NextKeepsUdcInv
<1>2. UdcInv => EnabledConsistent
  BY DEF UdcInv
<1> QED
  BY InitUdcInv, <1>1, <1>2, PTL DEF Spec

\* As long as every endpoint could be mapped, none outlives its setting.
THEOREM EndpointsAreOwned == Spec => []EndpointsOwned
<1>1. UdcInv /\ [Next]_vars => UdcInv'
  BY NextKeepsUdcInv
<1>2. UdcInv => EndpointsOwned
  BY DEF UdcInv
<1> QED
  BY InitUdcInv, <1>1, <1>2, PTL DEF Spec

-----------------------------------------------------------------------------
(* The descriptors.                                                        *)

\* DescriptorAsRequested needs the speeds to index the descriptors.
DescInv ==
    /\ high \in BOOLEAN
    /\ descType \in [{"fs", "hs"} -> {"config", "other"}]
    /\ DescriptorAsRequested

LEMMA InitDescInv == Init => DescInv
BY DEF Init, DescInv, DescriptorAsRequested

\* A step that neither answers a request for a descriptor nor touches one.
LEMMA OtherKeepsDesc ==
    ASSUME DescInv, UNCHANGED <<high, descType>>,
           UNCHANGED answer \/ answer'.req \notin {"config", "other"} \/ ~answer'.ok
    PROVE  DescInv'
BY DEF DescInv, DescriptorAsRequested, Speed

\* The ways to answer.
LEMMA AnswerIs ==
    ASSUME NEW req, NEW ok, NEW sends, Answer(req, ok, sends)
    PROVE  answer'.req = req /\ answer'.ok = ok
BY DEF Answer

LEMMA RefuseIs ==
    ASSUME Refuse
    PROVE  UNCHANGED <<state, callback>> /\ answer'.req = "refused" /\ answer'.ok = FALSE
BY AnswerIs DEF Refuse

LEMMA IfaceEnableIs ==
    ASSUME NEW s, NEW e, NEW d, NEW req, IfaceEnable(s, e, d, req)
    PROVE  answer'.req = req
BY AnswerIs DEF IfaceEnable

LEMMA NextKeepsDescInv == ASSUME DescInv, [Next]_vars PROVE DescInv'
<1>1. ASSUME NEW c \in 0 .. 2, SetConfiguration(c) PROVE DescInv'
  <2>1. /\ UNCHANGED <<high, descType>>
        /\ answer'.req \in {"set configuration", "refused"}
    BY <1>1, AnswerIs, RefuseIs, IfaceEnableIs DEF SetConfiguration, state
  <2> QED
    BY <2>1, OtherKeepsDesc
<1>2. ASSUME NEW i \in 0 .. 1, NEW s \in 0 .. 2, SetInterface(i, s) PROVE DescInv'
  <2>1. /\ UNCHANGED <<high, descType>>
        /\ answer'.req \in {"set interface", "refused"}
    BY <1>2, RefuseIs, IfaceEnableIs DEF SetInterface, state
  <2> QED
    BY <2>1, OtherKeepsDesc
<1>3. ASSUME NEW valid \in BOOLEAN, SetTestMode(valid) PROVE DescInv'
  <2>1. UNCHANGED <<high, descType>> /\ answer'.req \in {"test mode", "refused"}
    BY <1>3, AnswerIs, RefuseIs DEF SetTestMode, state
  <2> QED
    BY <2>1, OtherKeepsDesc
<1>4. ASSUME NEW kind, NEW n, GetDescriptor(kind, n) PROVE DescInv'
  <2>1. CASE kind = "config" /\ ServeConfiguration("config", Speed(high), n) /\ n = 0
    <3>1. /\ descType' = [descType EXCEPT ![Speed(high)] = "config"] /\ high' = high
          /\ answer' = [req |-> "config", ok |-> TRUE, ack |-> TRUE, sends |-> Speed(high)]
      BY <2>1 DEF ServeConfiguration, Answer
    <3>2. Speed(high) \in {"fs", "hs"} /\ Speed(high)' = Speed(high)
      BY <3>1 DEF Speed
    <3> QED
      BY <3>1, <3>2 DEF DescInv, DescriptorAsRequested
  <2>2. CASE kind = "other" /\ ServeConfiguration("other", Speed(~high), n) /\ n = 0
    <3>1. /\ descType' = [descType EXCEPT ![Speed(~high)] = "other"] /\ high' = high
          /\ answer' = [req |-> "other", ok |-> TRUE, ack |-> TRUE, sends |-> Speed(~high)]
      BY <2>2 DEF ServeConfiguration, Answer
    <3>2. Speed(~high) \in {"fs", "hs"} /\ Speed(~high)' = Speed(~high)
      BY <3>1 DEF Speed
    <3> QED
      BY <3>1, <3>2 DEF DescInv, DescriptorAsRequested
  <2>3. CASE kind = "fixed" /\ Answer(kind, TRUE, kind) /\ UNCHANGED state
    <3>1. UNCHANGED <<high, descType>> /\ answer'.req \notin {"config", "other"}
      BY <2>3 DEF Answer, state
    <3> QED
      BY <3>1, OtherKeepsDesc
  <2>4. CASE Refuse
    <3>1. UNCHANGED <<high, descType>> /\ ~answer'.ok
      BY <2>4 DEF Refuse, Answer, state
    <3> QED
      BY <3>1, OtherKeepsDesc
  <2> QED
    BY <1>4, <2>1, <2>2, <2>3, <2>4 DEF GetDescriptor, ServeConfiguration
<1>5. CASE \/ \E a \in Addresses : SetAddress(a)
           \/ \E i \in 0 .. 1 : GetInterface(i)
           \/ GetConfiguration \/ EmptyInRequest \/ EndOfRequest
           \/ \E p \in {"in", "out", "none"} : SetHalt(p) \/ ClearHalt(p)
           \/ \E p \in {"in", "out"} : GetHalt(p)
  <2>1. ASSUME NEW a \in Addresses, SetAddress(a)
        PROVE  UNCHANGED <<high, descType>> /\ answer'.req = "set address"
    BY <2>1, AnswerIs DEF SetAddress, state
  <2>2. ASSUME NEW i \in 0 .. 1, GetInterface(i)
        PROVE  UNCHANGED <<high, descType>> /\ answer'.req \in {"get interface", "refused"}
    BY <2>2, AnswerIs, RefuseIs DEF GetInterface, state
  <2>3. GetConfiguration => UNCHANGED <<high, descType>> /\ answer'.req = "get configuration"
    BY AnswerIs DEF GetConfiguration, state
  <2>4. EmptyInRequest => UNCHANGED <<high, descType>> /\ answer'.req = "empty"
    BY DEF EmptyInRequest, state
  <2>5. EndOfRequest => UNCHANGED <<high, descType, answer>>
    BY DEF EndOfRequest
  <2>6. ASSUME NEW p, SetHalt(p) \/ ClearHalt(p) \/ GetHalt(p)
        PROVE  UNCHANGED <<high, descType>> /\ answer'.req \in {"halt in", "halt", "refused"}
    BY <2>6, AnswerIs, RefuseIs DEF SetHalt, ClearHalt, GetHalt, state
  <2> QED
    BY <1>5, <2>1, <2>2, <2>3, <2>4, <2>5, <2>6, OtherKeepsDesc
<1>6. CASE BusReset
  <2>1. answer'.req = "none"
    BY <1>6 DEF BusReset
  <2> QED
    BY <1>6, <2>1 DEF BusReset, DescInv, DescriptorAsRequested
<1>7. CASE UNCHANGED vars
  BY <1>7, OtherKeepsDesc DEF vars
<1> QED
  BY <1>1, <1>2, <1>3, <1>4, <1>5, <1>6, <1>7 DEF Next, Requests

\* The configuration descriptor that is sent is that of the speed asked for and
\* bears the type asked for, though GET_DESCRIPTOR(CONFIGURATION) and
\* (OTHER_SPEED_CONFIGURATION) write their type into the same two structures.
THEOREM DescriptorIsAsRequested == Spec => []DescriptorAsRequested
<1>1. DescInv /\ [Next]_vars => DescInv'
  BY NextKeepsDescInv
<1>2. DescInv => DescriptorAsRequested
  BY DEF DescInv
<1> QED
  BY InitDescInv, <1>1, <1>2, PTL DEF Spec

(***************************************************************************)
(* The core inside the handler.                                            *)
(***************************************************************************)
\* The callback of an older request must not be taken for a change of the
\* setting: it belongs to SET_ADDRESS, or the interface is disabled.
CallbackOld == callback # NoCallback => answer.req = "set address" \/ ~enabled

\* InFlows is not inductive: a transfer that was lost with the clock off is
\* started again by udd_ep_alloc, and must not outlive the record that it was lost.
FlowInv ==
    /\ UdcInv
    /\ job \in {"none", "busy", "lost"}
    /\ sending_in \in BOOLEAN /\ dead \in BOOLEAN
    /\ CallbackOld
    /\ job = "lost" => dead
    /\ InFlows

\* What the handler keeps of the clock and the wake-up interrupt.
ArmInv ==
    /\ clock \in BOOLEAN /\ wakeupInt \in BOOLEAN
    /\ isr # "none" => clock
    /\ isr = "suspend_ack" => wakeupInt
    /\ WakeUpArmed

LEMMA InitFlow == LineInit => FlowInv
BY InitUdcInv DEF LineInit, FlowInv, InFlows, Init, CallbackOld

\* What a request that leaves the interface enabled has done: it enabled the
\* interface, or it left the setting alone.
EnabledBy ==
    /\ enabled' =>
          \/ answer'.req = "set interface" /\ answer'.ok
          \/ /\ enabled /\ UNCHANGED <<eps, config, alt>>
             /\ \/ answer'.req \notin {"set configuration", "set interface", "test mode"}
                \/ ~answer'.ok /\ state' = state
    /\ enabled' /\ answer'.req = "set interface" /\ answer'.ok =>
          config # 0 /\ ((alt = 0 /\ "in" \in eps' \ eps) \/ alt = 1)
    /\ CallbackOld'

LEMMA RefuseBy ==
    ASSUME UdcInv, callback = NoCallback, Refuse
    PROVE  EnabledBy
  <1>1. state' = state /\ callback' = callback /\ answer'.ok = FALSE
    BY RefuseIs
  <1>2. UNCHANGED <<eps, config, alt, enabled>>
    BY <1>1 DEF state
  <1> QED
    BY <1>1, <1>2 DEF EnabledBy, CallbackOld

\* A request that is answered without a change of the setting.
LEMMA UntouchedBy ==
    ASSUME UdcInv, UNCHANGED <<eps, config, alt, enabled>>,
           answer'.req \notin {"set configuration", "set interface", "test mode"},
           callback' = NoCallback \/ answer'.req = "set address"
    PROVE  EnabledBy
BY DEF EnabledBy, CallbackOld

\* Only setting 1 enables the interface.
LEMMA OnlySettingOne ==
    ASSUME NEW s, NEW e, NEW d, NEW req, d = FALSE, s # 1, IfaceEnable(s, e, d, req)
    PROVE  enabled' = FALSE
BY DEF IfaceEnable

LEMMA RequestBy ==
    ASSUME UdcInv, CallbackOld, Requests
    PROVE  EnabledBy
<1>0. /\ Disabled = FALSE /\ ResetDisabled = FALSE
  BY DisableLeaves
<1>1. ASSUME NEW c \in 0 .. 2, SetConfiguration(c) PROVE EnabledBy
  <2>1. CASE Refuse
    BY <1>1, <2>1, RefuseBy DEF SetConfiguration, Idle
  <2>2. CASE /\ enabled' = ResetDisabled /\ callback' = callback
    BY <1>0, <1>1, <2>2 DEF SetConfiguration, Idle, EnabledBy, CallbackOld
  <2>3. CASE /\ IfaceEnable(0, ResetKept, ResetDisabled, "set configuration")
             /\ callback' = callback
    <3>1. enabled' = FALSE
      <4>1. PICK z \in 0 .. 2 : z = 0 /\ z # 1
        OBVIOUS
      <4>2. IfaceEnable(z, ResetKept, ResetDisabled, "set configuration")
        BY <2>3, <4>1
      <4> QED
        BY <1>0, <4>1, <4>2, OnlySettingOne
    <3> QED
      BY <1>1, <2>3, <3>1 DEF SetConfiguration, Idle, EnabledBy, CallbackOld
  <2> QED
    BY <1>1, <2>1, <2>2, <2>3 DEF SetConfiguration
<1>2. ASSUME NEW i \in 0 .. 1, NEW s \in 0 .. 2, SetInterface(i, s) PROVE EnabledBy
  <2>1. CASE Refuse
    BY <1>2, <2>1, RefuseBy DEF SetInterface, Idle
  <2>2. CASE /\ config # 0 /\ IfaceEnable(s, Kept, Disabled, "set interface")
             /\ callback' = callback
    <3>1. callback' = NoCallback
      BY <1>2, <2>2 DEF SetInterface, Idle
    <3>2. CASE /\ s \in {0, 1} /\ Kept \cap Endpoints(s) = {}
               /\ eps' = Kept \cup Endpoints(s) /\ enabled' = (s = 1 \/ Disabled)
               /\ Answer("set interface", TRUE, "nothing")
      <4>1. answer'.req = "set interface" /\ answer'.ok = TRUE
        BY <3>2, AnswerIs
      <4>2. enabled' => s = 1
        BY <1>0, <2>2, OnlySettingOne
      <4>3. s = 1 /\ alt = 0 => "in" \in eps' \ eps
        <5> SUFFICES ASSUME s = 1, alt = 0 PROVE "in" \in eps' \ eps
          OBVIOUS
        <5>1. Endpoints(s) = {"in", "out"} /\ Endpoints(alt) = {}
          BY DEF Endpoints
        <5>2. Kept = eps
          BY <5>1 DEF Kept
        <5> QED
          BY <3>2, <5>1, <5>2
      <4>4. alt \in {0, 1}
        BY DEF UdcInv
      <4> QED
        BY <2>2, <3>1, <4>1, <4>2, <4>3, <4>4 DEF EnabledBy, CallbackOld
    <3>3. CASE enabled' = Disabled
      BY <1>0, <3>1, <3>3 DEF EnabledBy, CallbackOld
    <3> QED
      BY <2>2, <3>2, <3>3 DEF IfaceEnable
  <2> QED
    BY <1>2, <2>1, <2>2 DEF SetInterface
<1>3. ASSUME NEW valid \in BOOLEAN, SetTestMode(valid) PROVE EnabledBy
  <2>1. CASE Refuse
    BY <1>3, <2>1, RefuseBy DEF SetTestMode, Idle
  <2>2. CASE enabled' = ResetDisabled
    BY <1>0, <2>2 DEF EnabledBy, CallbackOld
  <2> QED
    BY <1>3, <2>1, <2>2 DEF SetTestMode
<1>4. ASSUME NEW kind, NEW n, GetDescriptor(kind, n) PROVE EnabledBy
  <2>0. callback = NoCallback
    BY <1>4 DEF GetDescriptor, Idle
  <2>1. CASE Refuse
    BY <2>0, <2>1, RefuseBy
  <2>2. ASSUME NEW req \in {"config", "other"}, NEW d, n = 0, ServeConfiguration(req, d, n)
        PROVE  EnabledBy
    <3>1. UNCHANGED <<eps, config, alt, enabled, callback>> /\ answer'.req = req
      BY <2>2, AnswerIs DEF ServeConfiguration
    <3> QED
      BY <2>0, <2>2, <3>1, UntouchedBy
  <2>3. CASE kind = "fixed" /\ Answer(kind, TRUE, kind)
             /\ UNCHANGED <<state, callback>>
    <3>1. UNCHANGED <<eps, config, alt, enabled, callback>> /\ answer'.req = kind
      BY <2>3, AnswerIs DEF state
    <3> QED
      BY <2>0, <2>3, <3>1, UntouchedBy
  <2> QED
    BY <1>4, <2>1, <2>2, <2>3 DEF GetDescriptor, ServeConfiguration
<1>5. ASSUME NEW a \in Addresses, SetAddress(a) PROVE EnabledBy
  <2>1. UNCHANGED <<eps, config, alt, enabled>> /\ answer'.req = "set address"
    BY <1>5, AnswerIs DEF SetAddress, state
  <2> QED
    BY <2>1, UntouchedBy
<1>6. ASSUME NEW i \in 0 .. 1, GetInterface(i) PROVE EnabledBy
  <2>1. CASE Refuse
    BY <1>6, <2>1, RefuseBy DEF GetInterface, Idle
  <2>2. CASE Answer("get interface", TRUE, alt) /\ UNCHANGED <<state, callback>>
    <3>1. /\ UNCHANGED <<eps, config, alt, enabled>> /\ answer'.req = "get interface"
          /\ callback' = NoCallback
      BY <1>6, <2>2, AnswerIs DEF state, GetInterface, Idle
    <3> QED
      BY <3>1, UntouchedBy
  <2> QED
    BY <1>6, <2>1, <2>2 DEF GetInterface
<1>7. CASE GetConfiguration
  <2>1. /\ UNCHANGED <<eps, config, alt, enabled>> /\ answer'.req = "get configuration"
        /\ callback' = NoCallback
    BY <1>7, AnswerIs DEF GetConfiguration, state, Idle
  <2> QED
    BY <2>1, UntouchedBy
<1>8. CASE EmptyInRequest
  <2>1. /\ UNCHANGED <<eps, config, alt, enabled>> /\ answer'.req = "empty"
        /\ callback' = NoCallback
    BY <1>8 DEF EmptyInRequest, state, Idle
  <2> QED
    BY <2>1, UntouchedBy
<1>9. CASE EndOfRequest
  <2>1. /\ UNCHANGED <<eps, config, alt, enabled, answer>> /\ callback' = NoCallback
        /\ callback # NoCallback
    BY <1>9 DEF EndOfRequest, Idle
  <2>2. CASE ~enabled
    BY <2>1, <2>2 DEF EnabledBy, CallbackOld
  <2>3. CASE answer.req = "set address"
    BY <2>1, <2>3, UntouchedBy
  <2> QED
    BY <2>1, <2>2, <2>3 DEF CallbackOld
<1>10. ASSUME NEW p, SetHalt(p) \/ ClearHalt(p) \/ GetHalt(p) PROVE EnabledBy
  <2>1. callback = NoCallback
    BY <1>10 DEF SetHalt, ClearHalt, GetHalt, Idle
  <2>2. CASE Refuse
    BY <2>1, <2>2, RefuseBy
  <2>3. CASE ~Refuse
    <3>1. /\ UNCHANGED <<eps, config, alt, enabled, callback>>
          /\ answer'.req \in {"halt in", "halt"}
      BY <1>10, <2>3, AnswerIs DEF SetHalt, ClearHalt, GetHalt, state
    <3> QED
      BY <2>1, <3>1, UntouchedBy
  <2> QED
    BY <2>2, <2>3
<1> QED
  BY <1>1, <1>2, <1>3, <1>4, <1>5, <1>6, <1>7, <1>8, <1>9, <1>10 DEF Requests

\* The core in the composition takes its own steps or none.
LEMMA LineStep == ASSUME [LineNext]_lineVars PROVE [Next]_vars
BY DEF LineNext, lineVars, Handler, EnterDone, EnterReset, EnterLine, AckOldWakeUp,
       SuspendInts, SuspendEnds, WakeUp, Request, StartSession, FillPacket, SendPacket,
       Host, HostSuspends,
       HostResumes, HostResets, HostTakesPacket, core, Next

LEMMA UntouchedFlow ==
    ASSUME FlowInv, UNCHANGED core, UNCHANGED <<job, sending_in, dead>>
    PROVE  FlowInv'
  <1>1. UNCHANGED <<config, alt, eps, enabled, faults, callback, answer>>
    BY DEF core, vars
  <1>2. UdcInv'
    BY <1>1, UntouchedKeepsInv DEF FlowInv
  <1> QED
    BY <1>1, <1>2 DEF FlowInv, InFlows, CallbackOld

LEMMA NextFlow == ASSUME FlowInv, [LineNext]_lineVars PROVE FlowInv'
  <1>1. UdcInv'
    BY LineStep, NextKeepsUdcInv DEF FlowInv
  <1>2. UdcInv /\ CallbackOld /\ InFlows
    BY DEF FlowInv
  <1>3. CASE EnterDone
    <2>1. UNCHANGED <<enabled, callback, answer>>
      BY <1>3 DEF EnterDone, core, vars
    <2> QED
      BY <1>1, <1>3, <2>1 DEF EnterDone, FlowInv, InFlows, CallbackOld
  <1>4. CASE EnterReset
    <2>1. enabled' = FALSE /\ callback' = NoCallback
      BY <1>2, <1>4, DisableLeaves DEF EnterReset, BusReset
    <2> QED
      BY <1>1, <1>4, <2>1 DEF EnterReset, FlowInv, InFlows, CallbackOld
  <1>5. CASE Request
    <2>1. EnabledBy
      BY <1>2, <1>5, RequestBy DEF Request
    <2>2. /\ job' = JobServed
          /\ IF Enables THEN sending_in' = FALSE /\ dead' = FALSE
                        ELSE /\ dead' = (dead \/ (HaltsIn /\ job = "busy"))
                             /\ UNCHANGED sending_in
      BY <1>5 DEF Request, VendorEnable
    <2>3. job' \in {"none", "busy", "lost"}
      BY <2>2 DEF JobServed, FlowInv
    <2>4. sending_in' \in BOOLEAN /\ dead' \in BOOLEAN
      BY <2>2 DEF FlowInv
    <2>5. job' = "lost" => dead'
      <3>1. CASE Enables
        <4>1. config # 0 /\ ((alt = 0 /\ "in" \in eps' \ eps) \/ alt = 1)
          BY <2>1, <3>1 DEF EnabledBy, Enables
        <4>2. alt = 1 => Disables
          BY <3>1, <4>1 DEF Disables, Enables
        <4> QED
          BY <2>2, <4>1, <4>2 DEF JobServed
      <3>2. CASE ~Enables
        BY <2>2, <3>2 DEF JobServed, FlowInv
      <3> QED
        BY <3>1, <3>2
    <2>6. InFlows'
      <3> SUFFICES ASSUME enabled', sending_in' PROVE job' = "busy" \/ dead'
        BY DEF InFlows
      <3>1. /\ ~Enables /\ UNCHANGED sending_in
            /\ dead' = (dead \/ (HaltsIn /\ job = "busy"))
        BY <2>2
      <3>2. enabled /\ ~Disables
        BY <2>1, <3>1 DEF EnabledBy, Enables, Disables
      <3>3. job = "busy" \/ dead
        BY <1>2, <3>1, <3>2 DEF InFlows
      <3> QED
        BY <2>2, <3>1, <3>2, <3>3 DEF JobServed
    <2>7. CallbackOld'
      BY <2>1 DEF EnabledBy
    <2> QED
      BY <1>1, <2>3, <2>4, <2>5, <2>6, <2>7 DEF FlowInv
  <1>6. CASE SendPacket
    <2>1. UNCHANGED <<enabled, callback, answer>>
      BY <1>6 DEF SendPacket, core, vars
    <2>2. enabled => "in" \in eps
      BY <1>2 DEF UdcInv, EnabledConsistent, Endpoints
    <2>3. job' \in {"none", "busy", "lost"} /\ sending_in' \in BOOLEAN /\ dead' \in BOOLEAN
      BY <1>6 DEF SendPacket, FlowInv
    <2>4. job' = "lost" => dead'
      BY <1>6 DEF SendPacket, FlowInv
    <2>5. InFlows'
      BY <1>6, <2>1, <2>2 DEF SendPacket, FlowInv, InFlows
    <2>6. CallbackOld'
      BY <1>2, <2>1 DEF CallbackOld
    <2> QED
      BY <1>1, <2>3, <2>4, <2>5, <2>6 DEF FlowInv
  <1>7. CASE StartSession
    <2>1. UNCHANGED <<enabled, callback, answer>>
      BY <1>7 DEF StartSession, core, vars
    <2> QED
      BY <1>1, <1>7, <2>1 DEF StartSession, FlowInv, InFlows, CallbackOld
  <1>8. CASE \/ EnterLine \/ AckOldWakeUp \/ SuspendInts \/ SuspendEnds \/ WakeUp
             \/ FillPacket \/ Host \/ UNCHANGED lineVars
    <2>1. UNCHANGED core /\ UNCHANGED <<job, sending_in, dead>>
      BY <1>8 DEF EnterLine, AckOldWakeUp, SuspendInts, SuspendEnds, WakeUp, FillPacket, Host,
             HostSuspends, HostResumes, HostResets, HostTakesPacket, lineVars, app
    <2> QED
      BY <2>1, UntouchedFlow
  <1> QED
    BY <1>3, <1>4, <1>5, <1>6, <1>7, <1>8 DEF LineNext, Handler

-----------------------------------------------------------------------------
\* Through the handler's line events the device core behaves as it does alone,
\* whatever is proved of udc.c.
THEOREM LineImplementsCore == LineSpec => Spec
  <1>1. LineInit => Init
    BY DEF LineInit
  <1>2. [LineNext]_lineVars => [Next]_vars
    BY LineStep
  <1> QED
    BY <1>1, <1>2, PTL DEF LineSpec, Spec

\* While main_b_vendor_enable is set, a set sending_in has a transfer behind it
\* that will clear it, but for one that the main loop started with the clock off or
\* on a halted endpoint, or that SET_FEATURE(ENDPOINT_HALT) aborted, since
\* main_vendor_enable or request 0xC5 last cleared sending_in.
THEOREM InStreamFlows == LineSpec => []InFlows
  <1>1. FlowInv /\ [LineNext]_lineVars => FlowInv'
    BY NextFlow
  <1>2. FlowInv => InFlows
    BY DEF FlowInv
  <1> QED
    BY InitFlow, <1>1, <1>2, PTL DEF LineSpec

\* Outside the handler a peripheral without its clock always has its wake-up
\* interrupt enabled: the one event it can still report.
THEOREM WakeUpIsArmed == LineSpec => []WakeUpArmed
  <1>1. LineInit => ArmInv
    BY DEF LineInit, ArmInv, WakeUpArmed
  <1>2. ASSUME ArmInv, [LineNext]_lineVars PROVE ArmInv'
    <2> USE <1>2 DEF ArmInv, WakeUpArmed
    <2>1. CASE EnterDone \/ EnterReset \/ EnterLine
      BY <2>1 DEF EnterDone, EnterReset, EnterLine
    <2>2. CASE AckOldWakeUp \/ SuspendInts \/ SuspendEnds \/ WakeUp
      BY <2>2 DEF AckOldWakeUp, SuspendInts, SuspendEnds, WakeUp
    <2>3. CASE Request \/ StartSession \/ FillPacket \/ SendPacket \/ Host \/ UNCHANGED lineVars
      <3>1. UNCHANGED <<clock, wakeupInt, isr>>
        BY <2>3 DEF Request, StartSession, FillPacket, SendPacket, Host, HostSuspends, HostResumes,
               HostResets, HostTakesPacket, lineVars
      <3> QED
        BY <3>1
    <2> QED
      BY <2>1, <2>2, <2>3 DEF LineNext, Handler
  <1>3. ArmInv => WakeUpArmed
    BY DEF ArmInv
  <1> QED
    BY <1>1, <1>2, <1>3, PTL DEF LineSpec

\* How the flags and the steps of the handler stand to the bus.
EventInv ==
    /\ host \in {"active", "suspended"}
    /\ isr \in {"none", "suspend", "suspend_ints", "suspend_ack", "wake"}
    /\ isr # "none" => clock
    \* Only a bus that is active, and a controller with its clock, end a transfer
    \* or a reset.
    /\ isr # "none" \/ host = "suspended" \/ ~clock => ~done /\ ~eor
    /\ suspend \/ isr = "suspend" => host = "suspended"
    /\ isr = "wake" => host = "active"
    \* From udd_ack_wake_up on, the wake-up flag tells whether the host has resumed.
    /\ isr \in {"suspend_ints", "suspend_ack"} \/ ~clock => (wakeup <=> host = "active")
    /\ isr = "suspend_ack" \/ ~clock => wakeupInt
    /\ clock /\ isr \in {"none", "suspend", "suspend_ints"} => suspendInt
    /\ host = "suspended" /\ clock /\ isr = "none" => suspend

\* No suspension and no resume is lost between the status that UDPHS_Handler
\* reads, the flags it removes and the clock it stops, provided the host does
\* not resume in the instant before udd_ack_wake_up: what the fairness of the
\* handler then turns into ResumeTold and SuspendHonoured.
THEOREM EventsArePending ==
    ASSUME ~Overlap
    PROVE  LineSpec => []EventsPending
  <1>1. LineInit => EventInv
    BY DEF LineInit, EventInv
  <1>2. ASSUME EventInv, [LineNext]_lineVars PROVE EventInv'
    <2> USE <1>2 DEF EventInv
    <2>1. CASE EnterDone
      BY <2>1 DEF EnterDone
    <2>2. CASE EnterReset
      BY <2>2 DEF EnterReset
    <2>3. CASE EnterLine
      BY <2>3 DEF EnterLine, line, Pending
    <2>4. CASE AckOldWakeUp
      BY <2>4 DEF AckOldWakeUp
    <2>5. CASE SuspendInts
      BY <2>5 DEF SuspendInts, line
    <2>6. CASE SuspendEnds
      BY <2>6 DEF SuspendEnds
    <2>7. CASE WakeUp
      BY <2>7 DEF WakeUp
    <2>8. CASE Request \/ StartSession \/ FillPacket \/ SendPacket \/ UNCHANGED lineVars
      <3>1. UNCHANGED <<host, clock, line, suspendInt, wakeupInt, isr>>
        BY <2>8 DEF Request, StartSession, FillPacket, SendPacket, lineVars
      <3> QED
        BY <3>1 DEF line
    <2>9. CASE HostSuspends
      BY <2>9 DEF HostSuspends, Pending
    <2>10. CASE HostResumes
      BY <2>10 DEF HostResumes
    <2>11. CASE HostResets
      BY <2>11 DEF HostResets
    <2>12. CASE HostTakesPacket
      BY <2>12 DEF HostTakesPacket
    <2> QED
      BY <2>1, <2>2, <2>3, <2>4, <2>5, <2>6, <2>7, <2>8, <2>9, <2>10, <2>11, <2>12
      DEF LineNext, Handler, Host
  <1>3. EventInv => EventsPending
    BY DEF EventInv, EventsPending
  <1> QED
    BY <1>1, <1>2, <1>3, PTL DEF LineSpec

============================================================================
