------------------------------ MODULE UdcCore ------------------------------
(***************************************************************************)
(* The USB device core (udc.c) with the vendor interface (udi_vendor.c)    *)
(* and the application's enable, disable and request hooks: address,       *)
(* configuration, alternate setting, allocated endpoints and descriptors.  *)
(* Every request is handled in one interrupt.  What a request leaves to do *)
(* when it has ended is its callback, which the control endpoint calls at  *)
(* the end of the request or, if the host gave it up, at the next SETUP.   *)
(*                                                                         *)
(* Setting 0 has no endpoint, setting 1 has the two bulk endpoints.        *)
(***************************************************************************)
EXTENDS Integers

CONSTANTS Addresses,  \* addresses the host gives
          MaxFaults   \* bound on the endpoints that cannot be mapped

ASSUME UdcAssumption == Addresses \subseteq 0 .. 127 /\ MaxFaults \in Nat

VARIABLES high,       \* udd_is_high_speed
          address,
          config,     \* udc_num_configuration
          alt,        \* udi_vendor_alternate_setting
          eps,        \* the endpoints that are enabled
          halted,     \* those of them that are halted (FRCESTALL)
          enabled,    \* main_b_vendor_enable
          callback,   \* what the request does at its end
          test,       \* a test mode is on
          descType,   \* bDescriptorType of the configuration descriptors
          answer,     \* of the last request: what was asked, whether the core
                      \* supports it, whether it is acknowledged, what it sends
          faults

vars == <<high, address, config, alt, eps, halted, enabled, callback, test,
          descType, answer, faults>>
state == <<high, address, config, alt, eps, halted, enabled, test, descType,
           faults>>

NoCallback == <<"none">>
Endpoints(s) == IF s = 1 THEN {"in", "out"} ELSE {}
Speed(h) == IF h THEN "hs" ELSE "fs"

Init ==
    /\ high \in BOOLEAN
    /\ address = 0 /\ config = 0 /\ alt = 0 /\ eps = {} /\ halted = {}
    /\ enabled = FALSE
    /\ callback = NoCallback /\ test = FALSE
    /\ descType = [d \in {"fs", "hs"} |-> "config"]
    /\ answer = [req |-> "none", ok |-> TRUE, ack |-> TRUE, sends |-> "nothing"]
    /\ faults = 0

---------------------------------------------------------------------------
\* udc_process_setup: a standard request the core does not support goes on to
\* main_setup_handle, which acknowledges it.
Answer(req, ok, sends) ==
    answer' = [req |-> req, ok |-> ok, ack |-> TRUE, sends |-> sends]

Idle == callback = NoCallback

Refuse ==
    /\ Answer("refused", FALSE, "nothing")
    /\ UNCHANGED <<state, callback>>

\* udc_iface_disable with the interface of the configuration: the endpoints it
\* leaves, and main_b_vendor_enable.
Kept     == eps \ Endpoints(alt)
Disabled == IF alt = 1 THEN FALSE ELSE enabled

\* udc_iface_enable for setting s when the endpoints e are enabled and
\* main_b_vendor_enable is d; req is the request it decides.  An endpoint that was
\* freed is not halted any more.
IfaceEnable(s, e, d, req) ==
    /\ halted' = halted \cap e
    /\ \/ /\ s \in {0, 1} /\ e \cap Endpoints(s) = {}
          /\ eps' = e \cup Endpoints(s)
          /\ alt' = s /\ enabled' = (s = 1 \/ d)
          /\ Answer(req, TRUE, "nothing")
          /\ UNCHANGED faults
       \/ /\ s \notin {0, 1}                \* no such setting
          /\ eps' = e /\ alt' = alt /\ enabled' = d
          /\ Answer(req, FALSE, "nothing")
          /\ UNCHANGED faults
       \/ /\ s = 1                          \* an endpoint cannot be allocated
          /\ \/ /\ "in" \in e /\ eps' = e /\ UNCHANGED faults
             \/ /\ "in" \notin e /\ faults < MaxFaults
                /\ faults' = faults + 1 /\ eps' \in {e, e \cup {"in"}}
          /\ alt' = alt /\ enabled' = d
          /\ Answer(req, FALSE, "nothing")

\* SET_ADDRESS: the address changes when the request has ended.
SetAddress(a) ==
    /\ Idle
    /\ callback' = <<"address", a>>
    /\ Answer("set address", TRUE, "nothing")
    /\ UNCHANGED state

ValidConfiguration(c) == c <= 1

\* Mutant: the interface of the old configuration is not disabled.
SetConfigurationNoReset(c) ==
    /\ Idle
    /\ \/ (address = 0 \/ ~ValidConfiguration(c)) /\ Refuse
       \/ /\ address # 0 /\ ValidConfiguration(c)
          /\ config' = c
          /\ IF c = 0
             THEN /\ Answer("set configuration", TRUE, "nothing")
                  /\ UNCHANGED <<eps, halted, alt, enabled, faults>>
             ELSE IfaceEnable(0, eps, enabled, "set configuration")
          /\ UNCHANGED <<high, address, callback, test, descType>>

\* udc_reset leaves these endpoints, and main_b_vendor_enable.
ResetKept     == IF config # 0 THEN Kept ELSE eps
ResetDisabled == IF config # 0 THEN Disabled ELSE enabled

SetConfiguration(c) ==
    /\ Idle
    /\ \/ (address = 0 \/ ~ValidConfiguration(c)) /\ Refuse
       \/ /\ address # 0 /\ ValidConfiguration(c)
          /\ config' = c
          /\ IF c = 0
             THEN /\ eps' = ResetKept /\ enabled' = ResetDisabled
                  /\ halted' = halted \cap ResetKept
                  /\ Answer("set configuration", TRUE, "nothing")
                  /\ UNCHANGED <<alt, faults>>
             ELSE IfaceEnable(0, ResetKept, ResetDisabled, "set configuration")
          /\ UNCHANGED <<high, address, callback, test, descType>>

\* Mutant: the endpoints of the old setting stay allocated.
SetInterfaceNoFree(i, s) ==
    /\ Idle
    /\ \/ (config = 0 \/ i # 0) /\ Refuse
       \/ /\ config # 0 /\ i = 0
          /\ IfaceEnable(s, IF s = 0 THEN eps ELSE Kept, Disabled, "set interface")
          /\ UNCHANGED <<high, address, config, callback, test, descType>>

\* SET_INTERFACE: the old setting is disabled before the new one is looked at.
SetInterface(i, s) ==
    /\ Idle
    /\ \/ (config = 0 \/ i # 0) /\ Refuse
       \/ /\ config # 0 /\ i = 0
          /\ IfaceEnable(s, Kept, Disabled, "set interface")
          /\ UNCHANGED <<high, address, config, callback, test, descType>>

GetInterface(i) ==
    /\ Idle
    /\ \/ (config = 0 \/ i # 0) /\ Refuse
       \/ /\ config # 0 /\ i = 0
          /\ Answer("get interface", TRUE, alt)
          /\ UNCHANGED <<state, callback>>

GetConfiguration ==
    /\ Idle
    /\ Answer("get configuration", TRUE, config)
    /\ UNCHANGED <<state, callback>>

\* SET_FEATURE(TEST_MODE): the device is unconfigured before the selector is
\* looked at.
SetTestMode(valid) ==
    /\ Idle
    /\ \/ ~high /\ Refuse
       \/ /\ high
          /\ config' = 0 /\ eps' = ResetKept /\ enabled' = ResetDisabled
          /\ halted' = halted \cap ResetKept
          /\ callback' = IF valid THEN <<"test">> ELSE NoCallback
          /\ Answer("test mode", valid, "nothing")
          /\ UNCHANGED <<high, address, alt, test, descType, faults>>

\* Mutant: the type byte is written for the other speed only.
ServeConfigurationAsIs(req, d, n) ==
    \/ n # 0 /\ Refuse
    \/ /\ n = 0
       /\ descType' = IF req = "other" THEN [descType EXCEPT ![d] = req] ELSE descType
       /\ Answer(req, TRUE, d)
       /\ UNCHANGED <<high, address, config, alt, eps, halted, enabled, callback, test,
                      faults>>

\* Descriptor d of configuration n, with its type written into it.
ServeConfiguration(req, d, n) ==
    \/ n # 0 /\ Refuse
    \/ /\ n = 0
       /\ descType' = [descType EXCEPT ![d] = req]
       /\ Answer(req, TRUE, d)
       /\ UNCHANGED <<high, address, config, alt, eps, halted, enabled, callback, test,
                      faults>>

\* GET_DESCRIPTOR; those of the device, the qualifier and the strings never change.
GetDescriptor(kind, n) ==
    /\ Idle
    /\ \/ kind = "config" /\ ServeConfiguration("config", Speed(high), n)
       \/ kind = "other" /\ ServeConfiguration("other", Speed(~high), n)
       \/ /\ kind = "fixed"
          /\ Answer(kind, TRUE, kind)
          /\ UNCHANGED <<state, callback>>
       \/ kind = "unknown" /\ Refuse

\* SET_FEATURE(ENDPOINT_HALT) of endpoint p: udd_ep_abort ends its transfer, and
\* udd_ep_set_halt halts it.  A number the device does not have is refused.
SetHalt(p) ==
    /\ Idle
    /\ \/ p = "none" /\ Refuse
       \/ /\ p # "none"
          /\ halted' = halted \cup ({p} \cap eps)
          /\ Answer(IF p = "in" THEN "halt in" ELSE "halt", TRUE, "nothing")
          /\ UNCHANGED <<high, address, config, alt, eps, enabled, callback, test,
                         descType, faults>>

\* CLEAR_FEATURE(ENDPOINT_HALT): a halted endpoint has no transfer to end.
ClearHalt(p) ==
    /\ Idle
    /\ \/ p = "none" /\ Refuse
       \/ /\ p # "none"
          /\ halted' = halted \ {p}
          /\ Answer("halt", TRUE, "nothing")
          /\ UNCHANGED <<high, address, config, alt, eps, enabled, callback, test,
                         descType, faults>>

\* GET_STATUS of an endpoint.
GetHalt(p) ==
    /\ Idle
    /\ Answer("halt", TRUE, IF p \in halted THEN "halted" ELSE "ready")
    /\ UNCHANGED <<state, callback>>

\* An IN request of length 0 is the one standard request that is stalled.
EmptyInRequest ==
    /\ Idle
    /\ answer' = [req |-> "empty", ok |-> FALSE, ack |-> FALSE, sends |-> "nothing"]
    /\ UNCHANGED <<state, callback>>

\* The request has ended, or the next SETUP has come: its callback is called,
\* udc_valid_address or one of the test modes.
EndOfRequest ==
    /\ ~Idle
    /\ callback' = NoCallback
    /\ \/ callback[1] = "address" /\ address' = callback[2] /\ UNCHANGED test
       \/ callback[1] = "test" /\ test' = TRUE /\ UNCHANGED address
    /\ UNCHANGED <<high, config, alt, eps, halted, enabled, descType, answer, faults>>

\* The bus reset: udc_reset, udd_reset_ep_ctrl, udd_ctrl_init; the controller
\* disables the endpoints, and the speed is negotiated again.
BusReset ==
    /\ config' = 0 /\ enabled' = ResetDisabled
    /\ address' = 0 /\ eps' = {} /\ halted' = {} /\ callback' = NoCallback /\ test' = FALSE
    /\ high' \in BOOLEAN
    /\ answer' = [req |-> "none", ok |-> TRUE, ack |-> TRUE, sends |-> "nothing"]
    /\ UNCHANGED <<alt, descType, faults>>

Requests ==
    \/ \E a \in Addresses : SetAddress(a)
    \/ \E c \in 0 .. 2 : SetConfiguration(c)
    \/ \E i \in 0 .. 1, s \in 0 .. 2 : SetInterface(i, s)
    \/ \E i \in 0 .. 1 : GetInterface(i)
    \/ GetConfiguration
    \/ \E valid \in BOOLEAN : SetTestMode(valid)
    \/ \E n \in 0 .. 1, kind \in {"config", "other", "fixed", "unknown"} :
          GetDescriptor(kind, n)
    \/ \E p \in {"in", "out", "none"} : SetHalt(p) \/ ClearHalt(p)
    \/ \E p \in {"in", "out"} : GetHalt(p)
    \/ EmptyInRequest \/ EndOfRequest

Next == Requests \/ BusReset

Spec == Init /\ [][Next]_vars

---------------------------------------------------------------------------
\* The application believes its interface enabled only in setting 1 of a
\* configured device, with both endpoints to run its transfers on: no order of
\* resets, configurations, settings and failures leaves main_b_vendor_enable
\* behind (udc_reset, udc_iface_disable, udc_iface_enable).
EnabledConsistent == enabled => config = 1 /\ alt = 1 /\ eps = Endpoints(1)

\* No endpoint outlives its setting, as long as none failed to be mapped: with
\* one left over, udd_ep_alloc would refuse setting 1 from then on.
EndpointsOwned == faults = 0 /\ ~enabled => eps = {}

\* A configuration descriptor that is on its way to the host is that of the
\* speed asked for and bears the type asked for, though the two requests for
\* it share the descriptors and overwrite their type.
DescriptorAsRequested ==
    /\ answer.req = "config" /\ answer.ok =>
           answer.sends = Speed(high) /\ descType[answer.sends] = "config"
    /\ answer.req = "other" /\ answer.ok =>
           answer.sends = Speed(~high) /\ descType[answer.sends] = "other"
============================================================================
