------------------------------- MODULE Discovery -------------------------------
(***************************************************************************)
(* What the integration reads from a recorder when its entry is set up: the *)
(* cameras (get_cameras of isapi.py) and the events the recorder reports    *)
(* for them (get_supported_events); and how the channel in an alert is led  *)
(* back to a camera (update_alert_channel of notifications.py).            *)
(*                                                                         *)
(* A recorder has analog inputs, numbered from 1, and proxied inputs for IP *)
(* cameras, which are numbered after them.                                 *)
(***************************************************************************)
EXTENDS Naturals

CONSTANTS
    Digital,   \* number of proxied inputs, RacmCap.inputProxyNums
    Ports,     \* the input ports of an IP camera, as it numbers them itself
    Serials,   \* serial numbers of IP cameras
    NoSource   \* nothing is configured for a proxied input

ASSUME DigitalAssumption == Digital \in Nat
ASSUME PortsAssumption == Ports \subseteq Nat \ {0}

\* sourceInputPortDescriptor of a proxied input.
NoSerial == "no serial"
Sources == [port : Ports, serial : Serials \union {NoSerial}]

\* Alerts name a proxied input by its number plus 32, or by its camera's id.
ProxyOffset == 32

Inputs == 1..Digital

Connected(source) == {k \in Inputs : source[k] # NoSource}

\* The ids of all cameras of a recorder, for which it lists the events it can report.
Channels(analog, source) == 1..analog \union {analog + k : k \in Connected(source)}
--------------------------------------------------------------------------------
\* Faulty: a serial number need only be present.
KeepsSerial_Any(source, k) == source[k].serial # NoSerial

\* The camera of a proxied input keeps the serial number of its source if there is one
\* and no camera before it has it.
KeepsSerial(source, k) ==
    /\ source[k].serial # NoSerial
    /\ \A j \in Connected(source) : j < k => source[j].serial # source[k].serial

\* Faulty: the id is the channel in alerts.
IPCamera_AlertId(analog, source, k) ==
    [id |-> ProxyOffset + k, ip |-> TRUE, input_port |-> source[k].port,
     serial_no |-> <<"proxied", k>>]

IPCamera(analog, source, k) ==
    [id |-> analog + k, ip |-> TRUE, input_port |-> source[k].port,
     serial_no |-> IF KeepsSerial(source, k) THEN <<"own", source[k].serial>>
                   ELSE <<"proxied", analog + k>>]

AnalogCamera(c) == [id |-> c, ip |-> FALSE, input_port |-> c, serial_no |-> <<"analog", c>>]

\* The cameras in device.cameras: IP cameras first, in the order of their ids.
Cameras(analog, source) ==
    {IPCamera(analog, source, k) : k \in Connected(source)} \union {AnalogCamera(c) : c \in 1..analog}
--------------------------------------------------------------------------------
\* The channels a recorder may name in an alert of its camera c.
Reported(analog, c) == IF c > analog THEN {c, ProxyOffset + (c - analog)} ELSE {c}

\* Faulty: takes a camera of any kind for an IP camera.
Resolved_AnyKind(cameras, n) ==
    LET found == {c.id : c \in {d \in cameras : d.input_port = n - ProxyOffset}} IN
    IF n <= ProxyOffset THEN n
    ELSE IF found = {} THEN n - ProxyOffset
    ELSE CHOOSE i \in found : \A j \in found : i <= j

\* The camera that the channel n of an alert stands for: above 32 the first IP camera
\* with that input port, or, if there is none, the camera with that number.
Resolved(cameras, n) ==
    LET found == {c.id : c \in {d \in cameras : d.ip /\ d.input_port = n - ProxyOffset}} IN
    IF n <= ProxyOffset THEN n
    ELSE IF found = {} THEN n - ProxyOffset
    ELSE CHOOSE i \in found : \A j \in found : i <= j
================================================================================
