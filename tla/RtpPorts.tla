------------------------------ MODULE RtpPorts ------------------------------
(***************************************************************************)
(* The ports on which RTP is received: RtpServerManager and the tasks of   *)
(* RtpStreamReceiver in srt/src/gb28181/rtp_server.rs, with the HTTP calls *)
(* openRtpServer, connectRtpServer and closeRtpServer.  A receiver is the  *)
(* call that opened it.  What a packet does inside the receiver is the     *)
(* subject of RtpPath.                                                     *)
(***************************************************************************)
EXTENDS Integers, FiniteSets

CONSTANTS PortSpace,   \* port numbers (2^16)
          PortBase,    \* media_port_base
          Receivers,   \* the open calls
          OpenPlans,   \* what the calls ask for: port (0 = allocate) and mode
          MaxIngest    \* bound: packets that a receiver takes after it was closed

ASSUME PortNumbers ==
  /\ PortSpace \in Nat \ {0, 1} /\ PortBase \in 1 .. PortSpace - 1
  /\ OpenPlans \subseteq [Receivers -> [port : 0 .. PortSpace - 1, mode : {"udp", "passive", "active"}]]

VARIABLES
  opens,      \* opens[r]: what call r asks for
  nextPort,   \* the AtomicU16
  inner,      \* inner[p]: the receiver listed under port p, or 0
  callPc,     \* where each open call is
  portOf,     \* the port that a call settled on, or -1
  taskPc,     \* where the task of each receiver is
  shutdown,   \* the flag of each receiver
  target,     \* a destination was given (TCP active)
  targetSent, \* connect_stream has found the receiver and resolves the name
  ingested    \* packets taken after the shutdown

portVars == <<opens, nextPort, inner, callPc, portOf, taskPc, shutdown, target, targetSent, ingested>>

Mode(r) == opens[r].mode

PortsInit ==
  /\ opens \in OpenPlans
  /\ nextPort = PortBase
  /\ inner = [p \in 0 .. PortSpace - 1 |-> 0]
  /\ callPc = [r \in Receivers |-> "idle"]
  /\ portOf = [r \in Receivers |-> -1]
  /\ taskPc = [r \in Receivers |-> "none"]
  /\ shutdown = [r \in Receivers |-> FALSE]
  /\ target = [r \in Receivers |-> FALSE]
  /\ targetSent = [r \in Receivers |-> FALSE]
  /\ ingested = [r \in Receivers |-> 0]

GoTask(r, pc) == taskPc' = [taskPc EXCEPT ![r] = pc]

\* Receiver r keeps its socket: as long as its task runs, or it is listed.
HoldsSocket(r) ==
  taskPc[r] # "none" /\ (taskPc[r] # "ended" \/ inner[portOf[r]] = r)

\* The operating system refuses a second UDP socket on a port, and a listener on
\* a port with TCP sockets; TCP sockets that connect use SO_REUSEADDR.
CanBind(r) ==
  \A q \in Receivers \ {r} : HoldsSocket(q) /\ portOf[q] = portOf[r] =>
    \/ (Mode(q) = "udp") # (Mode(r) = "udp")
    \/ Mode(q) = "active" /\ Mode(r) = "active"

----------------------------------------------------------------------------
\* alloc_port: the first number from the counter on that is neither 0 nor listed;
\* the counter wraps.
alloc_port(free, p) ==
  \A q \in free : (p - nextPort) % PortSpace <= (q - nextPort) % PortSpace

\* open_with_mode, up to the check of the table.  A call that finds every port
\* listed never returns.
open_with_mode(r) ==
  /\ callPc[r] = "idle"
  /\ LET free == {p \in 1 .. PortSpace - 1 : inner[p] = 0} IN
     \/ /\ opens[r].port = 0
        /\ \E p \in free :
           /\ alloc_port(free, p)
           /\ nextPort' = (p + 1) % PortSpace
           /\ portOf' = [portOf EXCEPT ![r] = p]
           /\ callPc' = [callPc EXCEPT ![r] = "binding"]
     \/ /\ opens[r].port # 0
        /\ callPc' = [callPc EXCEPT ![r] = IF inner[opens[r].port] = 0 THEN "binding" ELSE "failed"]
        /\ portOf' = [portOf EXCEPT ![r] = opens[r].port]
        /\ UNCHANGED nextPort
  /\ UNCHANGED <<opens, inner, taskPc, shutdown, target, targetSent, ingested>>

\* Mutant: the UDP socket is made with SO_REUSEADDR, like the TCP ones.
open_bind_reuse(r) ==
  /\ callPc[r] = "binding"
  /\ callPc' = [callPc EXCEPT ![r] = "open"]
  /\ GoTask(r, "start")
  /\ inner' = [inner EXCEPT ![portOf[r]] = r]
  /\ UNCHANGED <<opens, nextPort, portOf, shutdown, target, targetSent, ingested>>

\* open_with_mode, from the bind on: the task is spawned and the table written.
open_bind(r) ==
  /\ callPc[r] = "binding"
  /\ \/ /\ CanBind(r)
        /\ callPc' = [callPc EXCEPT ![r] = "open"]
        /\ GoTask(r, "start")
        /\ inner' = [inner EXCEPT ![portOf[r]] = r]
     \/ /\ ~ CanBind(r)
        /\ callPc' = [callPc EXCEPT ![r] = "failed"]
        /\ UNCHANGED <<inner, taskPc>>
  /\ UNCHANGED <<opens, nextPort, portOf, shutdown, target, targetSent, ingested>>

\* close: the entry is taken out and its receiver told.
close_port(p) ==
  /\ inner[p] # 0
  /\ shutdown' = [shutdown EXCEPT ![inner[p]] = TRUE]
  /\ inner' = [inner EXCEPT ![p] = 0]
  /\ UNCHANGED <<opens, nextPort, callPc, portOf, taskPc, target, targetSent, ingested>>

\* connect_stream finds a receiver ...
connect_stream(r) ==
  /\ taskPc[r] # "none" /\ inner[portOf[r]] = r
  /\ ~ targetSent[r]
  /\ targetSent' = [targetSent EXCEPT ![r] = TRUE]
  /\ UNCHANGED <<opens, nextPort, inner, callPc, portOf, taskPc, shutdown, target, ingested>>

\* ... resolves the name, and sets the target if the receiver is a TCP active one.
set_tcp_active_target(r) ==
  /\ targetSent[r] /\ Mode(r) = "active" /\ ~ target[r]
  /\ target' = [target EXCEPT ![r] = TRUE]
  /\ UNCHANGED <<opens, nextPort, inner, callPc, portOf, taskPc, shutdown, targetSent, ingested>>

----------------------------------------------------------------------------
\* The tasks.  Every wait that a timeout of 500 ms bounds comes back to "start".

\* Mutant: a TCP receiver looks at the flag only when it accepts or connects.
shutdown_seen_late(r) == shutdown[r] /\ taskPc[r] = "start"

\* The check at the head of every loop.
shutdown_seen(r) == shutdown[r]

\* Where a task goes that was not told to end: to its socket, or back to the
\* wait for a target.
run(r) ==
  /\ taskPc[r] = "start"
  /\ \/ shutdown_seen(r) /\ GoTask(r, "ended")
     \/ ~ shutdown_seen(r) /\ Mode(r) = "udp" /\ GoTask(r, "recv")
     \/ ~ shutdown_seen(r) /\ Mode(r) = "passive" /\ GoTask(r, "accept")
     \/ ~ shutdown_seen(r) /\ Mode(r) = "active"
        /\ GoTask(r, IF target[r] THEN "connect" ELSE "start")
  /\ UNCHANGED <<opens, nextPort, inner, callPc, portOf, shutdown, target, targetSent, ingested>>

\* ingest_packet, counted once the receiver was closed.
Ingest(r) ==
  ingested' = IF shutdown[r] THEN [ingested EXCEPT ![r] = @ + 1] ELSE ingested

\* run_udp: a packet, a timeout, or an error, which ends the task and leaves the
\* entry in the table.
run_udp(r) ==
  /\ taskPc[r] = "recv"
  /\ \/ ingested[r] < MaxIngest /\ Ingest(r) /\ GoTask(r, "start")
     \/ UNCHANGED ingested /\ GoTask(r, "start")
     \/ UNCHANGED ingested /\ GoTask(r, "ended")
  /\ UNCHANGED <<opens, nextPort, inner, callPc, portOf, shutdown, target, targetSent>>

\* run_tcp_passive: a connection, or an error or timeout.
run_tcp_passive(r) ==
  /\ taskPc[r] = "accept"
  /\ GoTask(r, "stream") \/ GoTask(r, "start")
  /\ UNCHANGED <<opens, nextPort, inner, callPc, portOf, shutdown, target, targetSent, ingested>>

\* run_tcp_active: a connection, or a failure and a second of sleep.
run_tcp_active(r) ==
  /\ taskPc[r] = "connect"
  /\ GoTask(r, "stream") \/ GoTask(r, "start")
  /\ UNCHANGED <<opens, nextPort, inner, callPc, portOf, shutdown, target, targetSent, ingested>>

\* read_tcp_stream: the flag, then the length of a packet within 500 ms ...
read_tcp_stream(r) ==
  /\ taskPc[r] = "stream"
  /\ \/ shutdown_seen(r) /\ GoTask(r, "start")
     \/ ~ shutdown_seen(r) /\ GoTask(r, "length")
  /\ UNCHANGED <<opens, nextPort, inner, callPc, portOf, shutdown, target, targetSent, ingested>>

\* ... a timeout, the end of the stream or a length too short, or a packet begins.
read_length(r) ==
  /\ taskPc[r] = "length"
  /\ GoTask(r, "stream") \/ GoTask(r, "start") \/ GoTask(r, "packet")
  /\ UNCHANGED <<opens, nextPort, inner, callPc, portOf, shutdown, target, targetSent, ingested>>

\* The packet itself, for which there is no timeout: it comes or the stream ends.
read_packet(r) ==
  /\ taskPc[r] = "packet"
  /\ \/ ingested[r] < MaxIngest /\ Ingest(r) /\ GoTask(r, "stream")
     \/ UNCHANGED ingested /\ GoTask(r, "start")
  /\ UNCHANGED <<opens, nextPort, inner, callPc, portOf, shutdown, target, targetSent>>

\* The steps that end by themselves.
TimedStep(r) ==
  \/ run(r) \/ run_udp(r) \/ run_tcp_passive(r) \/ run_tcp_active(r)
  \/ read_tcp_stream(r) \/ read_length(r)

PortsNext ==
  \/ \E r \in Receivers :
       \/ open_with_mode(r) \/ open_bind(r)
       \/ connect_stream(r) \/ set_tcp_active_target(r)
       \/ TimedStep(r) \/ read_packet(r)
  \/ \E p \in DOMAIN inner : close_port(p)

\* Tasks are polled and their timers fire; the peer of a TCP stream owes nothing.
PortsFairness == \A r \in Receivers : WF_portVars(TimedStep(r))

----------------------------------------------------------------------------
\* Of two overlapping calls for a UDP port one fails: every UDP receiver that was
\* not closed is the listed one, so that closeRtpServer can reach it.  The check
\* of the table alone does not give this; the bind does.
UdpReceiverListed ==
  \A r \in Receivers :
    /\ Mode(r) = "udp" /\ taskPc[r] # "none" /\ ~ shutdown[r]
    /\ \A q \in Receivers \ {r} : portOf[q] = portOf[r] => Mode(q) = "udp"
    => inner[portOf[r]] = r

\* "Close an open RTP reception port and stop publishing": at most the packet
\* that the task was waiting for is still taken.
ClosedStopsPublishing == \A r \in Receivers : ingested[r] <= 1

\* A receiver can be closed, and a closed one stops publishing.
ReceiversAccounted == UdpReceiverListed /\ ClosedStopsPublishing

\* A receiver that was closed ends and gives its port back, unless its peer
\* stopped in the middle of a packet.
ClosedEnds ==
  \A r \in Receivers :
    [](shutdown[r] => <>(taskPc[r] = "ended" \/ taskPc[r] = "packet"))
=============================================================================
