----------------------------- MODULE EbHandshake -----------------------------
(***************************************************************************)
(* How eb_device_open negotiates the bus widths with a remote side         *)
(* (glue/device.c, glue/widths.c, and both ends of the probe in            *)
(* format/slave.c), and what becomes of the result while the device is     *)
(* open.                                                                   *)
(*                                                                         *)
(* A probe carries the handle of the device as its tag; the answer echoes  *)
(* the tag and is credited to whichever device has that handle when it     *)
(* arrives.  Handles are reused as soon as a device is closed.             *)
(*                                                                         *)
(* A set of widths (a byte in the code: one bit for each size, addresses   *)
(* in the high half, data in the low half) is a record of two sets of      *)
(* sizes.  One eb_device_open runs at a time: opening a device from a      *)
(* callback that runs inside another eb_device_open is not modelled.       *)
(***************************************************************************)
EXTENDS Integers

CONSTANTS
  Handle,       \* the handles eb_new_device may return
  Peer,         \* the remote sides
  Stream,       \* those reached over a stream (mtu = 0); the others by datagrams
  Size,         \* sizes of an access in bytes (1, 2, 4, 8)
  Local,        \* the widths the application may give its socket
  Remote,       \* the widths a remote side may support
  Proposal,     \* the widths the application may ask for
  MaxAttempts,  \* bound on the parameter `attempts'
  Network,      \* subset of {TRUE, FALSE}: the values of timely to consider
  None

Width == [addr : SUBSET Size, data : SUBSET Size]

\* eb_width_possible
Possible(w) == w.addr # {} /\ w.data # {}

\* eb_width_refined
Refined(w) == \E a, d \in Size : w = [addr |-> {a}, data |-> {d}]

ASSUME HandshakeAssumption ==
  /\ Stream \subseteq Peer
  /\ Size \subseteq Nat
  /\ Local \subseteq Width /\ Remote \subseteq Width /\ Proposal \subseteq Width
  /\ \A w \in Local \cup Remote : Possible(w)
  /\ MaxAttempts \in Nat
  /\ Network \subseteq BOOLEAN
  /\ None \notin Handle

VARIABLES
  timely,    \* the network delivers once, and within 3 seconds or not at all
  local,     \* eb_socket.widths of the application
  supports,  \* eb_socket.widths of each remote side
  status,    \* is the handle free, being probed, or an open device?
  widths,    \* eb_device.widths
  peer,      \* the remote side of the device
  asked,     \* proposed_widths within the widths of the socket
  probed,    \* were the widths negotiated (attempts # 0)?
  linked,    \* eb_device.link # EB_NULL
  slave,     \* widths of the passive device at the other end of a stream
  opening,   \* the device that the running eb_device_open probes
  attempts,  \* how many probes it may still send, this one included
  result,    \* what the last eb_device_open returned
  net        \* probes and answers on their way

setup == <<timely, local, supports>>
vars == <<timely, local, supports, status, widths, peer, asked, probed, linked,
          slave, opening, attempts, result, net>>

Message == [answer : BOOLEAN, tag : Handle, peer : Peer, widths : Width]
Result == {"none", "OK", "WIDTH", "TIMEOUT", "FAIL", "ADDRESS", "OOM"}

\* `widths == 0'
Zero == [addr |-> {}, data |-> {}]

\* `v & w'
Both(v, w) == [addr |-> v.addr \cap w.addr, data |-> v.data \cap w.data]

Largest(S) == {x \in S : \A y \in S : y <= x}

\* eb_width_refine
Refine(w) == [addr |-> Largest(w.addr), data |-> Largest(w.data)]

Init ==
  /\ timely \in Network
  /\ local \in Local
  /\ supports \in [Peer -> Remote]
  /\ status = [h \in Handle |-> "free"]
  /\ widths = [h \in Handle |-> Zero]
  /\ peer \in [Handle -> Peer]
  /\ asked = [h \in Handle |-> Zero]
  /\ probed = [h \in Handle |-> FALSE]
  /\ linked = [h \in Handle |-> FALSE]
  /\ slave = [h \in Handle |-> Zero]
  /\ opening = None
  /\ attempts = 0
  /\ result = "none"
  /\ net = {}

-----------------------------------------------------------------------------
(* eb_device_open.                                                         *)

Probe(h, q, w) == [answer |-> FALSE, tag |-> h, peer |-> q, widths |-> w]

\* What the network forgets when the device h is closed or probed again: the
\* stream closes, and a timely network holds nothing back.
Forgotten(h) == {m \in net : m.tag = h /\ (timely \/ m.peer \in Stream)}

\* A mutant carries the name of the definition it changes and stands before
\* it.  The application gets more than its own socket can do.
Within_Unchecked(w) == w

\* `proposed_widths &= socket->widths'
Within(w) == Both(w, local)

\* eb_device_open fails before there is a device: no memory, no transport
\* that understands the address, no connection, or no width of this socket
OpenRefused(w) ==
  /\ opening = None
  /\ result' \in {"OOM", "ADDRESS", "FAIL"} \cup (IF Possible(Within(w)) THEN {} ELSE {"WIDTH"})
  /\ UNCHANGED <<setup, status, widths, peer, asked, probed, linked, slave, opening,
                 attempts, net>>

\* eb_device_open connects and sends the first probe
OpenBegin(h, q, w, n) ==
  /\ opening = None
  /\ status[h] = "free"
  /\ Possible(Within(w))
  /\ n # 0 \/ q \in Stream
  /\ status' = [status EXCEPT ![h] = "probing"]
  /\ widths' = [widths EXCEPT ![h] = Zero]
  /\ peer' = [peer EXCEPT ![h] = q]
  /\ asked' = [asked EXCEPT ![h] = Within(w)]
  /\ probed' = [probed EXCEPT ![h] = TRUE]
  /\ linked' = [linked EXCEPT ![h] = TRUE]
  /\ slave' = [slave EXCEPT ![h] = Zero]
  /\ opening' = h
  /\ attempts' = IF q \in Stream THEN 1 ELSE n
  /\ net' = net \cup {Probe(h, q, Within(w))}
  /\ UNCHANGED <<setup, result>>

\* eb_device_open with attempts = 0 believes the application, or returns
\* EB_WIDTH if it left a choice
OpenUnprobed(h, q, w) ==
  /\ opening = None
  /\ status[h] = "free"
  /\ q \notin Stream
  /\ Possible(Within(w))
  /\ IF Refined(Within(w))
     THEN /\ status' = [status EXCEPT ![h] = "open"]
          /\ widths' = [widths EXCEPT ![h] = Within(w)]
          /\ peer' = [peer EXCEPT ![h] = q]
          /\ asked' = [asked EXCEPT ![h] = Within(w)]
          /\ probed' = [probed EXCEPT ![h] = FALSE]
          /\ linked' = [linked EXCEPT ![h] = TRUE]
          /\ result' = "OK"
     ELSE /\ result' = "WIDTH"
          /\ UNCHANGED <<status, widths, peer, asked, probed, linked>>
  /\ UNCHANGED <<setup, slave, opening, attempts, net>>

\* The device stays on the socket's list.
Closed_Keeps(h) ==
  /\ status' = status
  /\ linked' = [linked EXCEPT ![h] = FALSE]
  /\ net' = net \ Forgotten(h)

\* eb_device_close of the device h
Closed(h) ==
  /\ status' = [status EXCEPT ![h] = "free"]
  /\ linked' = [linked EXCEPT ![h] = FALSE]
  /\ net' = net \ Forgotten(h)

\* Three seconds without an answer, and the last attempt is not over
ProbeAgain ==
  /\ opening # None
  /\ widths[opening] = Zero /\ linked[opening]
  /\ attempts > 1
  /\ attempts' = attempts - 1
  /\ net' = (net \ Forgotten(opening)) \cup {Probe(opening, peer[opening], asked[opening])}
  /\ UNCHANGED <<setup, status, widths, peer, asked, probed, linked, slave, opening, result>>

\* The last attempt does not end the probing.
GiveUp_Never ==
  /\ opening # None
  /\ widths[opening] = Zero /\ linked[opening]
  /\ attempts = 0
  /\ Closed(opening)
  /\ opening' = None
  /\ attempts' = 0
  /\ result' = "TIMEOUT"
  /\ UNCHANGED <<setup, widths, peer, asked, probed, slave>>

\* ... and it is over
GiveUp ==
  /\ opening # None
  /\ widths[opening] = Zero /\ linked[opening]
  /\ attempts = 1
  /\ Closed(opening)
  /\ opening' = None
  /\ attempts' = 0
  /\ result' = "TIMEOUT"
  /\ UNCHANGED <<setup, widths, peer, asked, probed, slave>>

\* The link was lost while the device was probed
OpenFails ==
  /\ opening # None
  /\ ~linked[opening]
  /\ Closed(opening)
  /\ opening' = None
  /\ attempts' = 0
  /\ result' = "FAIL"
  /\ UNCHANGED <<setup, widths, peer, asked, probed, slave>>

\* Of what was asked for only the largest sizes are compared.
Common_Refined(h) == Both(widths[h], Refine(asked[h]))

\* `device->widths &= proposed_widths'
Common(h) == Both(widths[h], asked[h])

\* An answer is there, and the two sides have no width in common
OpenImpossible ==
  /\ opening # None
  /\ linked[opening] /\ widths[opening] # Zero
  /\ ~Possible(Common(opening))
  /\ widths' = [widths EXCEPT ![opening] = Common(opening)]
  /\ Closed(opening)
  /\ opening' = None
  /\ attempts' = 0
  /\ result' = "WIDTH"
  /\ UNCHANGED <<setup, peer, asked, probed, slave>>

\* An answer is there, and eb_device_open returns the device
OpenReturns ==
  /\ opening # None
  /\ linked[opening] /\ widths[opening] # Zero
  /\ Possible(Common(opening))
  /\ widths' = [widths EXCEPT ![opening] = Refine(Common(opening))]
  /\ status' = [status EXCEPT ![opening] = "open"]
  /\ net' = net \ {m \in net : timely /\ m.tag = opening}
  /\ opening' = None
  /\ attempts' = 0
  /\ result' = "OK"
  /\ UNCHANGED <<setup, peer, asked, probed, linked, slave>>

\* The application closes a device, also from a callback that runs inside
\* eb_device_open
Close(h) ==
  /\ status[h] = "open"
  /\ Closed(h)
  /\ UNCHANGED <<setup, widths, peer, asked, probed, slave, opening, attempts, result>>

-----------------------------------------------------------------------------
(* The two ends of the probe in eb_device_slave.                           *)

\* Delivery takes a message off the network, which may keep a copy of a
\* datagram.
Rest(m) == {net \ {m}} \cup (IF timely \/ m.peer \in Stream THEN {} ELSE {net})

\* The end of a stream takes the largest of what it was asked for.
Negotiated_Early(m) == Both(Refine(m.widths), supports[m.peer])

\* `eb_width_refine(widths & socket->widths)'
Negotiated(m) == Refine(Both(m.widths, supports[m.peer]))

\* The remote side is probed and answers with all it supports.  Over a
\* stream it keeps the negotiated widths, but closes the link if there are
\* none; that the application's end sees the link die is left to LinkDies.
ProbeArrives(m) ==
  /\ ~m.answer
  /\ m.peer \in Stream => linked[m.tag]
  /\ slave' = IF m.peer \in Stream THEN [slave EXCEPT ![m.tag] = Negotiated(m)] ELSE slave
  /\ \E rest \in Rest(m) :
       net' = rest \cup {[m EXCEPT !.answer = TRUE, !.widths = supports[m.peer]]}
  /\ UNCHANGED <<setup, status, widths, peer, asked, probed, linked, opening, attempts, result>>

\* An answer arrives for a device on the socket's list; nothing asks whether
\* that device is being probed, or by whom the answer was given.
AnswerArrives(m) ==
  /\ m.answer
  /\ status[m.tag] # "free"
  /\ m.peer \in Stream => linked[m.tag] /\ widths[m.tag] = Zero
  /\ widths' = [widths EXCEPT ![m.tag] = m.widths]
  /\ net' \in Rest(m)
  /\ UNCHANGED <<setup, status, peer, asked, probed, linked, slave, opening, attempts, result>>

\* A datagram with an answer for a handle that is free is dropped.
AnswerUnknown(m) ==
  /\ m.answer
  /\ status[m.tag] = "free"
  /\ net' \in Rest(m)
  /\ UNCHANGED <<setup, status, widths, peer, asked, probed, linked, slave, opening,
                 attempts, result>>

\* A stream whose device has widths carries records: an answer that comes
\* then is read as one.  It breaks the link, or has no effect here.
AnswerMisread(m) ==
  /\ m.answer
  /\ m.peer \in Stream /\ linked[m.tag] /\ widths[m.tag] # Zero
  /\ \E alive \in BOOLEAN : linked' = [linked EXCEPT ![m.tag] = alive]
  /\ net' = net \ {m}
  /\ UNCHANGED <<setup, status, widths, peer, asked, probed, slave, opening, attempts, result>>

\* eb_device_slave's kill at the application's end of a stream
LinkDies(h) ==
  /\ status[h] # "free"
  /\ peer[h] \in Stream /\ linked[h]
  /\ linked' = [linked EXCEPT ![h] = FALSE]
  /\ net' = net \ {m \in net : m.tag = h /\ m.peer \in Stream}
  /\ UNCHANGED <<setup, status, widths, peer, asked, probed, slave, opening, attempts, result>>

-----------------------------------------------------------------------------

\* The steps of eb_device_open while it waits
Opening ==
  \/ ProbeAgain
  \/ GiveUp
  \/ OpenFails
  \/ OpenImpossible
  \/ OpenReturns

Next ==
  \/ \E w \in Proposal : OpenRefused(w)
  \/ \E h \in Handle, q \in Peer, w \in Proposal, n \in 0..MaxAttempts : OpenBegin(h, q, w, n)
  \/ \E h \in Handle, q \in Peer, w \in Proposal : OpenUnprobed(h, q, w)
  \/ Opening
  \/ \E h \in Handle : Close(h)
  \/ \E m \in net : ProbeArrives(m)
  \/ \E m \in net : AnswerArrives(m)
  \/ \E m \in net : AnswerUnknown(m)
  \/ \E m \in net : AnswerMisread(m)
  \/ \E h \in Handle : LinkDies(h)

Spec == Init /\ [][Next]_vars

\* The thread that called eb_device_open goes on: the 3 seconds it waits
\* pass whatever the network does.
FairSpec == Spec /\ WF_vars(Opening)

-----------------------------------------------------------------------------
(* Properties.                                                             *)

\* Type invariant, and only the running eb_device_open has a device that is
\* neither free nor open.
TypeOK ==
  /\ timely \in BOOLEAN
  /\ local \in Width /\ Possible(local)
  /\ supports \in [Peer -> Width]
  /\ status \in [Handle -> {"free", "probing", "open"}]
  /\ widths \in [Handle -> Width] /\ slave \in [Handle -> Width]
  /\ asked \in [Handle -> Width]
  /\ peer \in [Handle -> Peer]
  /\ probed \in [Handle -> BOOLEAN] /\ linked \in [Handle -> BOOLEAN]
  /\ opening \in Handle \cup {None}
  /\ \A h \in Handle : status[h] = "probing" <=> h = opening
  /\ attempts \in 0..(MaxAttempts + 1)
  /\ result \in Result
  /\ net \subseteq Message

\* The largest size that all of the application, its socket and the remote
\* side allow
Best(common) == {x \in common : ~\E y \in common : y > x}

\* On a timely network an open device has, as etherbone.h:410 says, the
\* largest address and data widths that are in the proposal and in the
\* widths of both sockets, and keeps them until it is closed.
LargestCommonWidth ==
  timely =>
    \A h \in Handle : status[h] = "open" /\ probed[h] =>
      LET common == Both(Both(asked[h], local), supports[peer[h]])
      IN widths[h] = [addr |-> Best(common.addr), data |-> Best(common.data)]

\* Both ends of a stream use the same widths, although each computes them on
\* its own and neither ever tells the other (slave.c:138, device.c:162).
SidesAgree ==
  timely =>
    \A h \in Handle :
      status[h] = "open" /\ peer[h] \in Stream /\ linked[h] => slave[h] = widths[h]

\* On a timely network eb_device_open returns EB_WIDTH after a probe only if
\* the proposal and the two sockets have no address width, or no data width,
\* in common.
RefusedOnlyWithoutCommonWidth ==
  [][timely /\ opening # None /\ opening' = None /\ result' = "WIDTH"
       => ~Possible(Both(Both(asked[opening], local), supports[peer[opening]]))]_vars

\* eb_device_open returns, whatever the network and the remote side do.
OpenComesBack == opening # None ~> opening = None

\* What eb_device_flush expects of an active device (master.c:83, the
\* assertion `eb_width_refined(width) != 0' it states in a comment).
AlwaysRefined == \A h \in Handle : status[h] = "open" => Refined(widths[h])

=============================================================================
