------------------------- MODULE EbHandshake_proofs -------------------------
(***************************************************************************)
(* For every set of handles, peers and sizes: the negotiation is type      *)
(* correct on any network, and on a timely one both sides end up with the  *)
(* largest widths they have in common.                                     *)
(***************************************************************************)
EXTENDS EbHandshake, TLAPS

-----------------------------------------------------------------------------
(* Widths.                                                                 *)

LEMMA ZeroWidth == Zero \in Width
  BY DEF Zero, Width

LEMMA BothWidth ==
  ASSUME NEW v \in Width, NEW w \in Width
  PROVE  Both(v, w) \in Width
  BY DEF Both, Width

LEMMA RefineWidth ==
  ASSUME NEW w \in Width
  PROVE  Refine(w) \in Width
  BY DEF Refine, Largest, Width

\* The order in which the two sides intersect does not matter.
LEMMA BothCommutes ==
  ASSUME NEW v, NEW w
  PROVE  Both(v, w) = Both(w, v)
  BY DEF Both

\* A proposal that was cut to the socket's widths stays as it is.
LEMMA BothTwice ==
  ASSUME NEW v, NEW w
  PROVE  Both(Both(v, w), w) = Both(v, w)
  BY DEF Both

\* eb_width_refine picks what no other size exceeds.
LEMMA RefinePicksBest ==
  ASSUME NEW w \in Width
  PROVE  Refine(w) = [addr |-> Best(w.addr), data |-> Best(w.data)]
<1>1. ASSUME NEW S \in SUBSET Size PROVE Largest(S) = Best(S)
  <2>1. \A x, y \in S : x \in Nat /\ y \in Nat
    BY HandshakeAssumption
  <2>2. ASSUME NEW x \in S, NEW y \in S PROVE y <= x <=> ~(y > x)
    BY <2>1
  <2>3. \A x \in S : (\A y \in S : y <= x) <=> ~\E y \in S : y > x
    BY <2>2
  <2> QED
    BY <2>3 DEF Largest, Best
<1>2. w.addr \in SUBSET Size /\ w.data \in SUBSET Size
  BY DEF Width
<1> QED
  BY <1>1, <1>2 DEF Refine

-----------------------------------------------------------------------------
(* Types.                                                                  *)

LEMMA InitTyped == Init => TypeOK
  BY HandshakeAssumption, ZeroWidth DEF Init, TypeOK, Result

LEMMA ClosedTyped ==
  ASSUME TypeOK, NEW h \in Handle, Closed(h)
  PROVE  /\ status' \in [Handle -> {"free", "probing", "open"}]
         /\ linked' \in [Handle -> BOOLEAN]
         /\ net' \subseteq Message
  BY DEF TypeOK, Closed, Forgotten

LEMMA RestTyped ==
  ASSUME TypeOK, NEW m \in net, NEW rest \in Rest(m)
  PROVE  rest \subseteq net
  BY DEF Rest

LEMMA StepTyped == TypeOK /\ [Next]_vars => TypeOK'
<1> SUFFICES ASSUME TypeOK, [Next]_vars PROVE TypeOK'
  OBVIOUS
<1> USE HandshakeAssumption
<1>1. ASSUME NEW w \in Proposal, OpenRefused(w) PROVE TypeOK'
  BY <1>1 DEF OpenRefused, TypeOK, setup, Result
<1>2. ASSUME NEW h \in Handle, NEW q \in Peer, NEW w \in Proposal, NEW n \in 0..MaxAttempts,
             OpenBegin(h, q, w, n)
      PROVE  TypeOK'
  <2>1. Within(w) \in Width
    BY <1>2, BothWidth DEF OpenBegin, TypeOK, Within
  <2>2. Probe(h, q, Within(w)) \in Message
    BY <2>1 DEF Probe, Message
  <2>3. net' \subseteq Message
    BY <1>2, <2>2 DEF OpenBegin, TypeOK
  <2>4. attempts' \in 0..(MaxAttempts + 1)
    BY <1>2 DEF OpenBegin
  <2>5. status' \in [Handle -> {"free", "probing", "open"}]
    BY <1>2 DEF OpenBegin, TypeOK
  <2>6. \A g \in Handle : status'[g] = "probing" <=> g = opening'
    <3>1. \A g \in Handle : status[g] # "probing"
      BY <1>2 DEF OpenBegin, TypeOK
    <3>2. opening' = h /\ status' = [status EXCEPT ![h] = "probing"]
      BY <1>2 DEF OpenBegin
    <3> QED
      BY <3>1, <3>2 DEF TypeOK
  <2>7. /\ widths' \in [Handle -> Width] /\ slave' \in [Handle -> Width]
        /\ asked' \in [Handle -> Width] /\ peer' \in [Handle -> Peer]
        /\ probed' \in [Handle -> BOOLEAN] /\ linked' \in [Handle -> BOOLEAN]
    BY <1>2, <2>1, ZeroWidth DEF OpenBegin, TypeOK
  <2>8. /\ UNCHANGED <<timely, local, supports, result>>
        /\ opening' \in Handle \cup {None}
    BY <1>2 DEF OpenBegin, setup
  <2> QED
    BY <2>3, <2>4, <2>5, <2>6, <2>7, <2>8 DEF TypeOK
<1>3. ASSUME NEW h \in Handle, NEW q \in Peer, NEW w \in Proposal, OpenUnprobed(h, q, w)
      PROVE  TypeOK'
  <2>1. Within(w) \in Width
    BY <1>3, BothWidth DEF OpenUnprobed, TypeOK, Within
  <2>2. /\ UNCHANGED <<timely, local, supports, slave, opening, attempts, net>>
        /\ opening = None
    BY <1>3 DEF OpenUnprobed, setup
  <2>3. CASE Refined(Within(w))
    <3>1. /\ status' = [status EXCEPT ![h] = "open"]
          /\ widths' = [widths EXCEPT ![h] = Within(w)]
          /\ peer' = [peer EXCEPT ![h] = q]
          /\ asked' = [asked EXCEPT ![h] = Within(w)]
          /\ probed' = [probed EXCEPT ![h] = FALSE]
          /\ linked' = [linked EXCEPT ![h] = TRUE]
          /\ result' = "OK"
      BY <1>3, <2>3 DEF OpenUnprobed
    <3>2. \A g \in Handle : status'[g] = "probing" <=> g = opening'
      BY <2>2, <3>1 DEF TypeOK
    <3> QED
      BY <2>1, <2>2, <3>1, <3>2 DEF TypeOK, Result
  <2>4. CASE ~Refined(Within(w))
    <3>1. UNCHANGED <<status, widths, peer, asked, probed, linked>> /\ result' = "WIDTH"
      BY <1>3, <2>4 DEF OpenUnprobed
    <3> QED
      BY <2>2, <3>1 DEF TypeOK, Result
  <2> QED
    BY <2>3, <2>4
<1>4. CASE ProbeAgain
  <2>1. Probe(opening, peer[opening], asked[opening]) \in Message
    BY <1>4 DEF ProbeAgain, TypeOK, Probe, Message
  <2> QED
    BY <1>4, <2>1 DEF ProbeAgain, TypeOK, setup, Forgotten
<1>5. CASE GiveUp
  BY <1>5, ClosedTyped DEF GiveUp, Closed, TypeOK, setup, Result
<1>6. CASE OpenFails
  BY <1>6, ClosedTyped DEF OpenFails, Closed, TypeOK, setup, Result
<1>7. CASE OpenImpossible
  <2>1. Common(opening) \in Width
    BY <1>7, BothWidth DEF OpenImpossible, TypeOK, Common
  <2> QED
    BY <1>7, <2>1, ClosedTyped DEF OpenImpossible, Closed, TypeOK, setup, Result
<1>8. CASE OpenReturns
  <2>1. Refine(Common(opening)) \in Width
    BY <1>8, BothWidth, RefineWidth DEF OpenReturns, TypeOK, Common
  <2> QED
    BY <1>8, <2>1 DEF OpenReturns, TypeOK, setup, Result
<1>9. ASSUME NEW h \in Handle, Close(h) PROVE TypeOK'
  BY <1>9, ClosedTyped DEF Close, Closed, TypeOK, setup
<1>10. ASSUME NEW m \in net, ProbeArrives(m) PROVE TypeOK'
  <2>1. m \in Message
    BY DEF TypeOK
  <2>2. Negotiated(m) \in Width /\ supports[m.peer] \in Width
    BY <2>1, BothWidth, RefineWidth DEF Negotiated, TypeOK, Message
  <2>3. [m EXCEPT !.answer = TRUE, !.widths = supports[m.peer]] \in Message
    BY <2>1, <2>2 DEF Message
  <2>4. net' \subseteq Message
    BY <1>10, <2>3, RestTyped DEF ProbeArrives, TypeOK
  <2> QED
    BY <1>10, <2>1, <2>2, <2>4 DEF ProbeArrives, TypeOK, setup, Message
<1>11. ASSUME NEW m \in net, AnswerArrives(m) PROVE TypeOK'
  <2>1. m \in Message
    BY DEF TypeOK
  <2> QED
    BY <1>11, <2>1, RestTyped DEF AnswerArrives, TypeOK, setup, Message
<1>12. ASSUME NEW m \in net, AnswerUnknown(m) PROVE TypeOK'
  BY <1>12, RestTyped DEF AnswerUnknown, TypeOK, setup
<1>13. ASSUME NEW m \in net, AnswerMisread(m) PROVE TypeOK'
  BY <1>13 DEF AnswerMisread, TypeOK, setup
<1>14. ASSUME NEW h \in Handle, LinkDies(h) PROVE TypeOK'
  BY <1>14 DEF LinkDies, TypeOK, setup
<1>15. ASSUME UNCHANGED vars PROVE TypeOK'
  BY <1>15 DEF vars, TypeOK
<1> QED
  BY <1>1, <1>2, <1>3, <1>4, <1>5, <1>6, <1>7, <1>8, <1>9, <1>10, <1>11, <1>12, <1>13,
     <1>14, <1>15
  DEF Next, Opening

\* Every variable keeps its type, and only the device of the running
\* eb_device_open is neither free nor open, on any network.
THEOREM TypeCorrect == Spec => []TypeOK
  BY InitTyped, StepTyped, PTL DEF Spec

-----------------------------------------------------------------------------
(* The negotiation on a timely network.                                    *)

\* What both ends make of the proposal for h, in whatever order they do it
Agreed(h) == Refine(Both(asked[h], supports[peer[h]]))

\* A message belongs to a device that is being probed, carries what one side
\* told the other, and is answered only after the slave made up its mind.
MessageOK(m) ==
  /\ status[m.tag] = "probing" /\ m.peer = peer[m.tag]
  /\ m.answer => m.widths = supports[m.peer]
  /\ m.answer /\ m.peer \in Stream => slave[m.tag] = Agreed(m.tag)
  /\ ~m.answer => m.widths = asked[m.tag]

\* A device has no widths yet, those of the answer, or the agreed ones.
HandleOK(h) ==
  /\ status[h] # "free" => asked[h] = Both(asked[h], local)
  /\ status[h] = "probing" => probed[h] /\ widths[h] \in {Zero, supports[peer[h]]}
  /\ status[h] = "probing" /\ widths[h] # Zero /\ peer[h] \in Stream => slave[h] = Agreed(h)
  /\ status[h] = "open" /\ probed[h] => widths[h] = Agreed(h)
  /\ status[h] = "open" /\ peer[h] \in Stream => probed[h] /\ slave[h] = Agreed(h)

Negotiation ==
  timely => (\A m \in net : MessageOK(m)) /\ (\A h \in Handle : HandleOK(h))

Inv == TypeOK /\ Negotiation

\* What is said of a device, or of a message to it, survives a step that
\* leaves the device alone.
LEMMA HandleKept ==
  ASSUME NEW h, HandleOK(h), UNCHANGED setup,
         status'[h] = status[h], widths'[h] = widths[h], peer'[h] = peer[h],
         asked'[h] = asked[h], probed'[h] = probed[h], slave'[h] = slave[h]
  PROVE  HandleOK(h)'
  BY DEF HandleOK, Agreed, setup, Refine, Both

LEMMA MessageKept ==
  ASSUME NEW m, MessageOK(m), UNCHANGED setup,
         status'[m.tag] = status[m.tag], peer'[m.tag] = peer[m.tag],
         asked'[m.tag] = asked[m.tag], slave'[m.tag] = slave[m.tag]
  PROVE  MessageOK(m)'
  BY DEF MessageOK, Agreed, setup, Refine, Both

\* A handle that is free says nothing.
LEMMA FreeHandle ==
  ASSUME NEW h, status[h] = "free"
  PROVE  HandleOK(h)
  BY DEF HandleOK

\* A step that closes the device h and leaves the others as they are
LEMMA CloseKept ==
  ASSUME Inv, timely, UNCHANGED setup, NEW h \in Handle, Closed(h),
         UNCHANGED <<peer, asked, probed, slave>>,
         \A g \in Handle \ {h} : widths'[g] = widths[g]
  PROVE  Negotiation'
<1> DEFINE gone == {m \in net : m.tag = h}
<1>1. status' = [status EXCEPT ![h] = "free"] /\ net' = net \ gone
  BY DEF Closed, Forgotten
<1>2. ASSUME NEW m \in net' PROVE MessageOK(m)'
  <2>1. m \in net /\ m.tag # h /\ m.tag \in Handle
    BY <1>1 DEF Inv, TypeOK, Message
  <2>2. status'[m.tag] = status[m.tag]
    BY <1>1, <2>1 DEF Inv, TypeOK
  <2> QED
    BY <2>1, <2>2, MessageKept DEF Inv, Negotiation
<1>3. ASSUME NEW g \in Handle PROVE HandleOK(g)'
  <2>1. CASE g = h
    BY <1>1, <2>1 DEF Inv, TypeOK, HandleOK
  <2>2. CASE g # h
    <3>1. status'[g] = status[g] /\ widths'[g] = widths[g]
      BY <1>1, <2>2 DEF Inv, TypeOK
    <3> QED
      BY <3>1, HandleKept DEF Inv, Negotiation
  <2> QED
    BY <2>1, <2>2
<1> QED
  BY <1>2, <1>3 DEF Negotiation

\* On a timely network delivery takes the message away and no other.
LEMMA TimelyRest ==
  ASSUME timely, NEW m, NEW rest \in Rest(m)
  PROVE  rest = net \ {m}
  BY DEF Rest

LEMMA InitNegotiates == Init => Negotiation
  BY DEF Init, Negotiation, HandleOK

\* Neither the network nor the widths of the sockets change.
LEMMA SetupFixed == [Next]_vars => UNCHANGED setup
  BY DEF Next, vars, setup, OpenRefused, OpenBegin, OpenUnprobed, Opening, ProbeAgain,
     GiveUp, OpenFails, OpenImpossible, OpenReturns, Close, ProbeArrives, AnswerArrives,
     AnswerUnknown, AnswerMisread, LinkDies

LEMMA StepNegotiates == Inv /\ [Next]_vars => Negotiation'
<1> SUFFICES ASSUME Inv, [Next]_vars, timely PROVE Negotiation'
  BY SetupFixed DEF Negotiation, setup
<1> USE HandshakeAssumption
<1>a. \A m \in net : MessageOK(m) /\ m \in Message /\ m.tag \in Handle
  BY DEF Inv, Negotiation, TypeOK, Message
<1>b. \A h \in Handle : HandleOK(h)
  BY DEF Inv, Negotiation
<1>1. ASSUME NEW w \in Proposal, OpenRefused(w) PROVE Negotiation'
  BY <1>1, <1>a, <1>b, HandleKept, MessageKept DEF OpenRefused, Negotiation
<1>2. ASSUME NEW h \in Handle, NEW q \in Peer, NEW w \in Proposal, NEW n \in 0..MaxAttempts,
             OpenBegin(h, q, w, n)
      PROVE  Negotiation'
  <2>0. PICK probe : probe = Probe(h, q, Within(w))
    OBVIOUS
  <2>1. /\ status[h] = "free" /\ UNCHANGED setup
        /\ status' = [status EXCEPT ![h] = "probing"]
        /\ widths' = [widths EXCEPT ![h] = Zero]
        /\ peer' = [peer EXCEPT ![h] = q]
        /\ asked' = [asked EXCEPT ![h] = Within(w)]
        /\ probed' = [probed EXCEPT ![h] = TRUE]
        /\ slave' = [slave EXCEPT ![h] = Zero]
        /\ net' = net \cup {probe}
    BY <1>2, <2>0 DEF OpenBegin
  <2>2. ASSUME NEW m \in net PROVE MessageOK(m)'
    <3>1. m.tag # h
      BY <1>a, <2>1 DEF MessageOK
    <3> QED
      BY <1>a, <2>1, <3>1, MessageKept DEF Inv, TypeOK
  <2>3. MessageOK(probe)'
    <3>1. /\ probe.tag = h /\ probe.peer = q /\ ~probe.answer
          /\ probe.widths = Within(w)
      BY <2>0 DEF Probe
    <3>2. status'[h] = "probing" /\ peer'[h] = q /\ asked'[h] = Within(w)
      BY <2>1 DEF Inv, TypeOK
    <3> QED
      BY <3>1, <3>2 DEF MessageOK
  <2>4. ASSUME NEW g \in Handle PROVE HandleOK(g)'
    <3>1. CASE g = h
      <4>1. /\ status'[h] = "probing" /\ widths'[h] = Zero /\ probed'[h]
            /\ asked'[h] = Within(w) /\ local' = local
        BY <2>1 DEF Inv, TypeOK, setup
      <4> QED
        BY <3>1, <4>1, BothTwice DEF HandleOK, Within
    <3>2. CASE g # h
      BY <1>b, <2>1, <3>2, HandleKept DEF Inv, TypeOK
    <3> QED
      BY <3>1, <3>2
  <2> QED
    BY <2>1, <2>2, <2>3, <2>4 DEF Negotiation
<1>3. ASSUME NEW h \in Handle, NEW q \in Peer, NEW w \in Proposal, OpenUnprobed(h, q, w)
      PROVE  Negotiation'
  <2>1. UNCHANGED <<slave, net>> /\ UNCHANGED setup /\ status[h] = "free" /\ q \notin Stream
    BY <1>3 DEF OpenUnprobed
  <2>2. CASE Refined(Within(w))
    <3>1. /\ status' = [status EXCEPT ![h] = "open"]
          /\ widths' = [widths EXCEPT ![h] = Within(w)]
          /\ peer' = [peer EXCEPT ![h] = q]
          /\ asked' = [asked EXCEPT ![h] = Within(w)]
          /\ probed' = [probed EXCEPT ![h] = FALSE]
      BY <1>3, <2>2 DEF OpenUnprobed
    <3>2. ASSUME NEW m \in net PROVE MessageOK(m)'
      <4>1. m.tag # h
        BY <1>a, <2>1 DEF MessageOK
      <4> QED
        BY <1>a, <2>1, <3>1, <4>1, MessageKept DEF Inv, TypeOK
    <3>3. ASSUME NEW g \in Handle PROVE HandleOK(g)'
      <4>1. CASE g = h
        <5>1. /\ status'[h] = "open" /\ ~probed'[h] /\ peer'[h] \notin Stream
              /\ asked'[h] = Within(w) /\ local' = local
          BY <2>1, <3>1 DEF Inv, TypeOK, setup
        <5> QED
          BY <4>1, <5>1, BothTwice DEF HandleOK, Within
      <4>2. CASE g # h
        BY <1>b, <2>1, <3>1, <4>2, HandleKept DEF Inv, TypeOK
      <4> QED
        BY <4>1, <4>2
    <3> QED
      BY <2>1, <3>2, <3>3 DEF Negotiation
  <2>3. CASE ~Refined(Within(w))
    BY <1>3, <1>a, <1>b, <2>3, HandleKept, MessageKept DEF OpenUnprobed, Negotiation
  <2> QED
    BY <2>2, <2>3
<1>4. CASE ProbeAgain
  <2>0. PICK probe : probe = Probe(opening, peer[opening], asked[opening])
    OBVIOUS
  <2>1. /\ UNCHANGED <<status, widths, peer, asked, probed, slave>> /\ UNCHANGED setup
        /\ \A m \in net' : m \in net \/ m = probe
        /\ status[opening] = "probing"
    BY <1>4, <2>0 DEF ProbeAgain, Inv, TypeOK
  <2>2. MessageOK(probe)'
    <3>1. /\ probe.tag = opening /\ probe.peer = peer[opening] /\ ~probe.answer
          /\ probe.widths = asked[opening]
      BY <2>0 DEF Probe
    <3> QED
      BY <2>1, <3>1 DEF MessageOK
  <2> QED
    BY <1>a, <1>b, <2>1, <2>2, HandleKept, MessageKept DEF Negotiation
<1>5. CASE GiveUp
  BY <1>5, CloseKept DEF GiveUp, Inv, TypeOK
<1>6. CASE OpenFails
  BY <1>6, CloseKept DEF OpenFails, Inv, TypeOK
<1>7. CASE OpenImpossible
  BY <1>7, CloseKept DEF OpenImpossible, Inv, TypeOK
<1>8. CASE OpenReturns
  <2>1. /\ UNCHANGED <<peer, asked, probed, slave>> /\ UNCHANGED setup
        /\ opening \in Handle /\ status[opening] = "probing" /\ widths[opening] # Zero
        /\ widths' = [widths EXCEPT ![opening] = Refine(Common(opening))]
        /\ status' = [status EXCEPT ![opening] = "open"]
        /\ net' = net \ {m \in net : m.tag = opening}
    BY <1>8 DEF OpenReturns, Inv, TypeOK
  <2>2. ASSUME NEW m \in net' PROVE MessageOK(m)'
    <3>1. m \in net /\ m.tag # opening
      BY <2>1
    <3> QED
      BY <1>a, <2>1, <3>1, MessageKept DEF Inv, TypeOK
  <2>3. ASSUME NEW h \in Handle PROVE HandleOK(h)'
    <3>1. CASE h = opening
      <4>1. /\ HandleOK(h) /\ status[h] = "probing" /\ widths[h] # Zero
        BY <1>b, <2>1, <3>1
      <4>2. /\ widths[h] = supports[peer[h]] /\ probed[h]
            /\ asked[h] = Both(asked[h], local)
            /\ peer[h] \in Stream => slave[h] = Agreed(h)
        BY <4>1 DEF HandleOK
      <4>3. Refine(Common(h)) = Agreed(h)
        BY <4>2, BothCommutes DEF Common, Agreed
      <4>4. status'[h] = "open" /\ widths'[h] = Agreed(h)
        BY <2>1, <3>1, <4>3 DEF Inv, TypeOK
      <4>5. Agreed(h)' = Agreed(h) /\ local' = local
        BY <2>1 DEF Agreed, setup, Refine, Both
      <4> QED
        BY <2>1, <4>2, <4>4, <4>5 DEF HandleOK
    <3>2. CASE h # opening
      BY <1>b, <2>1, <3>2, HandleKept DEF Inv, TypeOK
    <3> QED
      BY <3>1, <3>2
  <2> QED
    BY <2>2, <2>3 DEF Negotiation
<1>9. ASSUME NEW h \in Handle, Close(h) PROVE Negotiation'
  BY <1>9, CloseKept DEF Close
<1>10. ASSUME NEW m \in net, ProbeArrives(m) PROVE Negotiation'
  <2> DEFINE h == m.tag
  <2>0. PICK reply : reply = [m EXCEPT !.answer = TRUE, !.widths = supports[m.peer]]
    OBVIOUS
  <2>1. /\ MessageOK(m) /\ ~m.answer /\ m \in Message /\ h \in Handle
        /\ status[h] = "probing" /\ m.peer = peer[h] /\ m.widths = asked[h]
    BY <1>10, <1>a DEF ProbeArrives, MessageOK
  <2>2. Negotiated(m) = Agreed(h)
    BY <2>1 DEF Negotiated, Agreed
  <2>3. /\ UNCHANGED <<status, widths, peer, asked, probed>> /\ UNCHANGED setup
        /\ slave' = IF m.peer \in Stream THEN [slave EXCEPT ![h] = Agreed(h)] ELSE slave
    BY <1>10, <2>2 DEF ProbeArrives
  <2>4. net' = (net \ {m}) \cup {reply}
    BY <1>10, <2>0, TimelyRest DEF ProbeArrives
  <2>5. \A g : Agreed(g)' = Agreed(g)
    BY <2>3 DEF Agreed, setup, Refine, Both
  <2>6. /\ \A g \in Handle : g # h => slave'[g] = slave[g]
        /\ peer[h] \in Stream => slave'[h] = Agreed(h)
        /\ peer[h] \notin Stream => slave' = slave
    BY <2>1, <2>3 DEF Inv, TypeOK
  <2>7. ASSUME NEW k \in net PROVE MessageOK(k)'
    <3>1. MessageOK(k) /\ k.tag \in Handle
      BY <1>a
    <3>2. CASE k.tag # h
      BY <2>3, <2>6, <3>1, <3>2, MessageKept
    <3>3. CASE k.tag = h
      BY <2>3, <2>5, <2>6, <3>1, <3>3 DEF MessageOK, setup
    <3> QED
      BY <3>2, <3>3
  <2>8. MessageOK(reply)'
    <3>1. /\ reply.tag = h /\ reply.peer = m.peer /\ reply.answer
          /\ reply.widths = supports[m.peer]
      BY <2>0, <2>1 DEF Message
    <3> QED
      BY <2>1, <2>3, <2>5, <2>6, <3>1 DEF MessageOK, setup
  <2>9. ASSUME NEW g \in Handle PROVE HandleOK(g)'
    <3>1. CASE g # h
      BY <1>b, <2>3, <2>6, <3>1, HandleKept
    <3>2. CASE g = h
      BY <1>b, <2>1, <2>3, <2>5, <2>6, <3>2 DEF HandleOK, setup
    <3> QED
      BY <3>1, <3>2
  <2> QED
    BY <2>4, <2>7, <2>8, <2>9 DEF Negotiation
<1>11. ASSUME NEW m \in net, AnswerArrives(m) PROVE Negotiation'
  <2> DEFINE h == m.tag
  <2>1. /\ MessageOK(m) /\ m.answer /\ h \in Handle
        /\ status[h] = "probing" /\ m.peer = peer[h] /\ m.widths = supports[peer[h]]
        /\ peer[h] \in Stream => slave[h] = Agreed(h)
    BY <1>11, <1>a DEF AnswerArrives, MessageOK
  <2>2. /\ UNCHANGED <<status, peer, asked, probed, slave>> /\ UNCHANGED setup
        /\ widths' = [widths EXCEPT ![h] = supports[peer[h]]]
        /\ net' \subseteq net
    BY <1>11, <2>1, RestTyped DEF AnswerArrives, Inv
  <2>3. Agreed(h)' = Agreed(h)
    BY <2>2 DEF Agreed, setup, Refine, Both
  <2>4. ASSUME NEW g \in Handle PROVE HandleOK(g)'
    <3>1. CASE g # h
      BY <1>b, <2>2, <3>1, HandleKept DEF Inv, TypeOK
    <3>2. CASE g = h
      <4>1. widths'[h] = supports[peer[h]]
        BY <2>1, <2>2 DEF Inv, TypeOK
      <4> QED
        BY <1>b, <2>1, <2>2, <2>3, <3>2, <4>1 DEF HandleOK, setup
    <3> QED
      BY <3>1, <3>2
  <2>5. \A k \in net' : MessageOK(k)'
    BY <1>a, <2>2, MessageKept
  <2> QED
    BY <2>4, <2>5 DEF Negotiation
<1>12. ASSUME NEW m \in net, AnswerUnknown(m) PROVE Negotiation'
  <2>1. net' \subseteq net
    BY <1>12, RestTyped DEF AnswerUnknown, Inv
  <2> QED
    BY <1>12, <1>a, <1>b, <2>1, HandleKept, MessageKept DEF AnswerUnknown, Negotiation
<1>13. ASSUME NEW m \in net, AnswerMisread(m) PROVE Negotiation'
  BY <1>13, <1>a, <1>b, HandleKept, MessageKept DEF AnswerMisread, Negotiation
<1>14. ASSUME NEW h \in Handle, LinkDies(h) PROVE Negotiation'
  BY <1>14, <1>a, <1>b, HandleKept, MessageKept DEF LinkDies, Negotiation
<1>15. ASSUME UNCHANGED vars PROVE Negotiation'
  BY <1>15, <1>a, <1>b, HandleKept, MessageKept DEF vars, setup, Negotiation
<1> QED
  BY ONLY [Next]_vars, <1>1, <1>2, <1>3, <1>4, <1>5, <1>6, <1>7, <1>8, <1>9, <1>10, <1>11,
     <1>12, <1>13, <1>14, <1>15
  DEF Next, Opening

LEMMA InitInv == Init => Inv
  BY InitTyped, InitNegotiates DEF Inv

LEMMA StepInv == Inv /\ [Next]_vars => Inv'
  BY StepTyped, StepNegotiates DEF Inv

\* The widths both ends agreed on are the largest that are in the proposal
\* and in the widths of both sockets.
LEMMA AgreedIsBest ==
  ASSUME TypeOK, NEW h \in Handle, asked[h] = Both(asked[h], local)
  PROVE  LET common == Both(Both(asked[h], local), supports[peer[h]])
         IN Agreed(h) = [addr |-> Best(common.addr), data |-> Best(common.data)]
<1>1. supports[peer[h]] \in Width /\ asked[h] \in Width
  BY DEF TypeOK
<1>2. Both(asked[h], supports[peer[h]]) \in Width
  BY <1>1, BothWidth
<1> QED
  BY <1>2, RefinePicksBest DEF Agreed

\* On a timely network an open device that was probed has the largest widths
\* in the proposal and in the sockets of both sides, for any set of sizes.
THEOREM LargestWidths == Spec => []LargestCommonWidth
<1>1. Inv => LargestCommonWidth
  <2> SUFFICES ASSUME Inv, timely, NEW h \in Handle, status[h] = "open", probed[h]
               PROVE  LET common == Both(Both(asked[h], local), supports[peer[h]])
                      IN widths[h] = [addr |-> Best(common.addr), data |-> Best(common.data)]
    BY DEF LargestCommonWidth
  <2>1. widths[h] = Agreed(h) /\ asked[h] = Both(asked[h], local)
    BY DEF Inv, Negotiation, HandleOK
  <2> QED
    BY <2>1, AgreedIsBest DEF Inv
<1> QED
  BY InitInv, StepInv, <1>1, PTL DEF Spec

\* On a timely network the two ends of a stream never use different widths.
THEOREM StreamSidesAgree == Spec => []SidesAgree
<1>1. Inv => SidesAgree
  BY DEF Inv, Negotiation, HandleOK, SidesAgree
<1> QED
  BY InitInv, StepInv, <1>1, PTL DEF Spec

\* On a timely network a probe ends with EB_WIDTH only for want of a common
\* address width or a common data width.
THEOREM RefusalJustified == Spec => RefusedOnlyWithoutCommonWidth
<1> DEFINE Refusal ==
      timely /\ opening # None /\ opening' = None /\ result' = "WIDTH"
        => ~Possible(Both(Both(asked[opening], local), supports[peer[opening]]))
<1>1. Inv /\ [Next]_vars => [Refusal]_vars
  <2> SUFFICES ASSUME Inv, Next, timely, opening # None, opening' = None, result' = "WIDTH"
               PROVE  ~Possible(Both(Both(asked[opening], local), supports[peer[opening]]))
    OBVIOUS
  <2>1. OpenImpossible
    BY DEF Next, OpenRefused, OpenBegin, OpenUnprobed, Opening, ProbeAgain, GiveUp,
       OpenFails, OpenReturns, Close, ProbeArrives, AnswerArrives, AnswerUnknown,
       AnswerMisread, LinkDies
  <2>2. /\ opening \in Handle /\ status[opening] = "probing" /\ HandleOK(opening)
        /\ widths[opening] # Zero /\ ~Possible(Common(opening))
    BY <2>1 DEF OpenImpossible, Inv, TypeOK, Negotiation
  <2>3. widths[opening] = supports[peer[opening]] /\ asked[opening] = Both(asked[opening], local)
    BY <2>2 DEF HandleOK
  <2> QED
    BY <2>2, <2>3, BothCommutes DEF Common
<1> QED
  BY InitInv, StepInv, <1>1, PTL DEF Spec, RefusedOnlyWithoutCommonWidth

=============================================================================
