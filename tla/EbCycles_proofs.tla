--------------------------- MODULE EbCycles_proofs ---------------------------
(***************************************************************************)
(* The cycles of the library, for any number of cycles, devices and        *)
(* operations and any values of the bounds.  Three parts, each of which    *)
(* uses the ones before:                                                   *)
(*                                                                         *)
(* 1. The lists keep every cycle exactly once, and so no callback is       *)
(*    called twice.                                                        *)
(*                                                                         *)
(* 2. Responses stay in the order of their deadlines, which                *)
(*    eb_socket_check relies on, and the cycles of a device are sent in    *)
(*    the order they were closed.  Both are orders of lists that the       *)
(*    library pushes to, flips, joins, filters and cuts; the part begins   *)
(*    with what these do to an order.                                      *)
(*                                                                         *)
(* 3. What the application may rely on when no callback of a flush closes  *)
(*    a cycle on the device that is being flushed.  First EB_BUSY: with    *)
(*    fewer cycles than the counter eb_device.unready can tell apart,      *)
(*    eb_device_close begins only when none is open on the device, and     *)
(*    none is opened later (with more it may: EbCyclesUnready).  Next the  *)
(*    refinement of CyclePromise, which rests on it.  Last, answers: they  *)
(*    reach the cycles they answer, and a remote side that follows the     *)
(*    protocol is not blamed, however its answers are lost, repeated,      *)
(*    delayed or overtaken, as long as no response address is given out a  *)
(*    second time.                                                         *)
(***************************************************************************)
EXTENDS EbCycles, FiniteSetTheorems, TLAPS

(* Part 1: lists and callbacks.                                            *)

-----------------------------------------------------------------------------
(* What the operations on lists do to the set of their elements.           *)

LEMMA HoldsEmpty == Holds(<<>>, {})
  BY DEF Holds

LEMMA HoldsNothing ==
  ASSUME NEW S, NEW s \in Seq(S), Holds(s, {})
  PROVE  s = <<>>
<1>1. Len(s) = 0
  BY DEF Holds
<1> QED
  BY <1>1

LEMMA EmptyHolds ==
  ASSUME NEW S, Holds(<<>>, S)
  PROVE  S = {}
  BY DEF Holds

LEMMA HoldsTail ==
  ASSUME NEW T, NEW S, NEW s \in Seq(T), Holds(s, S), s # <<>>
  PROVE  /\ Head(s) \in S
         /\ Tail(s) \in Seq(T)
         /\ Holds(Tail(s), S \ {Head(s)})
<1>1. Len(s) \in Nat /\ Len(s) # 0
  OBVIOUS
<1>2. /\ Tail(s) \in Seq(T)
      /\ DOMAIN Tail(s) = 1..Len(s)-1
      /\ \A i \in 1..Len(s)-1 : Tail(s)[i] = s[i + 1]
      /\ Head(s) = s[1]
  BY <1>1
<1>3. \A i \in DOMAIN Tail(s) : Tail(s)[i] \in S \ {Head(s)}
  <2> SUFFICES ASSUME NEW i \in 1..Len(s)-1 PROVE s[i + 1] \in S \ {s[1]}
    BY <1>2
  <2> QED
    BY <1>1 DEF Holds
<1>4. \A x \in S \ {Head(s)} : \E i \in DOMAIN Tail(s) : Tail(s)[i] = x
  <2> SUFFICES ASSUME NEW x \in S, x # s[1] PROVE \E i \in 1..Len(s)-1 : s[i + 1] = x
    BY <1>2
  <2>1. PICK j \in 1..Len(s) : s[j] = x
    BY DEF Holds
  <2>2. j - 1 \in 1..Len(s)-1 /\ s[(j - 1) + 1] = x
    BY <1>1, <2>1
  <2> QED
    BY <2>2
<1>5. \A i, j \in DOMAIN Tail(s) : Tail(s)[i] = Tail(s)[j] => i = j
  <2> SUFFICES ASSUME NEW i \in 1..Len(s)-1, NEW j \in 1..Len(s)-1, s[i + 1] = s[j + 1]
               PROVE  i = j
    BY <1>2
  <2> QED
    BY <1>1 DEF Holds
<1>6. Head(s) \in S
  BY <1>1, <1>2 DEF Holds
<1> QED
  BY <1>2, <1>3, <1>4, <1>5, <1>6 DEF Holds

LEMMA HoldsConcat ==
  ASSUME NEW T, NEW A, NEW B, NEW s \in Seq(T), NEW t \in Seq(T),
         Holds(s, A), Holds(t, B), A \cap B = {}
  PROVE  /\ s \o t \in Seq(T)
         /\ Holds(s \o t, A \cup B)
<1>1. Len(s) \in Nat /\ Len(t) \in Nat
  OBVIOUS
<1>2. /\ s \o t \in Seq(T)
      /\ Len(s \o t) = Len(s) + Len(t)
      /\ \A i \in 1..Len(s)+Len(t) : (s \o t)[i] = IF i <= Len(s) THEN s[i] ELSE t[i - Len(s)]
  BY <1>1
<1>3. \A i \in 1..Len(s) : s[i] \in A
  BY DEF Holds
<1>4. \A i \in 1..Len(t) : t[i] \in B
  BY DEF Holds
<1>5. \A i \in DOMAIN (s \o t) : (s \o t)[i] \in A \cup B
  <2> SUFFICES ASSUME NEW i \in 1..Len(s)+Len(t) PROVE (s \o t)[i] \in A \cup B
    BY <1>2
  <2> QED
    BY <1>1, <1>2, <1>3, <1>4
<1>6. \A x \in A \cup B : \E i \in DOMAIN (s \o t) : (s \o t)[i] = x
  <2> SUFFICES ASSUME NEW x \in A \cup B
               PROVE  \E i \in 1..Len(s)+Len(t) : (s \o t)[i] = x
    BY <1>2
  <2>1. CASE x \in A
    <3>1. PICK i \in 1..Len(s) : s[i] = x
      BY <2>1 DEF Holds
    <3> QED
      BY <1>1, <1>2, <3>1
  <2>2. CASE x \in B
    <3>1. PICK i \in 1..Len(t) : t[i] = x
      BY <2>2 DEF Holds
    <3>2. i + Len(s) \in 1..Len(s)+Len(t) /\ (s \o t)[i + Len(s)] = x
      BY <1>1, <1>2, <3>1
    <3> QED
      BY <3>2
  <2> QED
    BY <2>1, <2>2
<1>7. \A i, j \in DOMAIN (s \o t) : (s \o t)[i] = (s \o t)[j] => i = j
  <2> SUFFICES ASSUME NEW i \in 1..Len(s)+Len(t), NEW j \in 1..Len(s)+Len(t),
                      (s \o t)[i] = (s \o t)[j]
               PROVE  i = j
    BY <1>2
  <2>1. CASE i <= Len(s) /\ j <= Len(s)
    BY <1>1, <1>2, <2>1 DEF Holds
  <2>2. CASE i > Len(s) /\ j > Len(s)
    <3>1. t[i - Len(s)] = t[j - Len(s)] /\ i - Len(s) \in 1..Len(t) /\ j - Len(s) \in 1..Len(t)
      BY <1>1, <1>2, <2>2
    <3>2. i - Len(s) = j - Len(s)
      BY <3>1 DEF Holds
    <3> QED
      BY <1>1, <3>2
  <2>3. CASE i <= Len(s) /\ j > Len(s)
    BY <1>1, <1>2, <1>3, <1>4, <2>3
  <2>4. CASE i > Len(s) /\ j <= Len(s)
    BY <1>1, <1>2, <1>3, <1>4, <2>4
  <2> QED
    BY <1>1, <2>1, <2>2, <2>3, <2>4
<1> QED
  BY <1>2, <1>5, <1>6, <1>7 DEF Holds

LEMMA HoldsCons ==
  ASSUME NEW T, NEW S, NEW s \in Seq(T), NEW x \in T, Holds(s, S), x \notin S
  PROVE  /\ <<x>> \o s \in Seq(T)
         /\ Holds(<<x>> \o s, S \cup {x})
<1>1. <<x>> \in Seq(T) /\ Holds(<<x>>, {x})
  BY DEF Holds
<1>2. {x} \cap S = {} /\ {x} \cup S = S \cup {x}
  OBVIOUS
<1>3. <<x>> \o s \in Seq(T) /\ Holds(<<x>> \o s, {x} \cup S)
  BY ONLY <1>1, <1>2, HoldsConcat, s \in Seq(T), Holds(s, S)
<1> QED
  BY <1>2, <1>3

LEMMA HoldsFlipped ==
  ASSUME NEW T, NEW S, NEW s \in Seq(T), Holds(s, S)
  PROVE  /\ Flipped(s) \in Seq(T)
         /\ Holds(Flipped(s), S)
<1>1. Len(s) \in Nat
  OBVIOUS
<1>2. /\ DOMAIN Flipped(s) = 1..Len(s)
      /\ \A i \in 1..Len(s) : Flipped(s)[i] = s[Len(s) + 1 - i]
  BY DEF Flipped
<1>3. Flipped(s) \in Seq(T)
  BY <1>1 DEF Flipped
<1>4. \A i \in 1..Len(s) : Len(s) + 1 - i \in 1..Len(s)
  BY <1>1
<1>5. \A i \in DOMAIN Flipped(s) : Flipped(s)[i] \in S
  BY <1>2, <1>4 DEF Holds
<1>6. \A x \in S : \E i \in DOMAIN Flipped(s) : Flipped(s)[i] = x
  <2> SUFFICES ASSUME NEW x \in S PROVE \E i \in 1..Len(s) : s[Len(s) + 1 - i] = x
    BY <1>2
  <2>1. PICK j \in 1..Len(s) : s[j] = x
    BY DEF Holds
  <2>2. Len(s) + 1 - (Len(s) + 1 - j) = j
    BY <1>1
  <2> QED
    BY <1>4, <2>1, <2>2
<1>7. \A i, j \in DOMAIN Flipped(s) : Flipped(s)[i] = Flipped(s)[j] => i = j
  <2> SUFFICES ASSUME NEW i \in 1..Len(s), NEW j \in 1..Len(s),
                      s[Len(s) + 1 - i] = s[Len(s) + 1 - j]
               PROVE  i = j
    BY <1>2
  <2>1. Len(s) + 1 - i = Len(s) + 1 - j
    BY <1>4 DEF Holds
  <2> QED
    BY <1>1, <2>1
<1> QED
  BY <1>3, <1>5, <1>6, <1>7 DEF Holds

LEMMA HoldsWithout ==
  ASSUME NEW T, NEW S, NEW s \in Seq(T), Holds(s, S), NEW k \in 1..Len(s)
  PROVE  /\ Without(s, k) \in Seq(T)
         /\ Holds(Without(s, k), S \ {s[k]})
<1> DEFINE a == SubSeq(s, 1, k - 1)
           b == SubSeq(s, k + 1, Len(s))
           A == {s[i] : i \in 1..k-1}
           B == {s[i] : i \in k+1..Len(s)}
<1>1. Len(s) \in Nat /\ k \in Nat /\ 1 <= k /\ k <= Len(s)
  OBVIOUS
<1>2. /\ a \in Seq(T) /\ Len(a) = k - 1
      /\ \A i \in 1..k-1 : a[i] = s[i]
  BY <1>1
<1>3. /\ b \in Seq(T) /\ Len(b) = Len(s) - k
      /\ \A i \in 1..Len(s)-k : b[i] = s[i + k]
  BY <1>1
<1>4. Holds(a, A)
  <2>1. DOMAIN a = 1..k-1
    BY <1>2
  <2>2. \A i, j \in DOMAIN a : a[i] = a[j] => i = j
    BY <1>1, <1>2, <2>1 DEF Holds
  <2>3. \A i \in DOMAIN a : a[i] \in A
    BY <1>2, <2>1
  <2>4. \A x \in A : \E i \in DOMAIN a : a[i] = x
    BY <1>2, <2>1
  <2> HIDE DEF a, A
  <2> QED
    BY <2>2, <2>3, <2>4 DEF Holds
<1>5. Holds(b, B)
  <2>1. DOMAIN b = 1..Len(s)-k
    BY <1>1, <1>3
  <2>2. \A i, j \in DOMAIN b : b[i] = b[j] => i = j
    <3> SUFFICES ASSUME NEW i \in 1..Len(s)-k, NEW j \in 1..Len(s)-k, s[i + k] = s[j + k]
                 PROVE  i = j
      BY <1>3, <2>1
    <3> QED
      BY <1>1 DEF Holds
  <2>3. \A i \in DOMAIN b : b[i] \in B
    <3> SUFFICES ASSUME NEW i \in 1..Len(s)-k PROVE s[i + k] \in B
      BY <1>3, <2>1
    <3>1. i + k \in k+1..Len(s)
      BY <1>1
    <3> QED
      BY <3>1
  <2>4. \A x \in B : \E i \in DOMAIN b : b[i] = x
    <3>0. DOMAIN b = 1..Len(s)-k /\ \A j \in 1..Len(s)-k : b[j] = s[j + k]
      BY <1>3, <2>1
    <3>1. ASSUME NEW i \in k+1..Len(s) PROVE \E j \in DOMAIN b : b[j] = s[i]
      <4>1. i - k \in 1..Len(s)-k /\ (i - k) + k = i
        BY ONLY <1>1, <3>1
      <4>2. i - k \in DOMAIN b /\ b[i - k] = s[i]
        BY ONLY <3>0, <4>1
      <4> HIDE DEF b
      <4> QED
        BY ONLY <4>2
    <3> HIDE DEF b
    <3> QED
      BY <3>1
  <2> HIDE DEF b, B
  <2> QED
    BY <2>2, <2>3, <2>4 DEF Holds
<1>6. A \cap B = {}
  BY <1>1 DEF Holds
<1>7. A \cup B = S \ {s[k]}
  <2>1. \A x \in A \cup B : x \in S /\ x # s[k]
    BY <1>1 DEF Holds
  <2>2. \A x \in S : x # s[k] => x \in A \cup B
    <3> SUFFICES ASSUME NEW i \in 1..Len(s), s[i] # s[k] PROVE s[i] \in A \cup B
      BY DEF Holds
    <3>1. i \in 1..k-1 \/ i \in k+1..Len(s)
      BY <1>1
    <3> QED
      BY <3>1
  <2> QED
    BY <2>1, <2>2
<1> HIDE DEF a, b, A, B
<1>8. a \o b \in Seq(T) /\ Holds(a \o b, A \cup B)
  BY <1>2, <1>3, <1>4, <1>5, <1>6, HoldsConcat
<1> QED
  BY <1>7, <1>8 DEF Without, a, b

-----------------------------------------------------------------------------
(* Type correctness.                                                       *)

LEMMA ListTypes ==
  ASSUME NEW T, NEW s \in Seq(T)
  PROVE  /\ Flipped(s) \in Seq(T)
         /\ \A k \in 1..Len(s) : Without(s, k) \in Seq(T)
         /\ s # <<>> => Head(s) \in T /\ Tail(s) \in Seq(T)
         /\ \A x \in T : <<x>> \o s \in Seq(T)
         /\ \A t \in Seq(T) : s \o t \in Seq(T)
<1>1. Flipped(s) \in Seq(T)
  <2>1. Len(s) \in Nat /\ \A i \in 1..Len(s) : Len(s) + 1 - i \in 1..Len(s)
    OBVIOUS
  <2> QED
    BY <2>1 DEF Flipped
<1>2. ASSUME NEW k \in 1..Len(s) PROVE Without(s, k) \in Seq(T)
  <2>1. SubSeq(s, 1, k - 1) \in Seq(T) /\ SubSeq(s, k + 1, Len(s)) \in Seq(T)
    OBVIOUS
  <2> QED
    BY <2>1 DEF Without
<1> QED
  BY <1>1, <1>2

\* The counters stay in their ranges when they wrap.
LEMMA Wraps ==
  ASSUME NEW n \in Int, NEW m \in Nat \ {0}
  PROVE  n % m \in 0..m-1
  OBVIOUS

LEMMA UnreadyWraps ==
  ASSUME TypeOK, NEW d \in Device
  PROVE  /\ (unready[d] + 1) % UnreadyMod \in 0..UnreadyMod-1
         /\ (unready[d] - 1) % UnreadyMod \in 0..UnreadyMod-1
<1>1. unready[d] \in Int /\ UnreadyMod \in Nat \ {0}
  BY CycleAssumption DEF TypeOK
<1>2. unready[d] + 1 \in Int /\ unready[d] - 1 \in Int
  BY ONLY <1>1
<1> QED
  BY ONLY <1>1, <1>2, Wraps

LEMMA CallTyped ==
  ASSUME TypeOK, NEW c \in Cycle, NEW s \in Status, Call(c, s)
  PROVE  /\ running' \in Cycle
         /\ at' \in [Cycle -> Place]
         /\ calls' \in [Cycle -> Nat]
         /\ status' \in [Cycle -> Status]
<1>1. /\ at \in [Cycle -> Place] /\ calls \in [Cycle -> Nat]
      /\ status \in [Cycle -> Status]
  BY DEF TypeOK
<1>2. c \in Cycle /\ s \in Status
  OBVIOUS
<1>3. calls[c] \in Nat
  BY ONLY <1>1, <1>2
<1>4. calls[c] + 1 \in Nat
  BY ONLY <1>3
<1>5. /\ running' = c /\ at' = [at EXCEPT ![c] = "callback"]
      /\ calls' = [calls EXCEPT ![c] = @ + 1] /\ status' = [status EXCEPT ![c] = s]
  BY DEF Call
<1> QED
  BY ONLY <1>1, <1>2, <1>4, <1>5 DEF Place

LEMMA InitTyped == Init => TypeOK
<1> SUFFICES ASSUME Init PROVE TypeOK
  OBVIOUS
<1>1. 0 \in 0..RbaCount-1 /\ 0 \in 0..UnreadyMod-1 /\ NoResponse \in Response
  BY CycleAssumption DEF NoResponse, Response
<1> QED
  BY <1>1 DEF Init, TypeOK, Place, Status

\* One step for each action.
LEMMA StepTyped == TypeOK /\ [Next]_vars => TypeOK'
<1> SUFFICES ASSUME TypeOK, [Next]_vars PROVE TypeOK'
  OBVIOUS
<1> USE CycleAssumption DEF TypeOK
<1>1. ASSUME NEW c \in Cycle, Open(c) PROVE TypeOK'
  <2>1. (unready[dev[c]] + 1) % UnreadyMod \in 0..UnreadyMod-1
    BY UnreadyWraps
  <2> QED
    BY <1>1, <2>1 DEF Open, libIdle, history, Place
<1>2. ASSUME NEW c \in Cycle, NEW k \in OpKind, QueueOp(c, k) PROVE TypeOK'
  BY <1>2 DEF QueueOp, libIdle, history
<1>3. ASSUME NEW c \in Cycle, QueueOpFails(c) PROVE TypeOK'
  BY <1>3 DEF QueueOpFails, libIdle, history
<1>4. ASSUME NEW c \in Cycle, NEW check \in BOOLEAN, NEW block \in BOOLEAN,
             Close(c, check, block)
      PROVE  TypeOK'
  <2>1. (unready[dev[c]] - 1) % UnreadyMod \in 0..UnreadyMod-1
    BY UnreadyWraps
  <2>2. <<c>> \o ready[dev[c]] \in Seq(Cycle)
    BY ListTypes
  <2>3. (check /\ ops[c] # {} /\ ~dead[c]) \in BOOLEAN
    OBVIOUS
  <2>4. checked' \in [Cycle -> BOOLEAN]
    BY <1>4, <2>3 DEF Close
  <2>5. ready' \in [Device -> Seq(Cycle)]
    BY <1>4, <2>2 DEF Close
  <2>6. at' \in [Cycle -> Place]
    BY <1>4 DEF Close, Place
  <2>7. unready' \in [Device -> 0..UnreadyMod-1]
    BY <1>4, <2>1 DEF Close
  <2>8. stamp' \in [Cycle -> Nat] /\ closed' \in Nat /\ blocked' \in Cycle \cup {None}
    BY <1>4 DEF Close
  <2> QED
    BY <1>4, <2>4, <2>5, <2>6, <2>7, <2>8
    DEF Close, appVars, devVars, respVars, pollVars, siftVars
<1>5. ASSUME NEW c \in Cycle, Abort(c) PROVE TypeOK'
  <2>1. (unready[dev[c]] - 1) % UnreadyMod \in 0..UnreadyMod-1
    BY UnreadyWraps
  <2> QED
    BY <1>5, <2>1 DEF Abort, libIdle, history, Place
<1>6. ASSUME NEW d \in Device, DeviceClose(d) PROVE TypeOK'
  <2>1. Flipped(ready[d]) \in Seq(Cycle) /\ last \o Flipped(first) \in Seq(Cycle)
    BY ListTypes
  <2>2. at' \in [Cycle -> Place]
    BY <1>6 DEF DeviceClose, Place
  <2>3. /\ ready' \in [Device -> Seq(Cycle)]
        /\ batch' \in Seq(Cycle) /\ walk' \in Seq(Cycle)
        /\ first' \in Seq(Cycle) /\ last' \in Seq(Cycle)
    <3>1. /\ ready' = [ready EXCEPT ![d] = <<>>]
          /\ batch' = Flipped(ready[d]) /\ walk' = last \o Flipped(first)
          /\ first' = <<>> /\ last' = <<>>
      BY <1>6 DEF DeviceClose
    <3>2. ready \in [Device -> Seq(Cycle)] /\ <<>> \in Seq(Cycle)
      OBVIOUS
    <3> QED
      BY ONLY <2>1, <3>1, <3>2
  <2>4. pc' = "sift" /\ target' = d
    BY <1>6 DEF DeviceClose
  <2>5. passive' \in [Device -> BOOLEAN]
    BY <1>6 DEF DeviceClose
  <2> QED
    BY <1>6, <2>2, <2>3, <2>4, <2>5 DEF DeviceClose, appVars, history
<1>7. ASSUME CallbackReturns PROVE TypeOK'
  <2>1. NoResponse \in Response
    BY DEF NoResponse, Response
  <2> QED
    BY <1>7, <2>1
    DEF CallbackReturns, history, devVars, pollVars, siftVars, Place
<1>8. ASSUME AskTimeout PROVE TypeOK'
  <2>1. Flipped(last) \in Seq(Cycle)
    BY ListTypes
  <2> QED
    BY <1>8, <2>1
    DEF AskTimeout, Moved, appVars, history, devVars, pollVars, siftVars, Place
<1>9. ASSUME NEW e \in Elapse, Check(e) PROVE TypeOK'
  BY <1>9 DEF Check, appVars, history, devVars, respVars, siftVars
<1>10. ASSUME Expire PROVE TypeOK'
  <2>1. Head(first) \in Cycle /\ Tail(first) \in Seq(Cycle)
    BY <1>10, ListTypes DEF Expire
  <2>2. "TIMEOUT" \in Status
    BY DEF Status
  <2>3. /\ running' \in Cycle /\ at' \in [Cycle -> Place]
        /\ calls' \in [Cycle -> Nat] /\ status' \in [Cycle -> Status]
    BY <1>10, <2>1, <2>2, CallTyped DEF Expire
  <2> QED
    BY <1>10, <2>1, <2>3 DEF Expire, appVars, devVars, pollVars, siftVars
<1>11. ASSUME ExpireDone PROVE TypeOK'
  <2>1. resp' \in [Cycle -> Response]
    <3> SUFFICES ASSUME NEW c \in Cycle
                 PROVE  [resp[c] EXCEPT !.left = IF @ > elapsed THEN @ - elapsed ELSE 0]
                          \in Response
      BY <1>11 DEF ExpireDone
    <3>1. resp[c] \in Response /\ elapsed \in Nat /\ resp[c].left \in Nat
      BY DEF Response
    <3>2. (IF resp[c].left > elapsed THEN resp[c].left - elapsed ELSE 0) \in Nat
      BY ONLY <3>1
    <3> QED
      BY ONLY <3>1, <3>2 DEF Response
  <2> QED
    BY <1>11, <2>1 DEF ExpireDone, appVars, history, devVars, siftVars
<1>12. ASSUME NEW m \in net, Receive(m) PROVE TypeOK'
  <2>1. Tokens(m) \in Seq(Token)
    <3>1. m \in Message
      OBVIOUS
    <3>2. \A q \in Part : [address |-> m.address, part |-> q, owner |-> m.owner] \in Token
      BY ONLY <3>1 DEF Message, Token
    <3> QED
      BY ONLY <3>2 DEF Tokens, Part
  <2>2. net' \subseteq Message
    <3>0. m \in Message /\ m.copies \in 1..MaxCopies
      BY DEF Message
    <3>1. m.copies > 1 => [m EXCEPT !.copies = @ - 1] \in Message
      <4>1. m.copies > 1 => m.copies - 1 \in 1..MaxCopies
        BY ONLY <3>0, CycleAssumption
      <4> QED
        BY ONLY <3>0, <4>1 DEF Message
    <3> QED
      BY <1>12, <3>1 DEF Receive
  <2> QED
    BY <1>12, <2>1, <2>2
    DEF Receive, appVars, history, devVars, respVars, pollVars, siftVars
<1>13. ASSUME NEW t
       PROVE  /\ Searched(t) \in Seq(Cycle)
              /\ Search(t) => first' \in Seq(Cycle) /\ last' \in Seq(Cycle)
  <2>1. Flipped(last) \in Seq(Cycle)
    BY ListTypes
  <2>2. first \in Seq(Cycle) /\ last \in Seq(Cycle) /\ first \o Flipped(last) \in Seq(Cycle)
    BY <2>1
  <2>3. Searched(t) \in Seq(Cycle)
    BY ONLY <2>2 DEF Searched
  <2>4. ASSUME Search(t) PROVE first' \in Seq(Cycle) /\ last' \in Seq(Cycle)
    <3>1. first' = Searched(t) /\ (last' = last \/ last' = <<>>)
      BY ONLY <2>4 DEF Search
    <3>2. <<>> \in Seq(Cycle)
      OBVIOUS
    <3>3. last' \in Seq(Cycle)
      BY ONLY <2>2, <3>1, <3>2
    <3> QED
      BY ONLY <2>3, <3>1, <3>3
  <2> QED
    BY ONLY <2>3, <2>4
<1>14. inbox # <<>> => Head(inbox) \in Token /\ Tail(inbox) \in Seq(Token)
  BY ListTypes
<1>15. ASSUME WriteUnmatched PROVE TypeOK'
  BY <1>13, <1>14, <1>15
  DEF WriteUnmatched, Moved, appVars, history, devVars, pollVars, siftVars, Place
<1>16. ASSUME WritePart PROVE TypeOK'
  <2>1. PICK i \in 1..Len(Searched(Head(inbox))) :
          /\ resp' = [resp EXCEPT ![Searched(Head(inbox))[i]].need = @ \ {Head(inbox).part}]
          /\ Search(Head(inbox))
          /\ at' = IF Matches(first, Head(inbox)) # {} THEN at ELSE Moved({"last"}, "first")
    BY <1>16 DEF WritePart
  <2>2. Searched(Head(inbox))[i] \in Cycle
    BY <1>13
  <2>3. resp' \in [Cycle -> Response]
    <3> DEFINE c == Searched(Head(inbox))[i]
    <3>1. resp \in [Cycle -> Response] /\ c \in Cycle
      BY <2>2
    <3>2. resp' = [resp EXCEPT ![c].need = @ \ {Head(inbox).part}]
      BY <2>1
    <3> HIDE DEF c
    <3> QED
      BY ONLY <3>1, <3>2 DEF Response
  <2>4. at' \in [Cycle -> Place]
    BY <2>1 DEF Moved, Place
  <2>5. inbox # <<>> /\ inbox' = Tail(inbox)
    BY <1>16 DEF WritePart
  <2> QED
    BY <1>13, <1>14, <1>16, <2>1, <2>3, <2>4, <2>5
    DEF WritePart, appVars, history, devVars, pollVars, siftVars
<1>17. ASSUME WriteLast PROVE TypeOK'
  <2> DEFINE t == Head(inbox)
  <2>1. PICK i \in 1..Len(Searched(t)), s \in {"OK", "SEGFAULT", "FAIL"} :
          /\ running' = Searched(t)[i]
          /\ calls' = [calls EXCEPT ![Searched(t)[i]] = @ + 1]
          /\ status' = [status EXCEPT ![Searched(t)[i]] = s]
          /\ first' = Without(Searched(t), i)
          /\ last' = IF Matches(first, t) # {} THEN last ELSE <<>>
          /\ at' = [IF Matches(first, t) # {} THEN at ELSE Moved({"last"}, "first")
                      EXCEPT ![Searched(t)[i]] = "callback"]
    BY <1>17 DEF WriteLast
  <2>2. inbox # <<>> /\ inbox' = Tail(inbox)
    BY <1>17 DEF WriteLast
  <2>3. Searched(t) \in Seq(Cycle) /\ Searched(t)[i] \in Cycle
    BY <1>13, <1>14, <2>2
  <2>4. first' \in Seq(Cycle)
    BY <2>1, <2>3, ListTypes
  <2>5. at' \in [Cycle -> Place]
    BY <2>1, <2>3 DEF Moved, Place
  <2>6. last' \in Seq(Cycle)
    BY <2>1
  <2>7. running' \in Cycle /\ calls' \in [Cycle -> Nat]
    <3>0. calls \in [Cycle -> Nat]
      OBVIOUS
    <3>1. calls[Searched(t)[i]] \in Nat
      BY ONLY <2>3, <3>0
    <3>3. calls[Searched(t)[i]] + 1 \in Nat
      BY ONLY <3>1
    <3> QED
      BY ONLY <2>1, <2>3, <3>0, <3>3
  <2>8. status' \in [Cycle -> Status]
    BY <2>1, <2>3 DEF Status
  <2>9. inbox' \in Seq(Token)
    BY <1>14, <2>2
  <2> HIDE DEF t
  <2> QED
    BY <1>17, <2>4, <2>5, <2>6, <2>7, <2>8, <2>9
    DEF WriteLast, appVars, devVars, respVars, pollVars, siftVars
<1>18. ASSUME TransportsDone PROVE TypeOK'
  BY <1>18 DEF TransportsDone, appVars, history, devVars, respVars, siftVars
<1>19. ASSUME NEW d \in Device, NextDevice(d) PROVE TypeOK'
  BY <1>19 DEF NextDevice, appVars, history, devVars, respVars, siftVars
<1>20. ASSUME DevicesDone PROVE TypeOK'
  BY <1>20 DEF DevicesDone, appVars, history, devVars, respVars, siftVars
<1>21. ASSUME LinkDies PROVE TypeOK'
  BY <1>21 DEF LinkDies, appVars, history, respVars, pollVars, siftVars
<1>22. ASSUME FlushRefused PROVE TypeOK'
  BY <1>22 DEF FlushRefused, appVars, history, devVars, respVars, siftVars
<1>23. ASSUME FlushBegin PROVE TypeOK'
  <2>1. Flipped(ready[target]) \in Seq(Cycle)
    BY <1>23, ListTypes DEF FlushBegin, LibRuns
  <2>2. at' \in [Cycle -> Place]
    BY <1>23 DEF FlushBegin, Place
  <2>3. target \in Device /\ ready' = [ready EXCEPT ![target] = <<>>]
    BY <1>23 DEF FlushBegin, LibRuns
  <2>4. ready' \in [Device -> Seq(Cycle)]
    BY <2>3
  <2> QED
    BY <1>23, <2>1, <2>2, <2>3, <2>4
    DEF FlushBegin, LibRuns, appVars, history, devVars, respVars, siftVars
<1>24. ASSUME FlushCalls PROVE TypeOK'
  <2>1. Head(batch) \in Cycle /\ Tail(batch) \in Seq(Cycle)
    BY <1>24, ListTypes DEF FlushCalls
  <2>2. Outcome(Head(batch)) \subseteq Status
    BY DEF Outcome, Status
  <2>3. /\ running' \in Cycle /\ at' \in [Cycle -> Place]
        /\ calls' \in [Cycle -> Nat] /\ status' \in [Cycle -> Status]
    BY <1>24, <2>1, <2>2, CallTyped DEF FlushCalls
  <2> QED
    BY <1>24, <2>1, <2>3 DEF FlushCalls, appVars, devVars, respVars, pollVars, siftVars
<1>25. ASSUME FlushSends PROVE TypeOK'
  <2> DEFINE c == Head(batch)
  <2>1. c \in Cycle /\ Tail(batch) \in Seq(Cycle)
    BY <1>25, ListTypes DEF FlushSends
  <2>2. rba' \in 0..RbaCount-1
    <3>1. rba + 1 \in Int /\ RbaCount \in Nat \ {0} /\ rba' = (rba + 1) % RbaCount
      BY <1>25 DEF FlushSends, NextRba
    <3> QED
      BY ONLY <3>1, Wraps
  <2>3. Need(c) \in SUBSET Part
    BY DEF Need, Part
  <2>4. resp' \in [Cycle -> Response]
    BY <1>25, <2>1, <2>3 DEF FlushSends, Response
  <2>5. target \in Device
    BY <1>25 DEF FlushSends, LibRuns
  <2>6. net' \subseteq Message
    <3>1. [dev |-> target, answer |-> FALSE, address |-> rba, need |-> Need(c),
           copies |-> 1, owner |-> c] \in Message
      BY <2>1, <2>3, <2>5 DEF Message
    <3> QED
      BY <1>25, <3>1 DEF FlushSends
  <2>7. last' \in Seq(Cycle)
    BY <1>25, <2>1, ListTypes DEF FlushSends
  <2>8. at' \in [Cycle -> Place]
    BY <1>25, <2>1 DEF FlushSends, Place
  <2> HIDE DEF c
  <2> QED
    BY <1>25, <2>1, <2>2, <2>4, <2>5, <2>6, <2>7, <2>8
    DEF FlushSends, appVars, history, devVars, pollVars, siftVars
<1>26. ASSUME FlushEnd PROVE TypeOK'
  BY <1>26 DEF FlushEnd, appVars, history, devVars, respVars, siftVars
<1>27. ASSUME Sift PROVE TypeOK'
  <2>1. Head(walk) \in Cycle /\ Tail(walk) \in Seq(Cycle)
    BY <1>27, ListTypes DEF Sift
  <2>2. <<Head(walk)>> \o bad \in Seq(Cycle) /\ <<Head(walk)>> \o good \in Seq(Cycle)
    BY <2>1, ListTypes
  <2> QED
    BY <1>27, <2>1, <2>2
    DEF Sift, appVars, history, devVars, respVars, pollVars, Place
<1>28. ASSUME SiftDone PROVE TypeOK'
  <2>1. bad \o batch \in Seq(Cycle)
    BY ListTypes
  <2>2. at' \in [Cycle -> Place]
    BY <1>28 DEF SiftDone, Place
  <2> QED
    BY <1>28, <2>1, <2>2 DEF SiftDone, LibRuns, appVars, history, devVars
<1>29. ASSUME Kill PROVE TypeOK'
  <2>1. Head(batch) \in Cycle /\ Tail(batch) \in Seq(Cycle)
    BY <1>29, ListTypes DEF Kill
  <2>2. "TIMEOUT" \in Status
    BY DEF Status
  <2>3. /\ running' \in Cycle /\ at' \in [Cycle -> Place]
        /\ calls' \in [Cycle -> Nat] /\ status' \in [Cycle -> Status]
    BY <1>29, <2>1, <2>2, CallTyped DEF Kill
  <2> QED
    BY <1>29, <2>1, <2>3 DEF Kill, appVars, devVars, respVars, pollVars, siftVars
<1>30. ASSUME KillDone PROVE TypeOK'
  BY <1>30 DEF KillDone, appVars, history, respVars, siftVars
<1>31. ASSUME NEW m \in net, NEW parts \in SUBSET Part, NEW n \in 1..MaxCopies,
              Answer(m, parts, n)
       PROVE  TypeOK'
  <2>1. [m EXCEPT !.answer = TRUE, !.need = parts, !.copies = n] \in Message
    BY DEF Message
  <2> QED
    BY <1>31, <2>1
    DEF Answer, appVars, history, devVars, respVars, pollVars, siftVars
<1>32. ASSUME UNCHANGED vars PROVE TypeOK'
  BY <1>32 DEF vars
<1>33. CASE Application
  BY ONLY <1>33, <1>1, <1>2, <1>3, <1>4, <1>5, <1>6 DEF Application
<1>34. CASE Library
  BY ONLY <1>34, <1>10, <1>11, <1>15, <1>16, <1>17, <1>18, <1>19, <1>20, <1>22, <1>23,
     <1>24, <1>25, <1>26, <1>27, <1>28, <1>29, <1>30
  DEF Library
<1>35. CASE Environment
  BY ONLY <1>35, <1>12, <1>21, <1>31 DEF Environment
<1> QED
  BY ONLY [Next]_vars, <1>7, <1>8, <1>9, <1>32, <1>33, <1>34, <1>35 DEF Next

\* Every variable keeps its type: no step leaves the lists, the counters or
\* the status codes the code declares.
THEOREM TypeCorrect == Spec => []TypeOK
  BY InitTyped, StepTyped, PTL DEF Spec

-----------------------------------------------------------------------------
(* The queues.                                                             *)

\* What the steps keep besides: callbacks run one at a time, the lists that a
\* stage of the library works on are empty outside it, and so is the list
\* that the end of a flush clears.
Bookkeeping ==
  /\ \A c \in Cycle : at[c] = "callback" <=> running = c
  /\ pc \notin {"flush", "sift", "kill"} => batch = <<>>
  /\ pc # "sift" => walk = <<>> /\ good = <<>> /\ bad = <<>>
  /\ pc = "sift" => first = <<>> /\ last = <<>>
  /\ pc = "flush" => ready[target] = <<>>
  /\ inbox # <<>> => pc \in {"transports", "device"}

Inv == TypeOK /\ QueuesSound /\ CalledOnce /\ Bookkeeping

\* The cycles at p after the step; those that wait for d, before and after.
After(p) == {c \in Cycle : at'[c] = p}
Waiting(d) == {c \in In("ready") : dev[c] = d}
WaitingAfter(d) == {c \in After("ready") : dev'[c] = d}

lists == <<ready, batch, first, last, walk, good, bad>>

LEMMA QueuesNow ==
  ASSUME QueuesSound
  PROVE  /\ \A d \in Device : Holds(ready[d], Waiting(d))
         /\ Holds(batch, In("batch"))
         /\ Holds(first, In("first"))
         /\ Holds(last, In("last"))
         /\ Holds(walk, In("walk"))
         /\ Holds(good, In("good"))
         /\ Holds(bad, In("bad"))
  BY DEF QueuesSound, Waiting

LEMMA QueuesThen ==
  ASSUME \A d \in Device : Holds(ready'[d], WaitingAfter(d)),
         Holds(batch', After("batch")),
         Holds(first', After("first")),
         Holds(last', After("last")),
         Holds(walk', After("walk")),
         Holds(good', After("good")),
         Holds(bad', After("bad"))
  PROVE  QueuesSound'
  BY DEF QueuesSound, In, After, WaitingAfter

\* A step that moves one cycle.
LEMMA MovesOne ==
  ASSUME TypeOK, NEW c \in Cycle, NEW q, at' = [at EXCEPT ![c] = q], at[c] # q
  PROVE  /\ After(q) = In(q) \cup {c}
         /\ c \notin In(q)
         /\ After(at[c]) = In(at[c]) \ {c}
         /\ \A p : p # q /\ p # at[c] => After(p) = In(p)
  BY DEF TypeOK, After, In

LEMMA ReadyUnmoved ==
  ASSUME After("ready") = In("ready"), dev' = dev
  PROVE  \A d \in Device : WaitingAfter(d) = Waiting(d)
  BY DEF Waiting, WaitingAfter

\* A step that leaves the lists alone, and moves no cycle to or from them.
LEMMA SameLists ==
  ASSUME QueuesSound, UNCHANGED lists, dev' = dev,
         \A p \in {"ready", "batch", "first", "last", "walk", "good", "bad"} : After(p) = In(p)
  PROVE  QueuesSound'
<1>1. \A d \in Device : WaitingAfter(d) = Waiting(d)
  BY ReadyUnmoved
<1> QED
  BY <1>1, QueuesNow, QueuesThen DEF lists

\* What the search for a response does to the lists and to the places.
PlacesAfterSearch(t) == IF Matches(first, t) # {} THEN at ELSE Moved({"last"}, "first")
LastAfterSearch(t) == IF Matches(first, t) # {} THEN last ELSE <<>>

LEMMA SearchSound ==
  ASSUME TypeOK, QueuesSound, NEW t
  PROVE  LET found(p) == {c \in Cycle : PlacesAfterSearch(t)[c] = p}
         IN /\ Searched(t) \in Seq(Cycle)
            /\ Holds(Searched(t), found("first"))
            /\ Holds(LastAfterSearch(t), found("last"))
            /\ \A p : p \notin {"first", "last"} => found(p) = In(p)
<1> DEFINE found(p) == {c \in Cycle : PlacesAfterSearch(t)[c] = p}
<1>1. /\ first \in Seq(Cycle) /\ last \in Seq(Cycle)
      /\ Holds(first, In("first")) /\ Holds(last, In("last"))
  BY QueuesNow DEF TypeOK
<1>2. CASE Matches(first, t) # {}
  <2>1. Searched(t) = first /\ LastAfterSearch(t) = last /\ PlacesAfterSearch(t) = at
    BY <1>2 DEF Searched, LastAfterSearch, PlacesAfterSearch
  <2>2. \A p : found(p) = In(p)
    BY <2>1 DEF In
  <2> QED
    BY <1>1, <2>1, <2>2
<1>3. CASE Matches(first, t) = {}
  <2>1. /\ Searched(t) = first \o Flipped(last)
        /\ LastAfterSearch(t) = <<>>
        /\ PlacesAfterSearch(t) = Moved({"last"}, "first")
    BY <1>3 DEF Searched, LastAfterSearch, PlacesAfterSearch
  <2>2. /\ found("first") = In("first") \cup In("last")
        /\ found("last") = {}
        /\ \A p : p \notin {"first", "last"} => found(p) = In(p)
        /\ In("first") \cap In("last") = {}
    BY <2>1 DEF In, Moved
  <2>3. Flipped(last) \in Seq(Cycle) /\ Holds(Flipped(last), In("last"))
    BY <1>1, HoldsFlipped
  <2>4. /\ first \o Flipped(last) \in Seq(Cycle)
        /\ Holds(first \o Flipped(last), In("first") \cup In("last"))
    BY <1>1, <2>2, <2>3, HoldsConcat
  <2> HIDE DEF found
  <2>5. Holds(LastAfterSearch(t), found("last"))
    BY <2>1, <2>2, HoldsEmpty
  <2> QED
    BY <2>1, <2>2, <2>4, <2>5 DEF found
<1> QED
  BY <1>2, <1>3

LEMMA HeadIsThere ==
  ASSUME NEW s \in Seq(Cycle), NEW p, Holds(s, In(p)), s # <<>>
  PROVE  Head(s) \in Cycle /\ at[Head(s)] = p
<1>1. Head(s) \in In(p)
  BY HoldsTail
<1> QED
  BY <1>1 DEF In

\* A step that takes the head of a list somewhere else.
LEMMA TakesHead ==
  ASSUME TypeOK, NEW s \in Seq(Cycle), NEW p, Holds(s, In(p)), s # <<>>,
         NEW q, p # q, at' = [at EXCEPT ![Head(s)] = q]
  PROVE  /\ Head(s) \in Cycle /\ at[Head(s)] = p
         /\ Head(s) \notin In(q)
         /\ Holds(Tail(s), After(p))
         /\ After(q) = In(q) \cup {Head(s)}
         /\ \A r : r # p /\ r # q => After(r) = In(r)
<1>1. Head(s) \in In(p) /\ Holds(Tail(s), In(p) \ {Head(s)})
  BY HoldsTail
<1>2. Head(s) \in Cycle /\ at[Head(s)] = p
  BY <1>1 DEF In
<1> QED
  BY <1>1, <1>2, MovesOne


\* The lists after each step.  Only FlushEnd needs the assumption: it drops
\* what a callback may have put on the list it clears.
LEMMA StepQueues == ~Reentrant /\ Inv /\ [Next]_vars => QueuesSound'
<1> SUFFICES ASSUME ~Reentrant, TypeOK, QueuesSound, Bookkeeping, [Next]_vars
             PROVE  QueuesSound'
  BY DEF Inv
<1> DEFINE Places == {"ready", "batch", "first", "last", "walk", "good", "bad"}
<1>0. /\ ready \in [Device -> Seq(Cycle)]
      /\ batch \in Seq(Cycle) /\ first \in Seq(Cycle) /\ last \in Seq(Cycle)
      /\ walk \in Seq(Cycle) /\ good \in Seq(Cycle) /\ bad \in Seq(Cycle)
      /\ at \in [Cycle -> Place] /\ dev \in [Cycle -> Device]
  BY DEF TypeOK
<1>a. /\ \A d \in Device : Holds(ready[d], Waiting(d))
      /\ Holds(batch, In("batch"))
      /\ Holds(first, In("first")) /\ Holds(last, In("last"))
      /\ Holds(walk, In("walk")) /\ Holds(good, In("good")) /\ Holds(bad, In("bad"))
  BY QueuesNow
<1>1. ASSUME NEW c \in Cycle, Open(c) PROVE QueuesSound'
  <2>1. /\ at' = [at EXCEPT ![c] = "open"] /\ at[c] = "unused"
        /\ UNCHANGED lists /\ dev' = dev
    BY <1>1 DEF Open, libIdle, lists
  <2>2. \A p \in Places : After(p) = In(p)
    BY <2>1, MovesOne
  <2> QED
    BY <2>1, <2>2, SameLists
<1>2. ASSUME NEW c \in Cycle, Abort(c) PROVE QueuesSound'
  <2>1. /\ at' = [at EXCEPT ![c] = "aborted"] /\ at[c] = "open"
        /\ UNCHANGED lists /\ dev' = dev
    BY <1>2 DEF Abort, libIdle, lists
  <2>2. \A p \in Places : After(p) = In(p)
    BY <2>1, MovesOne
  <2> QED
    BY <2>1, <2>2, SameLists
<1>3. ASSUME CallbackReturns PROVE QueuesSound'
  <2>1. /\ running \in Cycle /\ at[running] = "callback"
        /\ at' = [at EXCEPT ![running] = "freed"]
        /\ UNCHANGED lists /\ dev' = dev
    BY <1>3 DEF CallbackReturns, respVars, siftVars, lists, TypeOK, Bookkeeping
  <2>2. \A p \in Places : After(p) = In(p)
    BY <2>1, MovesOne
  <2> QED
    BY <2>1, <2>2, SameLists
<1>4. ASSUME NEW c \in Cycle, NEW check \in BOOLEAN, NEW block \in BOOLEAN,
             Close(c, check, block)
      PROVE  QueuesSound'
  <2>1. /\ at' = [at EXCEPT ![c] = "ready"] /\ at[c] = "open"
        /\ ready' = [ready EXCEPT ![dev[c]] = <<c>> \o @]
        /\ UNCHANGED <<dev, batch, first, last, walk, good, bad>>
    BY <1>4 DEF Close, respVars, siftVars
  <2>2. After("ready") = In("ready") \cup {c} /\ c \notin In("ready")
    BY <2>1, MovesOne
  <2>3. \A p \in Places \ {"ready"} : After(p) = In(p)
    BY <2>1, MovesOne
  <2>4. ASSUME NEW d \in Device PROVE Holds(ready'[d], WaitingAfter(d))
    <3>1. CASE d = dev[c]
      <4>1. WaitingAfter(d) = Waiting(d) \cup {c} /\ c \notin Waiting(d)
        BY <2>1, <2>2, <3>1 DEF Waiting, WaitingAfter
      <4>2. ready'[d] = <<c>> \o ready[d] /\ ready[d] \in Seq(Cycle)
        BY <1>0, <2>1, <3>1
      <4>3. Holds(<<c>> \o ready[d], Waiting(d) \cup {c})
        BY <1>a, <4>1, <4>2, HoldsCons
      <4> QED
        BY <4>1, <4>2, <4>3
    <3>2. CASE d # dev[c]
      <4>1. WaitingAfter(d) = Waiting(d)
        BY <2>1, <2>2, <3>2 DEF Waiting, WaitingAfter
      <4>2. ready'[d] = ready[d]
        BY <1>0, <2>1, <3>2
      <4> QED
        BY <1>a, <4>1, <4>2
    <3> QED
      BY <3>1, <3>2
  <2> QED
    BY <1>a, <2>1, <2>3, <2>4, QueuesThen
<1>5. ASSUME NEW d \in Device, DeviceClose(d) PROVE QueuesSound'
  <2>1. /\ ready' = [ready EXCEPT ![d] = <<>>]
        /\ batch' = Flipped(ready[d]) /\ walk' = last \o Flipped(first)
        /\ first' = <<>> /\ last' = <<>>
        /\ UNCHANGED <<dev, good, bad>>
    BY <1>5 DEF DeviceClose, appVars
  <2>0. at' = [c \in Cycle |-> CASE at[c] \in {"first", "last"}     -> "walk"
                                 [] at[c] = "ready" /\ dev[c] = d -> "batch"
                                 [] OTHER                         -> at[c]]
    BY <1>5 DEF DeviceClose
  <2>2. batch = <<>> /\ walk = <<>>
    BY <1>5 DEF DeviceClose, AppRuns, Bookkeeping
  <2>3. In("batch") = {} /\ In("walk") = {}
    BY <1>a, <2>2, EmptyHolds
  <2>4. /\ After("batch") = Waiting(d)
        /\ After("walk") = In("last") \cup In("first") /\ In("last") \cap In("first") = {}
        /\ After("first") = {} /\ After("last") = {}
        /\ After("good") = In("good") /\ After("bad") = In("bad")
    BY <2>0, <2>3 DEF After, In, Waiting
  <2>5. Holds(batch', After("batch"))
    BY <1>0, <1>a, <2>1, <2>4, HoldsFlipped
  <2>6. Flipped(first) \in Seq(Cycle) /\ Holds(Flipped(first), In("first"))
    BY <1>0, <1>a, HoldsFlipped
  <2>7. Holds(last \o Flipped(first), In("last") \cup In("first"))
    BY ONLY <1>0, <1>a, <2>4, <2>6, HoldsConcat
  <2>8. ASSUME NEW e \in Device PROVE Holds(ready'[e], WaitingAfter(e))
    <3>1. CASE e = d
      <4>1. WaitingAfter(e) = {}
        BY <2>0, <2>1, <3>1 DEF WaitingAfter, After
      <4>2. ready'[e] = <<>>
        BY <1>0, <2>1, <3>1
      <4> QED
        BY <4>1, <4>2, HoldsEmpty
    <3>2. CASE e # d
      <4>1. WaitingAfter(e) = Waiting(e)
        BY <2>0, <2>1, <3>2 DEF WaitingAfter, Waiting, After, In
      <4>2. ready'[e] = ready[e]
        BY <1>0, <2>1, <3>2
      <4> QED
        BY <1>a, <4>1, <4>2
    <3> QED
      BY <3>1, <3>2
  <2>9. Holds(first', After("first")) /\ Holds(last', After("last"))
    BY <2>1, <2>4, HoldsEmpty
  <2> QED
    BY <1>a, <2>1, <2>4, <2>5, <2>7, <2>8, <2>9, QueuesThen
<1>6. ASSUME AskTimeout PROVE QueuesSound'
  <2>1. /\ first = <<>> /\ first' = Flipped(last) /\ last' = <<>>
        /\ at' = Moved({"last"}, "first")
        /\ UNCHANGED <<dev, ready, batch, walk, good, bad>>
    BY <1>6 DEF AskTimeout, appVars, siftVars
  <2>2. In("first") = {}
    BY <1>a, <2>1, EmptyHolds
  <2>3. /\ After("first") = In("last") /\ After("last") = {}
        /\ \A p \in Places \ {"first", "last"} : After(p) = In(p)
    BY <2>1, <2>2 DEF After, In, Moved
  <2>4. Holds(first', After("first")) /\ Holds(last', After("last"))
    BY <1>0, <1>a, <2>1, <2>3, HoldsFlipped, HoldsEmpty
  <2>5. \A d \in Device : WaitingAfter(d) = Waiting(d)
    BY <2>1, <2>3, ReadyUnmoved
  <2> QED
    BY <1>a, <2>1, <2>3, <2>4, <2>5, QueuesThen
<1>7. ASSUME Expire PROVE QueuesSound'
  <2>1. /\ first # <<>> /\ first' = Tail(first)
        /\ at' = [at EXCEPT ![Head(first)] = "callback"]
        /\ UNCHANGED <<dev, ready, batch, last, walk, good, bad>>
    BY <1>7 DEF Expire, Call, appVars, siftVars
  <2>2. /\ Holds(Tail(first), After("first"))
        /\ \A p : p # "first" /\ p # "callback" => After(p) = In(p)
    BY ONLY TypeOK, <1>0, <1>a, <2>1, TakesHead
  <2>3. \A d \in Device : WaitingAfter(d) = Waiting(d)
    BY <2>1, <2>2, ReadyUnmoved
  <2> QED
    BY <1>a, <2>1, <2>2, <2>3, QueuesThen
<1>8. ASSUME WriteUnmatched PROVE QueuesSound'
  <2> DEFINE t == Head(inbox)
  <2>1. Matches(first, t) = {}
    BY <1>8 DEF WriteUnmatched, Searched
  <2>2. /\ first' = Searched(t) /\ last' = LastAfterSearch(t)
        /\ at' = PlacesAfterSearch(t)
        /\ UNCHANGED <<dev, ready, batch, walk, good, bad>>
    BY <1>8, <2>1
    DEF WriteUnmatched, Search, PlacesAfterSearch, LastAfterSearch, appVars, siftVars
  <2> HIDE DEF t
  <2>3. /\ Holds(first', After("first")) /\ Holds(last', After("last"))
        /\ \A p \in Places \ {"first", "last"} : After(p) = In(p)
    BY <2>2, SearchSound DEF After
  <2>4. \A d \in Device : WaitingAfter(d) = Waiting(d)
    BY <2>2, <2>3, ReadyUnmoved
  <2> QED
    BY <1>a, <2>2, <2>3, <2>4, QueuesThen
<1>9. ASSUME WritePart PROVE QueuesSound'
  <2> DEFINE t == Head(inbox)
  <2>1. /\ first' = Searched(t) /\ last' = LastAfterSearch(t)
        /\ at' = PlacesAfterSearch(t)
        /\ UNCHANGED <<dev, ready, batch, walk, good, bad>>
    BY <1>9 DEF WritePart, Search, PlacesAfterSearch, LastAfterSearch, appVars, siftVars
  <2> HIDE DEF t
  <2>2. /\ Holds(first', After("first")) /\ Holds(last', After("last"))
        /\ \A p \in Places \ {"first", "last"} : After(p) = In(p)
    BY <2>1, SearchSound DEF After
  <2>3. \A d \in Device : WaitingAfter(d) = Waiting(d)
    BY <2>1, <2>2, ReadyUnmoved
  <2> QED
    BY <1>a, <2>1, <2>2, <2>3, QueuesThen
<1>10. ASSUME WriteLast PROVE QueuesSound'
  <2> DEFINE t == Head(inbox)
             s == Searched(t)
             found(p) == {c \in Cycle : PlacesAfterSearch(t)[c] = p}
  <2>1. PICK i \in 1..Len(s) :
          /\ first' = Without(s, i) /\ last' = LastAfterSearch(t)
          /\ at' = [PlacesAfterSearch(t) EXCEPT ![s[i]] = "callback"]
          /\ UNCHANGED <<dev, ready, batch, walk, good, bad>>
    BY <1>10 DEF WriteLast, PlacesAfterSearch, LastAfterSearch, appVars, siftVars
  <2>2. /\ s \in Seq(Cycle)
        /\ Holds(s, found("first")) /\ Holds(last', found("last"))
        /\ \A p : p \notin {"first", "last"} => found(p) = In(p)
    BY <2>1, SearchSound
  <2>3. PlacesAfterSearch(t) \in [Cycle -> Place]
    BY <1>0 DEF PlacesAfterSearch, Moved, Place
  <2>4. s[i] \in found("first")
    BY <2>2 DEF Holds
  <2>5. /\ After("first") = found("first") \ {s[i]}
        /\ After("last") = found("last")
        /\ \A p : p \notin {"first", "last", "callback"} => After(p) = found(p)
    BY <2>1, <2>3, <2>4 DEF After
  <2> HIDE DEF t, s, found
  <2>6. Holds(first', After("first"))
    BY <2>1, <2>2, <2>5, HoldsWithout
  <2>7. Holds(last', After("last")) /\ \A p \in Places \ {"first", "last"} : After(p) = In(p)
    BY <2>2, <2>5
  <2>8. \A d \in Device : WaitingAfter(d) = Waiting(d)
    BY <2>1, <2>7, ReadyUnmoved
  <2> QED
    BY <1>a, <2>1, <2>6, <2>7, <2>8, QueuesThen
<1>11. ASSUME FlushBegin PROVE QueuesSound'
  <2>1. /\ target \in Device /\ batch' = Flipped(ready[target])
        /\ ready' = [ready EXCEPT ![target] = <<>>]
        /\ at' = [c \in Cycle |-> IF at[c] = "ready" /\ dev[c] = target
                                  THEN "batch" ELSE at[c]]
        /\ UNCHANGED <<dev, first, last, walk, good, bad>>
    BY <1>11 DEF FlushBegin, LibRuns, TypeOK, appVars, respVars, siftVars
  <2>2. In("batch") = {}
    BY <1>11, <1>a, EmptyHolds DEF FlushBegin, LibRuns, Bookkeeping
  <2>3. /\ After("batch") = Waiting(target)
        /\ \A p \in Places \ {"ready", "batch"} : After(p) = In(p)
    BY <2>1, <2>2 DEF After, In, Waiting
  <2>4. Holds(batch', After("batch"))
    BY <1>0, <1>a, <2>1, <2>3, HoldsFlipped
  <2>5. ASSUME NEW d \in Device PROVE Holds(ready'[d], WaitingAfter(d))
    <3>1. CASE d = target
      <4>1. WaitingAfter(d) = {}
        BY <2>1, <3>1 DEF WaitingAfter, After
      <4>2. ready'[d] = <<>>
        BY <1>0, <2>1, <3>1
      <4> QED
        BY <4>1, <4>2, HoldsEmpty
    <3>2. CASE d # target
      <4>1. WaitingAfter(d) = Waiting(d)
        BY <2>1, <3>2 DEF WaitingAfter, Waiting, After, In
      <4>2. ready'[d] = ready[d]
        BY <1>0, <2>1, <3>2
      <4> QED
        BY <1>a, <4>1, <4>2
    <3> QED
      BY <3>1, <3>2
  <2> QED
    BY <1>a, <2>1, <2>3, <2>4, <2>5, QueuesThen
<1>12. ASSUME FlushCalls \/ Kill PROVE QueuesSound'
  <2>1. /\ batch # <<>> /\ batch' = Tail(batch)
        /\ at' = [at EXCEPT ![Head(batch)] = "callback"]
        /\ UNCHANGED <<dev, ready, first, last, walk, good, bad>>
    BY <1>12 DEF FlushCalls, Kill, Call, appVars, respVars, siftVars
  <2>2. /\ Holds(Tail(batch), After("batch"))
        /\ \A p : p # "batch" /\ p # "callback" => After(p) = In(p)
    BY ONLY TypeOK, <1>0, <1>a, <2>1, TakesHead
  <2>3. \A d \in Device : WaitingAfter(d) = Waiting(d)
    BY <2>1, <2>2, ReadyUnmoved
  <2> QED
    BY <1>a, <2>1, <2>2, <2>3, QueuesThen
<1>13. ASSUME FlushSends PROVE QueuesSound'
  <2>1. /\ batch # <<>> /\ batch' = Tail(batch)
        /\ last' = <<Head(batch)>> \o last
        /\ at' = [at EXCEPT ![Head(batch)] = "last"]
        /\ UNCHANGED <<dev, ready, first, walk, good, bad>>
    BY <1>13 DEF FlushSends, appVars, siftVars
  <2>2. /\ Holds(Tail(batch), After("batch"))
        /\ Head(batch) \in Cycle /\ Head(batch) \notin In("last")
        /\ After("last") = In("last") \cup {Head(batch)}
        /\ \A p : p # "batch" /\ p # "last" => After(p) = In(p)
    <3>1. batch \in Seq(Cycle) /\ Holds(batch, In("batch")) /\ batch # <<>>
      BY <1>0, <1>a, <2>1
    <3>2. at' = [at EXCEPT ![Head(batch)] = "last"] /\ "batch" # "last"
      BY <2>1
    <3> QED
      BY ONLY TypeOK, <3>1, <3>2, TakesHead
  <2>3. Holds(<<Head(batch)>> \o last, In("last") \cup {Head(batch)})
    BY ONLY <1>0, <1>a, <2>2, HoldsCons
  <2>4. \A d \in Device : WaitingAfter(d) = Waiting(d)
    BY <2>1, <2>2, ReadyUnmoved
  <2> QED
    BY <1>a, <2>1, <2>2, <2>3, <2>4, QueuesThen
<1>14. ASSUME FlushEnd PROVE QueuesSound'
  <2>1. ready[target] = <<>>
    BY <1>14 DEF FlushEnd, LibRuns, Bookkeeping
  <2>2. ready' = ready
    BY <1>0, <1>14, <2>1 DEF FlushEnd
  <2>3. at' = at /\ dev' = dev /\ UNCHANGED lists
    BY <1>14, <2>2 DEF FlushEnd, appVars, respVars, siftVars, lists
  <2>4. \A p \in Places : After(p) = In(p)
    BY <2>3 DEF After, In
  <2> QED
    BY <2>3, <2>4, SameLists
<1>15. ASSUME Sift PROVE QueuesSound'
  <2> DEFINE c == Head(walk)
  <2>1. /\ walk # <<>> /\ walk' = Tail(walk)
        /\ UNCHANGED <<dev, ready, batch, first, last>>
    BY <1>15 DEF Sift, appVars, respVars
  <2>2. \/ bad' = <<c>> \o bad /\ good' = good /\ at' = [at EXCEPT ![c] = "bad"]
        \/ good' = <<c>> \o good /\ bad' = bad /\ at' = [at EXCEPT ![c] = "good"]
    BY <1>15 DEF Sift
  <2>3. CASE bad' = <<c>> \o bad /\ good' = good /\ at' = [at EXCEPT ![c] = "bad"]
    <3>1. /\ Holds(Tail(walk), After("walk"))
          /\ c \in Cycle /\ c \notin In("bad")
          /\ After("bad") = In("bad") \cup {c}
          /\ \A p : p # "walk" /\ p # "bad" => After(p) = In(p)
      <4>1. walk \in Seq(Cycle) /\ Holds(walk, In("walk")) /\ walk # <<>>
        BY <1>0, <1>a, <2>1
      <4>2. at' = [at EXCEPT ![Head(walk)] = "bad"] /\ "walk" # "bad"
        BY <2>3
      <4> QED
        BY ONLY TypeOK, <4>1, <4>2, TakesHead
    <3>2. Holds(<<c>> \o bad, In("bad") \cup {c})
      BY ONLY <1>0, <1>a, <3>1, HoldsCons
    <3>3. \A d \in Device : WaitingAfter(d) = Waiting(d)
      BY <2>1, <3>1, ReadyUnmoved
    <3> QED
      BY <1>a, <2>1, <2>3, <3>1, <3>2, <3>3, QueuesThen
  <2>4. CASE good' = <<c>> \o good /\ bad' = bad /\ at' = [at EXCEPT ![c] = "good"]
    <3>1. /\ Holds(Tail(walk), After("walk"))
          /\ c \in Cycle /\ c \notin In("good")
          /\ After("good") = In("good") \cup {c}
          /\ \A p : p # "walk" /\ p # "good" => After(p) = In(p)
      <4>1. walk \in Seq(Cycle) /\ Holds(walk, In("walk")) /\ walk # <<>>
        BY <1>0, <1>a, <2>1
      <4>2. at' = [at EXCEPT ![Head(walk)] = "good"] /\ "walk" # "good"
        BY <2>4
      <4> QED
        BY ONLY TypeOK, <4>1, <4>2, TakesHead
    <3>2. Holds(<<c>> \o good, In("good") \cup {c})
      BY ONLY <1>0, <1>a, <3>1, HoldsCons
    <3>3. \A d \in Device : WaitingAfter(d) = Waiting(d)
      BY <2>1, <3>1, ReadyUnmoved
    <3> QED
      BY <1>a, <2>1, <2>4, <3>1, <3>2, <3>3, QueuesThen
  <2> QED
    BY <2>2, <2>3, <2>4
<1>16. ASSUME SiftDone PROVE QueuesSound'
  <2>1. /\ walk = <<>> /\ first' = good /\ batch' = bad \o batch
        /\ good' = <<>> /\ bad' = <<>>
        /\ at' = [c \in Cycle |-> CASE at[c] = "good" -> "first"
                                    [] at[c] = "bad"  -> "batch"
                                    [] OTHER          -> at[c]]
        /\ UNCHANGED <<dev, ready, last, walk>>
    BY <1>16 DEF SiftDone, appVars
  <2>2. In("first") = {}
    BY <1>16, <1>a, EmptyHolds DEF SiftDone, LibRuns, Bookkeeping
  <2>3. /\ After("first") = In("good")
        /\ After("batch") = In("bad") \cup In("batch") /\ In("bad") \cap In("batch") = {}
        /\ After("good") = {} /\ After("bad") = {}
        /\ \A p \in {"ready", "last", "walk"} : After(p) = In(p)
    BY <2>1, <2>2 DEF After, In
  <2>4. Holds(bad \o batch, In("bad") \cup In("batch"))
    BY ONLY <1>0, <1>a, <2>3, HoldsConcat
  <2>5. Holds(good', After("good")) /\ Holds(bad', After("bad"))
    BY <2>1, <2>3, HoldsEmpty
  <2>6. \A d \in Device : WaitingAfter(d) = Waiting(d)
    BY <2>1, <2>3, ReadyUnmoved
  <2> QED
    BY <1>a, <2>1, <2>3, <2>4, <2>5, <2>6, QueuesThen
<1>17. ASSUME at' = at, dev' = dev, UNCHANGED lists PROVE QueuesSound'
  <2>1. \A p \in Places : After(p) = In(p)
    BY <1>17 DEF After, In
  <2> QED
    BY <1>17, <2>1, SameLists
<1>18. ASSUME \/ \E c \in Cycle, k \in OpKind : QueueOp(c, k)
              \/ \E c \in Cycle : QueueOpFails(c)
              \/ \E e \in Elapse : Check(e)
              \/ ExpireDone \/ TransportsDone \/ DevicesDone \/ FlushRefused \/ KillDone
              \/ \E d \in Device : NextDevice(d)
              \/ Environment
              \/ UNCHANGED vars
       PROVE  at' = at /\ dev' = dev /\ UNCHANGED lists
  BY <1>18
  DEF QueueOp, QueueOpFails, Check, ExpireDone, TransportsDone, DevicesDone, FlushRefused,
      KillDone, NextDevice, Environment, LinkDies, Receive, Answer, libIdle, vars,
      appVars, respVars, siftVars, lists
<1>19. CASE Application
  BY ONLY <1>19, <1>1, <1>2, <1>4, <1>5, <1>17, <1>18 DEF Application
<1>20. CASE Library
  BY ONLY <1>20, <1>7, <1>8, <1>9, <1>10, <1>11, <1>12, <1>13, <1>14, <1>15, <1>16, <1>17,
          <1>18
  DEF Library
<1> QED
  BY ONLY [Next]_vars, <1>3, <1>6, <1>17, <1>18, <1>19, <1>20 DEF Next


Called == {"callback", "freed"}

CallbackRuns == \A c \in Cycle : at[c] = "callback" <=> running = c

\* A step that calls no callback, and one that calls that of c.
LEMMA CallsNone ==
  ASSUME CalledOnce, CallbackRuns, calls' = calls, running' = running,
         \A c \in Cycle : at'[c] = at[c] \/ (at[c] \notin Called /\ at'[c] \notin Called)
  PROVE  CalledOnce' /\ CallbackRuns'
  BY DEF CalledOnce, CallbackRuns, Called

LEMMA CallsOne ==
  ASSUME TypeOK, CalledOnce, CallbackRuns, running = None,
         NEW c \in Cycle, at[c] \notin Called, running' = c,
         calls' = [calls EXCEPT ![c] = @ + 1], at'[c] = "callback",
         \A b \in Cycle \ {c} :
           at'[b] = at[b] \/ (at[b] \notin Called /\ at'[b] \notin Called)
  PROVE  CalledOnce' /\ CallbackRuns'
<1>1. calls[c] = 0 /\ calls'[c] = 1
  BY DEF CalledOnce, Called, TypeOK
<1>2. \A b \in Cycle \ {c} : calls'[b] = calls[b]
  BY DEF TypeOK
<1>3. \A b \in Cycle : at[b] # "callback"
  BY CycleAssumption DEF CallbackRuns
<1> QED
  BY <1>1, <1>2, <1>3 DEF CalledOnce, CallbackRuns, Called

LEMMA StepCalls == Inv /\ [Next]_vars => CalledOnce' /\ CallbackRuns'
<1> SUFFICES ASSUME TypeOK, QueuesSound, CalledOnce, CallbackRuns, [Next]_vars
             PROVE  CalledOnce' /\ CallbackRuns'
  BY DEF Inv, Bookkeeping, CallbackRuns
<1>0. at \in [Cycle -> Place] /\ first \in Seq(Cycle) /\ batch \in Seq(Cycle)
  BY DEF TypeOK
<1>a. Holds(first, In("first")) /\ Holds(batch, In("batch"))
  BY QueuesNow
<1>1. ASSUME \/ \E c \in Cycle : Open(c)
             \/ \E c \in Cycle : Abort(c)
             \/ \E c \in Cycle, check, block \in BOOLEAN : Close(c, check, block)
      PROVE  CalledOnce' /\ CallbackRuns'
  <2>1. calls' = calls /\ running' = running
    BY <1>1 DEF Open, Abort, Close, history, libIdle
  <2>2. \A c \in Cycle : at'[c] = at[c] \/ (at[c] \notin Called /\ at'[c] \notin Called)
    BY <1>0, <1>1 DEF Open, Abort, Close, Called
  <2> QED
    BY <2>1, <2>2, CallsNone
<1>2. ASSUME NEW d \in Device, DeviceClose(d) PROVE CalledOnce' /\ CallbackRuns'
  <2>1. calls' = calls /\ running' = running
    BY <1>2 DEF DeviceClose, history
  <2>2. \A c \in Cycle : at'[c] = at[c] \/ (at[c] \notin Called /\ at'[c] \notin Called)
    BY <1>2 DEF DeviceClose, Called
  <2> QED
    BY <2>1, <2>2, CallsNone
<1>3. ASSUME CallbackReturns PROVE CalledOnce' /\ CallbackRuns'
  <2>1. /\ running \in Cycle /\ at[running] = "callback"
        /\ at' = [at EXCEPT ![running] = "freed"]
        /\ running' = None /\ calls' = calls
    BY <1>3 DEF CallbackReturns, CallbackRuns, TypeOK, history
  <2> QED
    BY <1>0, <2>1, CycleAssumption DEF CalledOnce, CallbackRuns
<1>4. ASSUME AskTimeout \/ WriteUnmatched \/ WritePart \/ FlushBegin \/ SiftDone
      PROVE  CalledOnce' /\ CallbackRuns'
  <2>1. calls' = calls /\ running' = running
    BY <1>4 DEF AskTimeout, WriteUnmatched, WritePart, FlushBegin, SiftDone, history
  <2>2. \A c \in Cycle : at'[c] = at[c] \/ (at[c] \notin Called /\ at'[c] \notin Called)
    BY <1>4 DEF AskTimeout, WriteUnmatched, WritePart, FlushBegin, SiftDone, Moved, Called
  <2> QED
    BY <2>1, <2>2, CallsNone
<1>5. ASSUME FlushSends \/ Sift PROVE CalledOnce' /\ CallbackRuns'
  <2>1. calls' = calls /\ running' = running
    BY <1>5 DEF FlushSends, Sift, history
  <2>a. walk \in Seq(Cycle) /\ Holds(walk, In("walk"))
    BY QueuesNow DEF TypeOK
  <2>2. walk # <<>> => Head(walk) \in Cycle /\ at[Head(walk)] = "walk"
    BY ONLY <2>a, HeadIsThere
  <2>3. batch # <<>> => Head(batch) \in Cycle /\ at[Head(batch)] = "batch"
    BY ONLY <1>0, <1>a, HeadIsThere
  <2>4. \A c \in Cycle : at'[c] = at[c] \/ (at[c] \notin Called /\ at'[c] \notin Called)
    BY <1>0, <1>5, <2>2, <2>3 DEF FlushSends, Sift, Called
  <2> QED
    BY <2>1, <2>4, CallsNone
<1>6. ASSUME Expire PROVE CalledOnce' /\ CallbackRuns'
  <2>1. Head(first) \in Cycle /\ at[Head(first)] = "first"
    <3>1. first # <<>>
      BY <1>6 DEF Expire
    <3> QED
      BY ONLY <1>0, <1>a, <3>1, HeadIsThere
  <2>2. /\ running = None /\ running' = Head(first)
        /\ calls' = [calls EXCEPT ![Head(first)] = @ + 1]
        /\ at' = [at EXCEPT ![Head(first)] = "callback"]
    BY <1>6 DEF Expire, Call, LibRuns
  <2>3. /\ at[Head(first)] \notin Called /\ at'[Head(first)] = "callback"
        /\ \A b \in Cycle \ {Head(first)} : at'[b] = at[b]
    BY <1>0, <2>1, <2>2 DEF Called
  <2> QED
    BY <2>1, <2>2, <2>3, CallsOne
<1>7. ASSUME FlushCalls \/ Kill PROVE CalledOnce' /\ CallbackRuns'
  <2>1. Head(batch) \in Cycle /\ at[Head(batch)] = "batch"
    <3>1. batch # <<>>
      BY <1>7 DEF FlushCalls, Kill
    <3> QED
      BY ONLY <1>0, <1>a, <3>1, HeadIsThere
  <2>2. /\ running = None /\ running' = Head(batch)
        /\ calls' = [calls EXCEPT ![Head(batch)] = @ + 1]
        /\ at' = [at EXCEPT ![Head(batch)] = "callback"]
    BY <1>7 DEF FlushCalls, Kill, Call, LibRuns
  <2>3. /\ at[Head(batch)] \notin Called /\ at'[Head(batch)] = "callback"
        /\ \A b \in Cycle \ {Head(batch)} : at'[b] = at[b]
    BY <1>0, <2>1, <2>2 DEF Called
  <2> QED
    BY <2>1, <2>2, <2>3, CallsOne
<1>8. ASSUME WriteLast PROVE CalledOnce' /\ CallbackRuns'
  <2> DEFINE t == Head(inbox)
             s == Searched(t)
  <2>1. PICK i \in 1..Len(s) :
          /\ running' = s[i]
          /\ calls' = [calls EXCEPT ![s[i]] = @ + 1]
          /\ at' = [PlacesAfterSearch(t) EXCEPT ![s[i]] = "callback"]
    BY <1>8 DEF WriteLast, PlacesAfterSearch
  <2>2. running = None
    BY <1>8 DEF WriteLast
  <2>3. Holds(s, {c \in Cycle : PlacesAfterSearch(t)[c] = "first"})
    BY SearchSound
  <2>4. s[i] \in Cycle /\ PlacesAfterSearch(t)[s[i]] = "first"
    BY <2>3 DEF Holds
  <2>5. /\ PlacesAfterSearch(t) \in [Cycle -> Place]
        /\ \A b \in Cycle : \/ PlacesAfterSearch(t)[b] = at[b]
                            \/ at[b] = "last" /\ PlacesAfterSearch(t)[b] = "first"
    BY <1>0 DEF PlacesAfterSearch, Moved, Place
  <2> HIDE DEF t, s
  <2>6. /\ at[s[i]] \notin Called
        /\ at'[s[i]] = "callback"
        /\ \A b \in Cycle \ {s[i]} :
             at'[b] = at[b] \/ (at[b] \notin Called /\ at'[b] \notin Called)
    BY <2>1, <2>4, <2>5 DEF Called
  <2> QED
    BY <2>1, <2>2, <2>4, <2>6, CallsOne
<1>9. ASSUME at' = at, calls' = calls, running' = running
      PROVE  CalledOnce' /\ CallbackRuns'
  BY <1>9, CallsNone
<1>10. ASSUME \/ \E c \in Cycle, k \in OpKind : QueueOp(c, k)
              \/ \E c \in Cycle : QueueOpFails(c)
              \/ \E e \in Elapse : Check(e)
              \/ ExpireDone \/ TransportsDone \/ DevicesDone \/ FlushRefused \/ FlushEnd
              \/ KillDone
              \/ \E d \in Device : NextDevice(d)
              \/ Environment
              \/ UNCHANGED vars
       PROVE  at' = at /\ calls' = calls /\ running' = running
  BY <1>10
  DEF QueueOp, QueueOpFails, Check, ExpireDone, TransportsDone, DevicesDone, FlushRefused,
      FlushEnd, KillDone, NextDevice, Environment, LinkDies, Receive, Answer, libIdle,
      history, vars
<1>11. CASE Application
  BY ONLY <1>11, <1>1, <1>2, <1>9, <1>10 DEF Application
<1>12. CASE Library
  BY ONLY <1>12, <1>4, <1>5, <1>6, <1>7, <1>8, <1>9, <1>10 DEF Library
<1> QED
  BY ONLY [Next]_vars, <1>3, <1>4, <1>9, <1>10, <1>11, <1>12 DEF Next

\* The lists a stage works on, at the step that ends the stage.
LEMMA StepStages == ~Reentrant /\ Inv /\ [Next]_vars => Bookkeeping'
<1> SUFFICES ASSUME ~Reentrant, Inv, [Next]_vars PROVE Bookkeeping'
  OBVIOUS
<1>0. TypeOK /\ QueuesSound /\ Bookkeeping
  BY DEF Inv
<1>c. CallbackRuns'
  BY StepCalls
<1> USE <1>0 DEF Bookkeeping
<1>1. ASSUME \/ \E c \in Cycle : Open(c)
             \/ \E c \in Cycle, k \in OpKind : QueueOp(c, k)
             \/ \E c \in Cycle : QueueOpFails(c)
             \/ \E c \in Cycle : Abort(c)
             \/ CallbackReturns
             \/ UNCHANGED vars
      PROVE  Bookkeeping'
  <2>1. UNCHANGED <<pc, target, ready, batch, first, last, walk, good, bad, inbox>>
    BY <1>1
    DEF Open, QueueOp, QueueOpFails, Abort, CallbackReturns, libIdle, respVars, pollVars,
        siftVars, vars
  <2> QED
    BY <1>c, <2>1 DEF CallbackRuns
<1>2. ASSUME NEW c \in Cycle, NEW check \in BOOLEAN, NEW block \in BOOLEAN,
             Close(c, check, block)
      PROVE  Bookkeeping'
  <2>1. /\ UNCHANGED <<pc, target, batch, first, last, walk, good, bad, inbox>>
        /\ pc # "flush" \/ dev[c] # target
        /\ ready' = [ready EXCEPT ![dev[c]] = <<c>> \o @]
    BY <1>2 DEF Close, respVars, pollVars, siftVars
  <2>2. pc = "flush" => ready'[target] = ready[target]
    BY <2>1 DEF TypeOK
  <2> QED
    BY <1>c, <2>1, <2>2 DEF CallbackRuns
<1>3. ASSUME NEW d \in Device, DeviceClose(d) PROVE Bookkeeping'
  <2>1. /\ pc = "app" /\ pc' = "sift" /\ first' = <<>> /\ last' = <<>> /\ inbox' = inbox
    BY <1>3 DEF DeviceClose, AppRuns
  <2> QED
    BY <1>c, <2>1 DEF CallbackRuns
<1>4. ASSUME AskTimeout PROVE Bookkeeping'
  <2>1. pc = "app" /\ UNCHANGED <<pc, target, ready, batch, walk, good, bad, inbox>>
    BY <1>4 DEF AskTimeout, LibRuns, pollVars, siftVars
  <2> QED
    BY <1>c, <2>1 DEF CallbackRuns
<1>5. ASSUME NEW e \in Elapse, Check(e) PROVE Bookkeeping'
  <2>1. /\ pc = "app" /\ pc' = "expire"
        /\ UNCHANGED <<batch, walk, good, bad, inbox>>
    BY <1>5 DEF Check, LibRuns, siftVars
  <2> QED
    BY <1>c, <2>1 DEF CallbackRuns
<1>6. ASSUME Expire \/ ExpireDone \/ TransportsDone \/ DevicesDone \/ FlushRefused
             \/ \E d \in Device : NextDevice(d)
      PROVE  Bookkeeping'
  <2>1. /\ pc \in {"expire", "transports", "devices", "device"}
        /\ pc' \in {"expire", "transports", "devices", "device", "app"}
        /\ inbox = <<>>
        /\ UNCHANGED <<batch, walk, good, bad, inbox>>
    BY <1>6
    DEF Expire, ExpireDone, TransportsDone, DevicesDone, FlushRefused, NextDevice, LibRuns,
        siftVars, pollVars
  <2> QED
    BY <1>c, <2>1 DEF CallbackRuns
<1>7. ASSUME Environment PROVE Bookkeeping'
  <2>1. /\ UNCHANGED <<pc, target, ready, batch, first, last, walk, good, bad>>
        /\ inbox' # <<>> => inbox' = inbox \/ pc \in {"transports", "device"}
    BY <1>7 DEF Environment, Receive, LinkDies, Answer, pollVars, respVars, siftVars
  <2> QED
    BY <1>c, <2>1 DEF CallbackRuns
<1>8. ASSUME WriteUnmatched \/ WritePart \/ WriteLast PROVE Bookkeeping'
  <2>1. pc \in {"transports", "device"} /\ UNCHANGED <<pc, batch, walk, good, bad>>
    BY <1>8 DEF WriteUnmatched, WritePart, WriteLast, pollVars, siftVars
  <2> QED
    BY <1>c, <2>1 DEF CallbackRuns
<1>9. ASSUME FlushBegin PROVE Bookkeeping'
  <2>1. /\ pc = "device" /\ pc' = "flush" /\ target' = target /\ target \in Device
        /\ ready' = [ready EXCEPT ![target] = <<>>]
        /\ inbox = <<>> /\ UNCHANGED <<walk, good, bad, inbox>>
    BY <1>9 DEF FlushBegin, LibRuns, siftVars, TypeOK
  <2>2. ready'[target'] = <<>>
    BY <2>1 DEF TypeOK
  <2> QED
    BY <1>c, <2>1, <2>2 DEF CallbackRuns
<1>10. ASSUME FlushCalls \/ FlushSends PROVE Bookkeeping'
  <2>1. /\ pc = "flush" /\ UNCHANGED <<pc, target, ready, walk, good, bad, inbox>>
    BY <1>10 DEF FlushCalls, FlushSends, LibRuns, pollVars, siftVars
  <2> QED
    BY <1>c, <2>1 DEF CallbackRuns
<1>11. ASSUME FlushEnd PROVE Bookkeeping'
  <2>1. /\ pc = "flush" /\ pc' = "devices" /\ batch = <<>>
        /\ UNCHANGED <<batch, walk, good, bad, inbox>>
    BY <1>11 DEF FlushEnd, LibRuns, siftVars
  <2> QED
    BY <1>c, <2>1 DEF CallbackRuns
<1>12. ASSUME Sift PROVE Bookkeeping'
  <2>1. pc = "sift" /\ UNCHANGED <<pc, first, last, inbox>>
    BY <1>12 DEF Sift, LibRuns, pollVars, respVars
  <2> QED
    BY <1>c, <2>1 DEF CallbackRuns
<1>13. ASSUME SiftDone PROVE Bookkeeping'
  <2>1. /\ pc = "sift" /\ pc' = "kill" /\ walk = <<>> /\ walk' = walk
        /\ good' = <<>> /\ bad' = <<>> /\ inbox' = inbox
    BY <1>13 DEF SiftDone, LibRuns
  <2> QED
    BY <1>c, <2>1 DEF CallbackRuns
<1>14. ASSUME Kill PROVE Bookkeeping'
  <2>1. pc = "kill" /\ UNCHANGED <<pc, walk, good, bad, inbox>>
    BY <1>14 DEF Kill, LibRuns, pollVars, siftVars
  <2> QED
    BY <1>c, <2>1 DEF CallbackRuns
<1>15. ASSUME KillDone PROVE Bookkeeping'
  <2>1. /\ pc = "kill" /\ pc' = "app" /\ batch = <<>>
        /\ UNCHANGED <<batch, walk, good, bad, inbox>>
    BY <1>15 DEF KillDone, LibRuns, siftVars
  <2> QED
    BY <1>c, <2>1 DEF CallbackRuns
<1>16. CASE Application
  BY ONLY <1>16, <1>1, <1>2, <1>3 DEF Application
<1>17. CASE Library
  BY ONLY <1>17, <1>6, <1>8, <1>9, <1>10, <1>11, <1>12, <1>13, <1>14, <1>15 DEF Library
<1> QED
  BY ONLY [Next]_vars, <1>1, <1>4, <1>5, <1>7, <1>16, <1>17 DEF Next

LEMMA InitInv == Init => Inv
<1> SUFFICES ASSUME Init PROVE Inv
  OBVIOUS
<1>1. TypeOK
  BY InitTyped
<1>2. /\ \A d \in Device : ready[d] = <<>> /\ Waiting(d) = {}
      /\ batch = <<>> /\ first = <<>> /\ last = <<>>
      /\ walk = <<>> /\ good = <<>> /\ bad = <<>>
      /\ \A p : p # "unused" => In(p) = {}
  BY DEF Init, In, Waiting
<1>3. QueuesSound
  <2>1. \A d \in Device : Holds(ready[d], Waiting(d))
    BY <1>2, HoldsEmpty
  <2> QED
    BY <1>2, <2>1, HoldsEmpty DEF QueuesSound, Waiting
<1>4. CalledOnce
  BY DEF Init, CalledOnce
<1>5. Bookkeeping
  BY <1>2, CycleAssumption DEF Init, Bookkeeping
<1> QED
  BY <1>1, <1>3, <1>4, <1>5 DEF Inv

LEMMA StepInv == ~Reentrant /\ Inv /\ [Next]_vars => Inv'
  BY StepTyped, StepQueues, StepCalls, StepStages DEF Inv

\* If no callback made by a flush queues a cycle on the device being flushed,
\* every cycle is on the one list it belongs to, at every step.
THEOREM NoneLost ==
  ASSUME ~Reentrant
  PROVE  Spec => []QueuesSound
<1>1. Inv /\ [Next]_vars => Inv'
  BY StepInv
<1>2. Inv => QueuesSound
  BY DEF Inv
<1> QED
  BY InitInv, <1>1, <1>2, PTL DEF Spec

\* ... and the callback of each cycle is called once when the cycle is over,
\* and was not called before.
THEOREM CallbackOnce ==
  ASSUME ~Reentrant
  PROVE  Spec => []CalledOnce
<1>1. Inv /\ [Next]_vars => Inv'
  BY StepInv
<1>2. Inv => CalledOnce
  BY DEF Inv
<1> QED
  BY InitInv, <1>1, <1>2, PTL DEF Spec

(* Part 2: orders.                                                         *)

-----------------------------------------------------------------------------
(* Lists in an order R, a set of pairs of cycles.                          *)

Elements(s) == {s[i] : i \in DOMAIN s}

\* Whatever comes earlier on the list is related to what comes later.
Along(R, s) == \A i, j \in DOMAIN s : i < j => <<s[i], s[j]>> \in R

\* Everything in A is related to everything in B.
Before(R, A, B) == \A a \in A, b \in B : <<a, b>> \in R

Back(R) == {p \in Cycle \X Cycle : <<p[2], p[1]>> \in R}

LEMMA NothingInOrder ==
  ASSUME NEW R
  PROVE  Along(R, <<>>) /\ Elements(<<>>) = {}
  BY DEF Along, Elements

LEMMA HoldsElements ==
  ASSUME NEW s, NEW S, Holds(s, S)
  PROVE  Elements(s) = S
  BY DEF Holds, Elements

LEMMA BackBefore ==
  ASSUME NEW R, NEW A \in SUBSET Cycle, NEW B \in SUBSET Cycle
  PROVE  Before(R, A, B) <=> Before(Back(R), B, A)
  BY DEF Before, Back

LEMMA JoinInOrder ==
  ASSUME NEW R, NEW s \in Seq(Cycle), NEW t \in Seq(Cycle)
  PROVE  /\ Elements(s \o t) = Elements(s) \cup Elements(t)
         /\ Along(R, s) /\ Along(R, t) /\ Before(R, Elements(s), Elements(t))
              => Along(R, s \o t)
<1>1. Len(s) \in Nat /\ Len(t) \in Nat
  OBVIOUS
<1>2. /\ s \o t \in Seq(Cycle)
      /\ Len(s \o t) = Len(s) + Len(t)
      /\ DOMAIN (s \o t) = 1..Len(s)+Len(t)
      /\ \A i \in 1..Len(s)+Len(t) : (s \o t)[i] = IF i <= Len(s) THEN s[i] ELSE t[i - Len(s)]
  BY <1>1
<1>3. \A i \in 1..Len(s)+Len(t) : i > Len(s) => i - Len(s) \in 1..Len(t)
  BY <1>1
<1>4. /\ \A i \in 1..Len(s) : i \in 1..Len(s)+Len(t) /\ (s \o t)[i] = s[i]
      /\ \A i \in 1..Len(t) : /\ i + Len(s) \in 1..Len(s)+Len(t)
                              /\ (s \o t)[i + Len(s)] = t[i]
  BY <1>1, <1>2
<1>5. Elements(s \o t) \subseteq Elements(s) \cup Elements(t)
  BY <1>1, <1>2, <1>3 DEF Elements
<1>6. Elements(s) \cup Elements(t) \subseteq Elements(s \o t)
  <2>1. \A i \in 1..Len(s) : \E j \in 1..Len(s)+Len(t) : (s \o t)[j] = s[i]
    BY <1>4
  <2>2. \A i \in 1..Len(t) : \E j \in 1..Len(s)+Len(t) : (s \o t)[j] = t[i]
    BY <1>4
  <2> SUFFICES ASSUME NEW x, x \in Elements(s) \cup Elements(t)
               PROVE  \E j \in 1..Len(s)+Len(t) : (s \o t)[j] = x
    BY <1>2, Zenon DEF Elements
  <2>3. CASE x \in Elements(s)
    <3>1. PICK i \in 1..Len(s) : s[i] = x
      BY <2>3 DEF Elements
    <3> QED
      BY <2>1, <3>1
  <2>4. CASE x \in Elements(t)
    <3>1. PICK i \in 1..Len(t) : t[i] = x
      BY <2>4 DEF Elements
    <3> QED
      BY <2>2, <3>1
  <2> QED
    BY <2>3, <2>4
<1>7. ASSUME Along(R, s), Along(R, t), Before(R, Elements(s), Elements(t)),
             NEW i \in 1..Len(s)+Len(t), NEW j \in 1..Len(s)+Len(t), i < j
      PROVE  <<(s \o t)[i], (s \o t)[j]>> \in R
  <2>1. CASE j <= Len(s)
    BY <1>1, <1>2, <1>7, <2>1 DEF Along
  <2>2. CASE i <= Len(s) /\ j > Len(s)
    <3>1. i \in DOMAIN s /\ j - Len(s) \in DOMAIN t
      BY <1>1, <1>3, <2>2
    <3>2. s[i] \in Elements(s) /\ t[j - Len(s)] \in Elements(t)
      BY <3>1 DEF Elements
    <3>3. (s \o t)[i] = s[i] /\ (s \o t)[j] = t[j - Len(s)]
      BY <1>1, <1>2, <2>2
    <3> QED
      BY <1>7, <3>2, <3>3 DEF Before
  <2>3. CASE i > Len(s)
    <3>1. j > Len(s)
      BY <1>1, <1>7, <2>3
    <3>2. /\ i - Len(s) \in DOMAIN t /\ j - Len(s) \in DOMAIN t
          /\ i - Len(s) < j - Len(s)
      BY <1>1, <1>3, <1>7, <2>3, <3>1
    <3>3. (s \o t)[i] = t[i - Len(s)] /\ (s \o t)[j] = t[j - Len(s)]
      BY <1>1, <1>2, <2>3, <3>1
    <3> QED
      BY <1>7, <3>2, <3>3 DEF Along
  <2>4. j <= Len(s) \/ (i <= Len(s) /\ j > Len(s)) \/ i > Len(s)
    BY <1>1
  <2> QED
    BY ONLY <2>1, <2>2, <2>3, <2>4
<1> QED
  BY <1>2, <1>5, <1>6, <1>7 DEF Along

LEMMA PushInOrder ==
  ASSUME NEW R, NEW s \in Seq(Cycle), NEW x \in Cycle
  PROVE  /\ Elements(<<x>> \o s) = Elements(s) \cup {x}
         /\ Along(R, s) /\ Before(R, {x}, Elements(s)) => Along(R, <<x>> \o s)
<1>1. <<x>> \in Seq(Cycle) /\ Elements(<<x>>) = {x} /\ Along(R, <<x>>)
  BY DEF Elements, Along
<1>2. /\ Elements(<<x>> \o s) = Elements(<<x>>) \cup Elements(s)
      /\ Along(R, <<x>>) /\ Along(R, s) /\ Before(R, Elements(<<x>>), Elements(s))
           => Along(R, <<x>> \o s)
  BY ONLY <1>1, JoinInOrder, s \in Seq(Cycle)
<1> QED
  BY ONLY <1>1, <1>2

LEMMA FlipInOrder ==
  ASSUME NEW R, NEW s \in Seq(Cycle)
  PROVE  /\ Elements(Flipped(s)) = Elements(s)
         /\ Along(R, s) => Along(Back(R), Flipped(s))
         /\ Along(Back(R), s) => Along(R, Flipped(s))
<1>1. /\ Len(s) \in Nat /\ DOMAIN s = 1..Len(s)
      /\ DOMAIN Flipped(s) = 1..Len(s)
      /\ \A i \in 1..Len(s) : Flipped(s)[i] = s[Len(s) + 1 - i]
  BY DEF Flipped
<1>2. \A i \in 1..Len(s) : Len(s) + 1 - i \in 1..Len(s) /\ Len(s) + 1 - (Len(s) + 1 - i) = i
  BY <1>1
<1>3. \A i, j \in 1..Len(s) : i < j => Len(s) + 1 - j < Len(s) + 1 - i
  BY <1>1
<1>4. \A i \in 1..Len(s) : s[i] \in Cycle
  OBVIOUS
<1>5. Elements(Flipped(s)) = Elements(s)
  <2>1. \A i \in 1..Len(s) : \E j \in 1..Len(s) : Flipped(s)[i] = s[j]
    BY <1>1, <1>2
  <2>2. \A j \in 1..Len(s) : \E i \in 1..Len(s) : Flipped(s)[i] = s[j]
    <3> SUFFICES ASSUME NEW j \in 1..Len(s)
                 PROVE  \E i \in 1..Len(s) : Flipped(s)[i] = s[j]
      OBVIOUS
    <3>1. Flipped(s)[Len(s) + 1 - j] = s[j]
      BY <1>1, <1>2
    <3> QED
      BY <1>2, <3>1
  <2>3. /\ Elements(s) = {s[i] : i \in 1..Len(s)}
        /\ Elements(Flipped(s)) = {Flipped(s)[i] : i \in 1..Len(s)}
    BY <1>1, Zenon DEF Elements
  <2>4. ASSUME NEW x, x \in Elements(Flipped(s)) PROVE x \in Elements(s)
    <3>1. PICK i \in 1..Len(s) : Flipped(s)[i] = x
      BY <2>3, <2>4, Zenon
    <3>2. PICK j \in 1..Len(s) : s[j] = x
      BY <2>1, <3>1, Zenon
    <3> QED
      BY <2>3, <3>2, Zenon
  <2>5. ASSUME NEW x, x \in Elements(s) PROVE x \in Elements(Flipped(s))
    <3>1. PICK j \in 1..Len(s) : s[j] = x
      BY <2>3, <2>5, Zenon
    <3>2. PICK i \in 1..Len(s) : Flipped(s)[i] = x
      BY <2>2, <3>1, Zenon
    <3> QED
      BY <2>3, <3>2, Zenon
  <2> QED
    BY <2>4, <2>5, Zenon
<1>6. ASSUME Along(R, s), NEW i \in 1..Len(s), NEW j \in 1..Len(s), i < j
      PROVE  <<Flipped(s)[i], Flipped(s)[j]>> \in Back(R)
  <2>1. <<s[Len(s) + 1 - j], s[Len(s) + 1 - i]>> \in R
    BY <1>1, <1>2, <1>3, <1>6 DEF Along
  <2> QED
    BY <1>1, <1>2, <1>4, <2>1 DEF Back
<1>7. ASSUME Along(Back(R), s), NEW i \in 1..Len(s), NEW j \in 1..Len(s), i < j
      PROVE  <<Flipped(s)[i], Flipped(s)[j]>> \in R
  <2>1. <<s[Len(s) + 1 - j], s[Len(s) + 1 - i]>> \in Back(R)
    BY <1>1, <1>2, <1>3, <1>7 DEF Along
  <2> QED
    BY <1>1, <2>1 DEF Back
<1> QED
  BY <1>1, <1>5, <1>6, <1>7 DEF Along

LEMMA TailInOrder ==
  ASSUME NEW R, NEW s \in Seq(Cycle), s # <<>>
  PROVE  /\ Head(s) \in Elements(s)
         /\ Elements(Tail(s)) \subseteq Elements(s)
         /\ Along(R, s) => Along(R, Tail(s)) /\ Before(R, {Head(s)}, Elements(Tail(s)))
<1>1. /\ Len(s) \in Nat /\ Len(s) # 0 /\ DOMAIN s = 1..Len(s)
      /\ DOMAIN Tail(s) = 1..Len(s)-1
      /\ \A i \in 1..Len(s)-1 : Tail(s)[i] = s[i + 1]
      /\ Head(s) = s[1]
  OBVIOUS
<1>2. \A i \in 1..Len(s)-1 : i + 1 \in 1..Len(s) /\ 1 < i + 1
  BY <1>1
<1>3. 1 \in 1..Len(s)
  BY <1>1
<1>4. Elements(Tail(s)) \subseteq Elements(s)
  BY <1>1, <1>2 DEF Elements
<1>5. ASSUME Along(R, s) PROVE Along(R, Tail(s)) /\ Before(R, {Head(s)}, Elements(Tail(s)))
  <2>1. \A i, j \in 1..Len(s)-1 : i < j => i + 1 < j + 1
    BY <1>1
  <2>2. Along(R, Tail(s))
    BY <1>1, <1>2, <1>5, <2>1 DEF Along
  <2>3. \A i \in 1..Len(s)-1 : <<Head(s), Tail(s)[i]>> \in R
    BY <1>1, <1>2, <1>3, <1>5 DEF Along
  <2> QED
    BY <1>1, <2>2, <2>3 DEF Before, Elements
<1> QED
  BY <1>1, <1>3, <1>4, <1>5 DEF Elements

LEMMA CutInOrder ==
  ASSUME NEW R, NEW s \in Seq(Cycle), NEW k \in 1..Len(s)
  PROVE  /\ Elements(Without(s, k)) \subseteq Elements(s)
         /\ Along(R, s) => Along(R, Without(s, k))
<1> DEFINE a == SubSeq(s, 1, k - 1)
           b == SubSeq(s, k + 1, Len(s))
<1>1. Len(s) \in Nat /\ k \in Nat /\ 1 <= k /\ k <= Len(s) /\ DOMAIN s = 1..Len(s)
  OBVIOUS
<1>2. /\ a \in Seq(Cycle) /\ DOMAIN a = 1..k-1
      /\ \A i \in 1..k-1 : a[i] = s[i] /\ i \in 1..Len(s)
  BY <1>1
<1>3. /\ b \in Seq(Cycle) /\ DOMAIN b = 1..Len(s)-k
      /\ \A i \in 1..Len(s)-k : b[i] = s[i + k] /\ i + k \in 1..Len(s)
  BY <1>1
<1>4. Without(s, k) = a \o b
  BY DEF Without
<1> HIDE DEF a, b
<1>5. Elements(a) \subseteq Elements(s) /\ Elements(b) \subseteq Elements(s)
  BY <1>1, <1>2, <1>3 DEF Elements
<1>6. ASSUME Along(R, s) PROVE Along(R, a \o b)
  <2>1. Along(R, a)
    BY <1>1, <1>2, <1>6 DEF Along
  <2>2. Along(R, b)
    <3>1. \A i, j \in 1..Len(s)-k : i < j => i + k < j + k
      BY <1>1
    <3> QED
      BY <1>1, <1>3, <1>6, <3>1 DEF Along
  <2>3. \A i \in 1..k-1, j \in 1..Len(s)-k : <<a[i], b[j]>> \in R
    <3>1. \A i \in 1..k-1, j \in 1..Len(s)-k : i < j + k
      BY <1>1
    <3> QED
      BY <1>1, <1>2, <1>3, <1>6, <3>1 DEF Along
  <2>4. Before(R, Elements(a), Elements(b))
    BY <1>2, <1>3, <2>3 DEF Before, Elements
  <2> QED
    BY <1>2, <1>3, <2>1, <2>2, <2>4, JoinInOrder
<1> QED
  BY <1>2, <1>3, <1>4, <1>5, <1>6, JoinInOrder

\* A list stays in order when the order only grows among its elements.
LEMMA OrderGrows ==
  ASSUME NEW R, NEW Q, NEW s \in Seq(Cycle), Along(R, s),
         \A a, b \in Elements(s) : <<a, b>> \in R => <<a, b>> \in Q
  PROVE  Along(Q, s)
  BY DEF Along, Elements

-----------------------------------------------------------------------------
(* The deadlines.                                                          *)

\* The pairs of cycles of which the first one expires no later, when the
\* responses are r; R is such an order below.
Sooner(r) == {p \in Cycle \X Cycle : r[p[1]].left <= r[p[2]].left}

\* The lists of responses f (first), l (last), w (walk) and g (good) in the
\* order R: the older ones oldest first, the younger ones newest first, those
\* a filter has yet to see newest first, those it has let pass oldest first.
LineUp(R, f, l, w, g) ==
  /\ Along(R, f)
  /\ Along(Back(R), l)
  /\ Before(R, Elements(f), Elements(l))
  /\ Along(Back(R), w)
  /\ Along(R, g)
  /\ Before(R, Elements(w), Elements(g))

\* A new response waits as long as any other: the clock only shortens that.
Young(r) == \A c \in Cycle : r[c].left <= Timeout

DeadlinesSound == LineUp(Sooner(resp), first, last, walk, good) /\ Young(resp)

Listed == {c \in Cycle : at[c] \in {"first", "last", "walk", "good"}}

LEMMA ListedElements ==
  ASSUME QueuesSound
  PROVE  /\ Elements(first) = In("first") /\ Elements(last) = In("last")
         /\ Elements(walk) = In("walk") /\ Elements(good) = In("good")
         /\ In("first") \subseteq Listed /\ In("last") \subseteq Listed
         /\ In("walk") \subseteq Listed /\ In("good") \subseteq Listed
<1>1. /\ Elements(first) = In("first") /\ Elements(last) = In("last")
      /\ Elements(walk) = In("walk") /\ Elements(good) = In("good")
  BY QueuesNow, HoldsElements
<1> QED
  BY <1>1 DEF In, Listed

LEMMA BackGrows ==
  ASSUME NEW R, NEW Q, NEW S \in SUBSET Cycle,
         \A a, b \in S : <<a, b>> \in R => <<a, b>> \in Q
  PROVE  \A a, b \in S : <<a, b>> \in Back(R) => <<a, b>> \in Back(Q)
  BY DEF Back

LEMMA LineGrows ==
  ASSUME TypeOK, QueuesSound, NEW R, NEW Q, LineUp(R, first, last, walk, good),
         \A a, b \in Listed : <<a, b>> \in R => <<a, b>> \in Q
  PROVE  LineUp(Q, first, last, walk, good)
<1>1. first \in Seq(Cycle) /\ last \in Seq(Cycle) /\ walk \in Seq(Cycle) /\ good \in Seq(Cycle)
  BY DEF TypeOK
<1>2. /\ Elements(first) \subseteq Listed /\ Elements(last) \subseteq Listed
      /\ Elements(walk) \subseteq Listed /\ Elements(good) \subseteq Listed
  BY ListedElements
<1>3. \A a, b \in Listed : <<a, b>> \in Back(R) => <<a, b>> \in Back(Q)
  BY BackGrows DEF Listed
<1>4. /\ Along(R, first) /\ Along(Back(R), last) /\ Along(Back(R), walk) /\ Along(R, good)
      /\ Before(R, Elements(first), Elements(last))
      /\ Before(R, Elements(walk), Elements(good))
  BY DEF LineUp
<1>5. Along(Q, first) /\ Along(Q, good)
  BY ONLY <1>1, <1>2, <1>4, OrderGrows,
          \A a, b \in Listed : <<a, b>> \in R => <<a, b>> \in Q
<1>6. Along(Back(Q), last) /\ Along(Back(Q), walk)
  BY ONLY <1>1, <1>2, <1>3, <1>4, OrderGrows
<1>7. /\ Before(Q, Elements(first), Elements(last))
      /\ Before(Q, Elements(walk), Elements(good))
  BY <1>2, <1>4 DEF Before
<1> QED
  BY <1>5, <1>6, <1>7 DEF LineUp

\* Searching for a response joins the lists, which leaves them in order.
LEMMA SearchInOrder ==
  ASSUME TypeOK, NEW R, NEW t, LineUp(R, first, last, walk, good)
  PROVE  /\ Searched(t) \in Seq(Cycle)
         /\ LineUp(R, Searched(t), LastAfterSearch(t), walk, good)
<1>1. first \in Seq(Cycle) /\ last \in Seq(Cycle)
  BY DEF TypeOK
<1>2. CASE Matches(first, t) # {}
  BY <1>1, <1>2 DEF Searched, LastAfterSearch
<1>3. CASE Matches(first, t) = {}
  <2>1. Searched(t) = first \o Flipped(last) /\ LastAfterSearch(t) = <<>>
    BY <1>3 DEF Searched, LastAfterSearch
  <2>2. /\ Along(R, first) /\ Along(Back(R), last)
        /\ Before(R, Elements(first), Elements(last))
        /\ Along(Back(R), walk) /\ Along(R, good) /\ Before(R, Elements(walk), Elements(good))
    BY DEF LineUp
  <2>3. /\ Flipped(last) \in Seq(Cycle)
        /\ Along(R, Flipped(last)) /\ Elements(Flipped(last)) = Elements(last)
    BY ONLY <1>1, <2>2, FlipInOrder, ListTypes
  <2>4. Along(R, first \o Flipped(last)) /\ first \o Flipped(last) \in Seq(Cycle)
    BY ONLY <1>1, <2>2, <2>3, JoinInOrder, ListTypes
  <2>5. Along(Back(R), <<>>) /\ Elements(<<>>) = {}
    BY NothingInOrder
  <2>6. Before(R, Elements(first \o Flipped(last)), {})
    BY DEF Before
  <2> QED
    BY ONLY <2>1, <2>2, <2>4, <2>5, <2>6 DEF LineUp
<1> QED
  BY <1>2, <1>3

\* Every step leaves the lists in the order of the deadlines.
LEMMA StepDeadlines ==
  ASSUME Inv, DeadlinesSound, [Next]_vars
  PROVE  DeadlinesSound'
<1> DEFINE R == Sooner(resp)
<1>0. TypeOK /\ QueuesSound /\ Bookkeeping
  BY DEF Inv
<1>a. /\ first \in Seq(Cycle) /\ last \in Seq(Cycle) /\ batch \in Seq(Cycle)
      /\ walk \in Seq(Cycle) /\ good \in Seq(Cycle)
      /\ \A c \in Cycle : resp[c] \in Response /\ resp[c].left \in Nat
      /\ resp \in [Cycle -> Response]
  BY <1>0 DEF TypeOK, Response
<1>b. Young(resp)
  BY DEF DeadlinesSound
<1>c. /\ Along(R, first) /\ Along(Back(R), last) /\ Before(R, Elements(first), Elements(last))
      /\ Along(Back(R), walk) /\ Along(R, good) /\ Before(R, Elements(walk), Elements(good))
  BY DEF DeadlinesSound, LineUp
<1>d. LineUp(R, first, last, walk, good)
  BY DEF DeadlinesSound
<1>e. Elements(<<>>) = {} /\ \A Q : Along(Q, <<>>)
  BY NothingInOrder
<1>f. \A Q, S : Before(Q, {}, S) /\ Before(Q, S, {})
  BY DEF Before
<1> HIDE DEF R
<1>g. /\ Elements(first) \in SUBSET Cycle /\ Elements(last) \in SUBSET Cycle
      /\ Elements(walk) \in SUBSET Cycle /\ Elements(good) \in SUBSET Cycle
  BY <1>0, ListedElements DEF In
<1>1. ASSUME UNCHANGED <<resp, first, last, walk, good>> PROVE DeadlinesSound'
  <2>1. Sooner(resp)' = R
    BY <1>1 DEF R, Sooner
  <2> QED
    BY <1>1, <1>b, <1>d, <2>1 DEF DeadlinesSound, Young, LineUp, Along, Elements
<1>2. ASSUME resp' = resp, LineUp(R, first', last', walk', good') PROVE DeadlinesSound'
  <2>1. Sooner(resp') = R /\ Young(resp')
    BY <1>2, <1>b DEF R
  <2> QED
    BY <1>2, <2>1 DEF DeadlinesSound
<1>3. CASE AskTimeout
  <2>1. /\ first = <<>> /\ first' = Flipped(last) /\ last' = <<>>
        /\ UNCHANGED <<resp, walk, good>>
    BY <1>3 DEF AskTimeout, siftVars
  <2>2. Along(R, Flipped(last))
    BY <1>a, <1>c, FlipInOrder
  <2>3. LineUp(R, first', last', walk', good')
    BY ONLY <1>c, <1>e, <1>f, <2>1, <2>2 DEF LineUp
  <2> QED
    BY <1>2, <2>1, <2>3
<1>4. CASE Expire
  <2>1. /\ first # <<>> /\ first' = Tail(first) /\ UNCHANGED <<resp, last, walk, good>>
    BY <1>4 DEF Expire, siftVars
  <2>2. Along(R, Tail(first)) /\ Elements(Tail(first)) \subseteq Elements(first)
    BY <1>a, <1>c, <2>1, TailInOrder
  <2>3. Before(R, Elements(Tail(first)), Elements(last))
    BY <1>c, <2>2 DEF Before
  <2>4. LineUp(R, first', last', walk', good')
    BY ONLY <1>c, <2>1, <2>2, <2>3 DEF LineUp
  <2> QED
    BY <1>2, <2>1, <2>4
<1>5. CASE ExpireDone
  <2>1. /\ \A c \in Cycle : resp'[c].left = IF resp[c].left > elapsed
                                           THEN resp[c].left - elapsed ELSE 0
        /\ UNCHANGED <<first, last, walk, good>>
    BY <1>5, <1>a DEF ExpireDone, siftVars, Response
  <2>2. elapsed \in Nat
    BY <1>0 DEF TypeOK
  <2>3. Young(resp')
    <3>1. SUFFICES ASSUME NEW c \in Cycle PROVE resp'[c].left <= Timeout
      BY DEF Young
    <3>2. resp[c].left \in Nat /\ resp[c].left <= Timeout /\ Timeout \in Nat
      BY <1>a, <1>b, CycleAssumption DEF Young
    <3> QED
      BY <2>1, <2>2, <3>2
  <2>4. \A a, b \in Cycle : resp[a].left <= resp[b].left => resp'[a].left <= resp'[b].left
    BY <1>a, <2>1, <2>2, SMTT(30)
  <2>5. \A a, b \in Listed : <<a, b>> \in R => <<a, b>> \in Sooner(resp')
    BY <2>4 DEF R, Sooner, Listed
  <2>6. LineUp(Sooner(resp'), first, last, walk, good)
    BY ONLY <1>0, <1>d, <2>5, LineGrows
  <2> QED
    BY <2>1, <2>3, <2>6 DEF DeadlinesSound
<1>6. CASE WriteUnmatched
  <2>1. /\ first' = Searched(Head(inbox)) /\ last' = LastAfterSearch(Head(inbox))
        /\ UNCHANGED <<resp, walk, good>>
    BY <1>6 DEF WriteUnmatched, Search, LastAfterSearch, siftVars
  <2>2. LineUp(R, Searched(Head(inbox)), LastAfterSearch(Head(inbox)), walk, good)
    BY ONLY <1>0, <1>d, SearchInOrder
  <2> QED
    BY <1>2, <2>1, <2>2
<1>7. CASE WritePart
  <2> DEFINE t == Head(inbox)
  <2>1. PICK i \in 1..Len(Searched(t)) :
          resp' = [resp EXCEPT ![Searched(t)[i]].need = @ \ {t.part}]
    BY <1>7 DEF WritePart
  <2>2. /\ first' = Searched(t) /\ last' = LastAfterSearch(t) /\ UNCHANGED <<walk, good>>
    BY <1>7 DEF WritePart, Search, LastAfterSearch, siftVars
  <2>3. LineUp(R, Searched(t), LastAfterSearch(t), walk, good)
    BY ONLY <1>0, <1>d, SearchInOrder
  <2> HIDE DEF t
  <2>4. \A c \in Cycle : resp'[c].left = resp[c].left
    BY <1>a, <2>1 DEF Response
  <2>5. Sooner(resp') = R /\ Young(resp')
    BY <1>b, <2>4 DEF R, Sooner, Young
  <2> QED
    BY <2>2, <2>3, <2>5 DEF DeadlinesSound
<1>8. CASE WriteLast
  <2> DEFINE t == Head(inbox)
             s == Searched(t)
  <2>1. PICK i \in 1..Len(s) : first' = Without(s, i)
    BY <1>8 DEF WriteLast
  <2>2. last' = LastAfterSearch(t) /\ UNCHANGED <<resp, walk, good>>
    BY <1>8 DEF WriteLast, LastAfterSearch, siftVars
  <2>3. s \in Seq(Cycle) /\ LineUp(R, s, LastAfterSearch(t), walk, good)
    BY ONLY <1>0, <1>d, SearchInOrder
  <2> HIDE DEF t, s
  <2>4. /\ Along(R, s) => Along(R, Without(s, i))
        /\ Elements(Without(s, i)) \subseteq Elements(s)
    BY <2>3, CutInOrder
  <2>5. LineUp(R, Without(s, i), LastAfterSearch(t), walk, good)
    BY ONLY <2>3, <2>4 DEF LineUp, Before
  <2> QED
    BY <1>2, <2>1, <2>2, <2>5
<1>9. CASE FlushSends
  <2> DEFINE c == Head(batch)
  <2>1. /\ batch # <<>> /\ last' = <<c>> \o last
        /\ resp' = [resp EXCEPT ![c] = [address |-> rba, left |-> Timeout, need |-> Need(c)]]
        /\ UNCHANGED <<first, walk, good>>
    BY <1>9 DEF FlushSends, siftVars
  <2>2. c \in Cycle /\ at[c] = "batch"
    BY <1>0, <1>a, <2>1, QueuesNow, HeadIsThere
  <2> HIDE DEF c
  <2>3. /\ resp'[c].left = Timeout
        /\ \A b \in Cycle : b # c => resp'[b] = resp[b]
    BY <1>a, <2>1, <2>2
  <2>4. Young(resp')
    BY <1>b, <2>3, CycleAssumption DEF Young
  <2>5. c \notin Listed
    BY <2>2 DEF Listed
  <2>6. \A a, b \in Listed : <<a, b>> \in R => <<a, b>> \in Sooner(resp')
    BY <2>3, <2>5 DEF R, Sooner, Listed
  <2> DEFINE Q == Sooner(resp')
  <2>7. \A b \in Cycle : <<b, c>> \in Q
    BY <2>2, <2>3, <2>4 DEF Sooner, Young
  <2> HIDE DEF Q
  <2>8. LineUp(Q, first, last, walk, good)
    BY ONLY <1>0, <1>d, <2>6, LineGrows DEF Q
  <2>9. /\ Along(Q, first) /\ Along(Back(Q), last)
        /\ Before(Q, Elements(first), Elements(last))
        /\ Along(Back(Q), walk) /\ Along(Q, good) /\ Before(Q, Elements(walk), Elements(good))
    BY <2>8 DEF LineUp
  <2>10. Before(Back(Q), {c}, Elements(last))
    BY <1>g, <2>2, <2>7 DEF Before, Back
  <2>11. /\ Along(Back(Q), <<c>> \o last)
         /\ Elements(<<c>> \o last) = Elements(last) \cup {c}
    BY ONLY <1>a, <2>2, <2>9, <2>10, PushInOrder
  <2>12. Before(Q, Elements(first), Elements(<<c>> \o last))
    BY <1>g, <2>7, <2>9, <2>11 DEF Before
  <2>13. LineUp(Q, first', last', walk', good')
    BY ONLY <2>1, <2>9, <2>11, <2>12 DEF LineUp
  <2> QED
    BY <2>4, <2>13 DEF DeadlinesSound, Q
<1>10. ASSUME NEW d \in Device, DeviceClose(d) PROVE DeadlinesSound'
  <2>1. /\ walk' = last \o Flipped(first) /\ first' = <<>> /\ last' = <<>>
        /\ UNCHANGED <<resp, good>> /\ pc = "app"
    BY <1>10 DEF DeviceClose, AppRuns
  <2>2. good = <<>>
    BY <1>0, <2>1 DEF Bookkeeping
  <2>3. /\ Flipped(first) \in Seq(Cycle) /\ Along(Back(R), Flipped(first))
        /\ Elements(Flipped(first)) = Elements(first)
    BY ONLY <1>a, <1>c, FlipInOrder, ListTypes
  <2>4. Before(Back(R), Elements(last), Elements(first))
    BY <1>c, <1>g, BackBefore
  <2>5. Along(Back(R), last \o Flipped(first))
    BY ONLY <1>a, <1>c, <2>3, <2>4, JoinInOrder
  <2>6. LineUp(R, first', last', walk', good')
    BY ONLY <1>e, <1>f, <2>1, <2>2, <2>5 DEF LineUp
  <2> QED
    BY <1>2, <2>1, <2>6
<1>11. CASE Sift
  <2> DEFINE c == Head(walk)
  <2>1. /\ walk # <<>> /\ walk' = Tail(walk) /\ UNCHANGED <<resp, first, last>>
        /\ good' = good \/ good' = <<c>> \o good
    BY <1>11 DEF Sift, respVars
  <2>2. /\ c \in Elements(walk) /\ Elements(Tail(walk)) \subseteq Elements(walk)
        /\ Along(Back(R), Tail(walk)) /\ Before(Back(R), {c}, Elements(Tail(walk)))
    BY <1>a, <1>c, <2>1, TailInOrder
  <2> HIDE DEF c
  <2>3. c \in Cycle
    BY <1>g, <2>2
  <2>4. Before(R, Elements(Tail(walk)), {c})
    BY <2>2 DEF Before, Back
  <2>5. Before(R, Elements(Tail(walk)), Elements(good)) /\ Before(R, {c}, Elements(good))
    BY <1>c, <2>2 DEF Before
  <2>6. Along(R, <<c>> \o good) /\ Elements(<<c>> \o good) = Elements(good) \cup {c}
    BY ONLY <1>a, <1>c, <2>3, <2>5, PushInOrder
  <2>7. Before(R, Elements(Tail(walk)), Elements(<<c>> \o good))
    BY <2>4, <2>5, <2>6 DEF Before
  <2>8. Along(R, good') /\ Before(R, Elements(Tail(walk)), Elements(good'))
    BY ONLY <1>c, <2>1, <2>5, <2>6, <2>7
  <2>9. LineUp(R, first', last', walk', good')
    BY ONLY <1>c, <2>1, <2>2, <2>8 DEF LineUp
  <2> QED
    BY <1>2, <2>1, <2>9
<1>12. CASE SiftDone
  <2>1. /\ pc = "sift" /\ walk = <<>> /\ walk' = walk /\ first' = good /\ good' = <<>>
        /\ UNCHANGED <<resp, last>>
    BY <1>12 DEF SiftDone, LibRuns
  <2>2. last = <<>>
    BY <1>0, <2>1 DEF Bookkeeping
  <2>3. LineUp(R, first', last', walk', good')
    BY ONLY <1>c, <1>e, <1>f, <2>1, <2>2 DEF LineUp
  <2> QED
    BY <1>2, <2>1, <2>3
<1>13. CASE CallbackReturns
  <2>1. /\ running # None /\ resp' = [resp EXCEPT ![running] = NoResponse]
        /\ UNCHANGED <<first, last, walk, good>>
    BY <1>13 DEF CallbackReturns, siftVars
  <2>2. running \in Cycle /\ running \notin Listed
    BY <1>0, <2>1 DEF TypeOK, Bookkeeping, Listed
  <2>3. \A b \in Cycle : b # running => resp'[b] = resp[b]
    BY <2>1, <1>a
  <2>4. Young(resp')
    BY <1>a, <1>b, <2>1, <2>2, CycleAssumption DEF Young, NoResponse
  <2>5. \A a, b \in Listed : <<a, b>> \in R => <<a, b>> \in Sooner(resp')
    BY <2>2, <2>3 DEF R, Sooner, Listed
  <2>6. LineUp(Sooner(resp'), first, last, walk, good)
    BY ONLY <1>0, <1>d, <2>5, LineGrows
  <2> QED
    BY <2>1, <2>4, <2>6 DEF DeadlinesSound
<1>14. ASSUME \/ \E c \in Cycle : Open(c)
              \/ \E c \in Cycle, k \in OpKind : QueueOp(c, k)
              \/ \E c \in Cycle : QueueOpFails(c)
              \/ \E c \in Cycle, check, block \in BOOLEAN : Close(c, check, block)
              \/ \E c \in Cycle : Abort(c)
              \/ \E e \in Elapse : Check(e)
              \/ TransportsDone \/ DevicesDone \/ FlushRefused \/ FlushBegin
              \/ FlushCalls \/ FlushEnd \/ Kill \/ KillDone
              \/ \E d \in Device : NextDevice(d)
              \/ Environment
              \/ UNCHANGED vars
       PROVE  UNCHANGED <<resp, first, last, walk, good>>
  BY <1>14
  DEF Open, QueueOp, QueueOpFails, Close, Abort, Check, TransportsDone, DevicesDone,
      FlushRefused, FlushBegin, FlushCalls, FlushEnd, Kill, KillDone, NextDevice,
      Environment, LinkDies, Receive, Answer, libIdle, vars, respVars, siftVars
<1>15. CASE Application
  BY ONLY <1>15, <1>1, <1>10, <1>14 DEF Application
<1>16. CASE Library
  BY ONLY <1>16, <1>1, <1>4, <1>5, <1>6, <1>7, <1>8, <1>9, <1>11, <1>12, <1>14 DEF Library
<1> QED
  BY ONLY [Next]_vars, <1>1, <1>3, <1>13, <1>14, <1>15, <1>16 DEF Next

LEMMA InitDeadlines == Init => DeadlinesSound
<1> SUFFICES ASSUME Init PROVE DeadlinesSound
  OBVIOUS
<1>1. first = <<>> /\ last = <<>> /\ walk = <<>> /\ good = <<>>
  BY DEF Init
<1>2. Young(resp)
  BY CycleAssumption DEF Init, Young, NoResponse
<1> QED
  BY <1>1, <1>2, NothingInOrder DEF DeadlinesSound, LineUp, Before

\* The whole line, oldest first, is in order when no filter runs.
LEMMA LineIsInOrder ==
  ASSUME TypeOK, DeadlinesSound
  PROVE  DeadlinesInOrder
<1> DEFINE R == Sooner(resp)
           s == first \o Flipped(last)
<1>1. first \in Seq(Cycle) /\ last \in Seq(Cycle)
  BY DEF TypeOK
<1>2. Along(R, first) /\ Along(Back(R), last) /\ Before(R, Elements(first), Elements(last))
  BY DEF DeadlinesSound, LineUp
<1> HIDE DEF R
<1>3. /\ Flipped(last) \in Seq(Cycle) /\ Along(R, Flipped(last))
      /\ Elements(Flipped(last)) = Elements(last)
  BY ONLY <1>1, <1>2, FlipInOrder, ListTypes
<1>4. Along(R, s)
  BY ONLY <1>1, <1>2, <1>3, JoinInOrder
<1> HIDE DEF s
<1>5. \A i, j \in DOMAIN s : i < j => resp[s[i]].left <= resp[s[j]].left
  BY <1>4 DEF Along, R, Sooner
<1> QED
  BY <1>5 DEF DeadlinesInOrder, s

\* Step 1 of eb_socket_check may stop at the first response that has not
\* expired: the responses are always in the order of their deadlines.
THEOREM DeadlinesOrdered ==
  ASSUME ~Reentrant
  PROVE  Spec => []DeadlinesInOrder
<1>1. Inv /\ DeadlinesSound /\ [Next]_vars => Inv' /\ DeadlinesSound'
  BY StepInv, StepDeadlines
<1>2. Inv /\ DeadlinesSound => DeadlinesInOrder
  BY LineIsInOrder DEF Inv
<1>3. Init => Inv /\ DeadlinesSound
  BY InitInv, InitDeadlines
<1> QED
  BY <1>1, <1>2, <1>3, PTL DEF Spec

-----------------------------------------------------------------------------
(* The order of sending.                                                   *)

\* The pairs of cycles of which the first one was closed no later
Older(f) == {p \in Cycle \X Cycle : f[p[1]] <= f[p[2]]}

\* What waits on a device has its newest first; what a flush still has to
\* send has its oldest first and is all of the device it flushes.
SendOrder ==
  /\ \A c \in Cycle : stamp[c] <= closed
  /\ \A d \in Device : Along(Back(Older(stamp)), ready[d])
  /\ pc = "flush" => Along(Older(stamp), batch) /\ \A c \in In("batch") : dev[c] = target

LEMMA StepSendOrder ==
  ASSUME Inv, SendOrder, [Next]_vars
  PROVE  SendOrder'
<1> DEFINE R == Older(stamp)
<1>0. TypeOK /\ QueuesSound /\ Bookkeeping
  BY DEF Inv
<1>a. /\ batch \in Seq(Cycle) /\ ready \in [Device -> Seq(Cycle)]
      /\ at \in [Cycle -> Place] /\ dev \in [Cycle -> Device]
      /\ stamp \in [Cycle -> Nat] /\ closed \in Nat
      /\ pc = "flush" => target \in Device
  BY <1>0 DEF TypeOK
<1>b. /\ \A c \in Cycle : stamp[c] <= closed
      /\ \A d \in Device : Along(Back(R), ready[d])
      /\ pc = "flush" => Along(R, batch) /\ \A c \in In("batch") : dev[c] = target
  BY DEF SendOrder
<1>c. \A d \in Device : ready[d] \in Seq(Cycle) /\ Elements(ready[d]) = Waiting(d)
  BY <1>0, <1>a, QueuesNow, HoldsElements
<1>d. Elements(batch) = In("batch")
  BY <1>0, QueuesNow, HoldsElements
<1>e. \A Q : Along(Q, <<>>)
  BY NothingInOrder
<1> HIDE DEF R
<1>1. ASSUME UNCHANGED <<stamp, closed>>,
             \A d \in Device : ready'[d] = ready[d] \/ ready'[d] = <<>>,
             pc' = "flush" =>
               Along(R, batch') /\ \A c \in Cycle : at'[c] = "batch" => dev'[c] = target'
      PROVE  SendOrder'
  <2>1. Older(stamp') = R
    BY <1>1 DEF R
  <2>2. \A d \in Device : Along(Back(R), ready'[d])
    BY <1>1, <1>b, <1>e
  <2> QED
    BY <1>1, <1>b, <2>1, <2>2 DEF SendOrder, In
<1>2. ASSUME NEW c \in Cycle, NEW check \in BOOLEAN, NEW block \in BOOLEAN,
             Close(c, check, block)
      PROVE  SendOrder'
  <2>1. /\ at[c] = "open" /\ at' = [at EXCEPT ![c] = "ready"]
        /\ ready' = [ready EXCEPT ![dev[c]] = <<c>> \o @]
        /\ stamp' = [stamp EXCEPT ![c] = closed] /\ closed' = closed + 1
        /\ UNCHANGED <<dev, pc, target, batch>>
    BY <1>2 DEF Close, pollVars
  <2> DEFINE Q == Older(stamp')
  <2>2. \A a, b \in Cycle \ {c} : <<a, b>> \in R => <<a, b>> \in Q
    BY <1>a, <2>1 DEF R, Older
  <2>3. \A b \in Cycle : <<b, c>> \in Q
    BY <1>a, <1>b, <2>1 DEF Older
  <2>4. \A b \in Cycle : stamp'[b] <= closed'
    BY <1>a, <1>b, <2>1
  <2> HIDE DEF Q
  <2>5. ASSUME NEW d \in Device PROVE Along(Back(Q), ready[d])
    <3>1. Elements(ready[d]) \subseteq Cycle \ {c}
      BY <1>c, <2>1 DEF Waiting, In
    <3>2. \A a, b \in Elements(ready[d]) : <<a, b>> \in Back(R) => <<a, b>> \in Back(Q)
      BY <2>2, <3>1 DEF Back
    <3>3. ready[d] \in Seq(Cycle) /\ Along(Back(R), ready[d])
      BY <1>b, <1>c
    <3> QED
      BY ONLY <3>2, <3>3, OrderGrows
  <2>6. Along(Back(Q), <<c>> \o ready[dev[c]])
    <3>1. dev[c] \in Device /\ ready[dev[c]] \in Seq(Cycle) /\ c \in Cycle
      BY <1>a
    <3>2. Elements(ready[dev[c]]) \subseteq Cycle
      BY <1>c, <3>1 DEF Waiting, In
    <3>3. Before(Back(Q), {c}, Elements(ready[dev[c]]))
      BY <2>3, <3>2 DEF Before, Back
    <3>4. Along(Back(Q), ready[dev[c]])
      BY <2>5, <3>1
    <3> QED
      BY ONLY <3>1, <3>3, <3>4, PushInOrder
  <2>7. \A d \in Device : Along(Back(Q), ready'[d])
    BY <1>a, <2>1, <2>5, <2>6
  <2>8. ASSUME pc = "flush" PROVE Along(Q, batch)
    <3>1. Elements(batch) \subseteq Cycle \ {c}
      BY <1>d, <2>1 DEF In
    <3>2. \A a, b \in Elements(batch) : <<a, b>> \in R => <<a, b>> \in Q
      BY <2>2, <3>1
    <3>3. Along(R, batch)
      BY <1>b, <2>8
    <3> QED
      BY ONLY <1>a, <3>2, <3>3, OrderGrows
  <2>9. \A b \in Cycle : at'[b] = "batch" => at[b] = "batch"
    BY <1>a, <2>1
  <2> QED
    BY <1>b, <2>1, <2>4, <2>7, <2>8, <2>9 DEF SendOrder, Q, In
<1>3. ASSUME NEW d \in Device, DeviceClose(d) PROVE SendOrder'
  BY <1>1, <1>3, <1>a DEF DeviceClose, history
<1>4. CASE FlushBegin
  <2>1. /\ pc = "device" /\ batch' = Flipped(ready[target])
        /\ ready' = [ready EXCEPT ![target] = <<>>]
        /\ at' = [c \in Cycle |-> IF at[c] = "ready" /\ dev[c] = target THEN "batch" ELSE at[c]]
        /\ UNCHANGED <<stamp, closed, dev, target>>
    BY <1>4 DEF FlushBegin, LibRuns, history, appVars
  <2>2. target \in Device /\ batch = <<>>
    BY <1>0, <2>1 DEF TypeOK, Bookkeeping
  <2>3. In("batch") = {}
    BY <1>d, <2>2, NothingInOrder
  <2>4. Along(R, batch')
    BY <1>b, <1>c, <2>1, <2>2, FlipInOrder
  <2>5. \A c \in Cycle : at'[c] = "batch" => dev'[c] = target'
    BY <2>1, <2>3 DEF In
  <2>6. \A d \in Device : ready'[d] = ready[d] \/ ready'[d] = <<>>
    BY <1>a, <2>1
  <2> QED
    BY <1>1, <2>1, <2>4, <2>5, <2>6
<1>5. CASE FlushCalls \/ FlushSends
  <2>1. /\ pc = "flush" /\ batch # <<>> /\ batch' = Tail(batch)
        /\ UNCHANGED <<stamp, closed, ready, dev, target>>
        /\ \E q \in {"callback", "last"} : at' = [at EXCEPT ![Head(batch)] = q]
    BY <1>5 DEF FlushCalls, FlushSends, LibRuns, Call, history, appVars, pollVars
  <2>2. Along(R, batch')
    BY <1>a, <1>b, <2>1, TailInOrder
  <2>3. \A c \in Cycle : at'[c] = "batch" => at[c] = "batch"
    BY <1>a, <2>1
  <2> QED
    BY <1>1, <1>b, <2>1, <2>2, <2>3 DEF In
<1>6. CASE FlushEnd
  BY <1>1, <1>6, <1>a DEF FlushEnd, history
<1>7. ASSUME \/ \E c \in Cycle : Open(c)
             \/ \E c \in Cycle, k \in OpKind : QueueOp(c, k)
             \/ \E c \in Cycle : QueueOpFails(c)
             \/ \E c \in Cycle : Abort(c)
             \/ CallbackReturns \/ AskTimeout
             \/ \E e \in Elapse : Check(e)
             \/ Expire \/ ExpireDone \/ WriteUnmatched \/ WritePart \/ WriteLast
             \/ TransportsDone \/ DevicesDone \/ FlushRefused \/ Sift \/ SiftDone
             \/ Kill \/ KillDone
             \/ \E d \in Device : NextDevice(d)
             \/ Environment
             \/ UNCHANGED vars
      PROVE  SendOrder'
  <2>1. UNCHANGED <<stamp, closed, ready, dev>>
    BY <1>7
    DEF Open, QueueOp, QueueOpFails, Abort, CallbackReturns, AskTimeout, Check, Expire,
        ExpireDone, WriteUnmatched, WritePart, WriteLast, TransportsDone, DevicesDone,
        FlushRefused, Sift, SiftDone, Kill, KillDone, NextDevice, Environment, LinkDies,
        Receive, Answer, libIdle, history, appVars, vars
  <2>2. pc' = "flush" => pc = "flush" /\ UNCHANGED <<batch, target>>
    BY <1>7
    DEF Open, QueueOp, QueueOpFails, Abort, CallbackReturns, AskTimeout, Check, Expire,
        ExpireDone, WriteUnmatched, WritePart, WriteLast, TransportsDone, DevicesDone,
        FlushRefused, Sift, SiftDone, Kill, KillDone, NextDevice, Environment, LinkDies,
        Receive, Answer, LibRuns, libIdle, pollVars, vars
  <2>3. pc' = "flush" => \A c \in Cycle : at'[c] = "batch" => at[c] = "batch"
    BY <1>7, <1>a
    DEF Open, QueueOp, QueueOpFails, Abort, CallbackReturns, AskTimeout, Check, Expire,
        ExpireDone, WriteUnmatched, WritePart, WriteLast, TransportsDone, DevicesDone,
        FlushRefused, Sift, SiftDone, Kill, KillDone, NextDevice, Environment, LinkDies,
        Receive, Answer, LibRuns, Call, Moved, libIdle, pollVars, vars
  <2>4. pc' = "flush" =>
          Along(R, batch') /\ \A c \in Cycle : at'[c] = "batch" => dev'[c] = target'
    BY <1>b, <2>1, <2>2, <2>3 DEF In
  <2> QED
    BY <1>1, <2>1, <2>4
<1>8. CASE Application
  BY ONLY <1>8, <1>2, <1>3, <1>7 DEF Application
<1>9. CASE Library
  BY ONLY <1>9, <1>4, <1>5, <1>6, <1>7 DEF Library
<1> QED
  BY ONLY [Next]_vars, <1>7, <1>8, <1>9 DEF Next

\* Only a flush makes a response.
LEMMA OnlyFlushSends ==
  ASSUME TypeOK, [Next]_vars, NEW c \in Cycle, at[c] # "last", at'[c] = "last"
  PROVE  FlushSends
<1>0. at \in [Cycle -> Place]
  BY DEF TypeOK
<1>1. ASSUME Application PROVE FALSE
  BY <1>0, <1>1
  DEF Application, Open, QueueOp, QueueOpFails, Close, Abort, DeviceClose
<1>2. ASSUME Environment \/ CallbackReturns \/ AskTimeout \/ (\E e \in Elapse : Check(e))
             \/ UNCHANGED vars
      PROVE  FALSE
  BY <1>0, <1>2
  DEF Environment, LinkDies, Receive, Answer, CallbackReturns, AskTimeout, Check, Moved, vars
<1>3. ASSUME Library PROVE FlushSends
  BY <1>0, <1>3
  DEF Library, Expire, ExpireDone, WriteUnmatched, WritePart, WriteLast, TransportsDone,
      NextDevice, DevicesDone, FlushRefused, FlushBegin, FlushCalls, FlushEnd, Sift,
      SiftDone, Kill, KillDone, Call, Moved
<1> QED
  BY ONLY [Next]_vars, <1>1, <1>2, <1>3 DEF Next

LEMMA FlushTakesOldest ==
  ASSUME Inv, SendOrder, [Next]_vars,
         NEW c \in Cycle, at[c] = "batch", at'[c] = "last",
         NEW b \in Cycle, dev[b] = dev[c], at[b] \in {"ready", "batch"}
  PROVE  stamp[c] <= stamp[b]
<1>0. TypeOK /\ QueuesSound /\ Bookkeeping
  BY DEF Inv
<1>a. at \in [Cycle -> Place] /\ batch \in Seq(Cycle) /\ stamp \in [Cycle -> Nat]
  BY <1>0 DEF TypeOK
<1>1. /\ pc = "flush" /\ batch # <<>>
      /\ at' = [at EXCEPT ![Head(batch)] = "last"]
  BY <1>0, OnlyFlushSends DEF FlushSends, LibRuns
<1>2. c = Head(batch)
  BY <1>a, <1>1
<1>3. /\ Along(Older(stamp), batch)
      /\ \A a \in In("batch") : dev[a] = target
      /\ ready[target] = <<>> /\ target \in Device
  BY <1>0, <1>1 DEF SendOrder, Bookkeeping, TypeOK
<1>4. dev[c] = target
  BY <1>3 DEF In
<1>5. CASE at[b] = "ready"
  <2>1. b \in Waiting(target)
    BY <1>4, <1>5 DEF Waiting, In
  <2>2. Holds(<<>>, Waiting(target))
    BY <1>0, <1>3, QueuesNow
  <2>3. Waiting(target) = {}
    BY ONLY <2>2, EmptyHolds
  <2> QED
    BY <2>1, <2>3
<1>6. CASE at[b] = "batch"
  <2>1. b \in Elements(batch)
    BY <1>0, <1>6, QueuesNow, HoldsElements DEF In
  <2>2. PICK i \in DOMAIN batch : batch[i] = b
    BY <2>1 DEF Elements
  <2>3. Len(batch) \in Nat /\ Len(batch) # 0 /\ DOMAIN batch = 1..Len(batch) /\ batch[1] = c
    BY <1>a, <1>1, <1>2
  <2>4. CASE i = 1
    BY <1>a, <2>2, <2>3, <2>4
  <2>5. CASE i # 1
    <3>1. 1 \in DOMAIN batch /\ 1 < i
      BY <2>2, <2>3, <2>5
    <3>2. <<batch[1], batch[i]>> \in Older(stamp)
      BY <1>3, <2>2, <3>1 DEF Along
    <3> QED
      BY <2>2, <2>3, <3>2 DEF Older
  <2> QED
    BY <2>4, <2>5
<1> QED
  BY <1>5, <1>6

\* No cycle overtakes an older one of its device on the way to the wire.
THEOREM SendsInOrder ==
  ASSUME ~Reentrant
  PROVE  Spec => SentInOrder
<1>1. Inv /\ SendOrder /\ [Next]_vars => Inv' /\ SendOrder'
  BY StepInv, StepSendOrder
<1>2. Init => Inv /\ SendOrder
  <2> SUFFICES ASSUME Init PROVE SendOrder
    BY InitInv
  <2>1. /\ \A c \in Cycle : stamp[c] = 0 /\ closed = 0
        /\ \A d \in Device : ready[d] = <<>>
        /\ pc = "app"
    BY DEF Init
  <2> QED
    BY <2>1, NothingInOrder DEF SendOrder
<1> DEFINE Oldest == \A c \in Cycle : at[c] = "batch" /\ at'[c] = "last" =>
                       \A b \in Cycle : dev[b] = dev[c] /\ at[b] \in {"ready", "batch"}
                                          => stamp[c] <= stamp[b]
<1>3. Inv /\ SendOrder /\ [Next]_vars => [Oldest]_vars
  BY FlushTakesOldest
<1>4. Spec => [][Oldest]_vars
  BY <1>1, <1>2, <1>3, PTL DEF Spec
<1> QED
  BY <1>4 DEF SentInOrder

(* Part 3: promises.                                                       *)

-----------------------------------------------------------------------------
(* Open cycles and closing devices.                                        *)

Opened(d) == {c \in Cycle : at[c] = "open" /\ dev[c] = d}

\* The counter is the number of cycles open on the device, and a device that
\* is being closed has none.
BusyCounts ==
  \A d \in Device :
    /\ unready[d] = Cardinality(Opened(d))
    /\ passive[d] => Opened(d) = {}

LEMMA OpenedIsFinite ==
  ASSUME IsFiniteSet(Cycle), NEW S \in SUBSET Cycle
  PROVE  IsFiniteSet(S) /\ Cardinality(S) \in Nat /\ Cardinality(S) <= Cardinality(Cycle)
  BY FS_Subset, FS_CardinalityType

LEMMA InRange ==
  ASSUME NEW m \in Nat \ {0}, NEW n \in Nat, n < m
  PROVE  n % m = n
  OBVIOUS

\* One more cycle is open on its device, or one less.
LEMMA OpenCounts ==
  ASSUME IsFiniteSet(Cycle), Cardinality(Cycle) < UnreadyMod,
         TypeOK, BusyCounts, NEW c \in Cycle, Open(c)
  PROVE  BusyCounts'
<1>1. /\ at \in [Cycle -> Place] /\ dev \in [Cycle -> Device]
      /\ unready \in [Device -> 0..UnreadyMod-1]
      /\ UnreadyMod \in Nat \ {0}
  BY CycleAssumption DEF TypeOK
<1>2. /\ at[c] = "unused" /\ ~passive[dev[c]]
      /\ at' = [at EXCEPT ![c] = "open"]
      /\ unready' = [unready EXCEPT ![dev[c]] = (@ + 1) % UnreadyMod]
      /\ dev' = dev /\ passive' = passive
  BY DEF Open, libIdle
<1>3. ASSUME NEW d \in Device
      PROVE  /\ unready'[d] = Cardinality(Opened(d)')
             /\ passive'[d] => Opened(d)' = {}
  <2>1. CASE d = dev[c]
    <3>1. Opened(d)' = Opened(d) \cup {c} /\ c \notin Opened(d)
      BY <1>1, <1>2, <2>1 DEF Opened
    <3>2. /\ IsFiniteSet(Opened(d)) /\ Cardinality(Opened(d)) \in Nat
          /\ Cardinality(Opened(d) \cup {c}) <= Cardinality(Cycle)
          /\ Cardinality(Cycle) \in Nat
      BY OpenedIsFinite, FS_CardinalityType DEF Opened
    <3>3. Cardinality(Opened(d) \cup {c}) = Cardinality(Opened(d)) + 1
      BY <3>1, <3>2, FS_AddElement
    <3>4. (Cardinality(Opened(d)) + 1) % UnreadyMod = Cardinality(Opened(d)) + 1
      <4>1. Cardinality(Opened(d)) + 1 \in Nat /\ Cardinality(Opened(d)) + 1 < UnreadyMod
        BY <1>1, <3>2, <3>3
      <4> QED
        BY ONLY <1>1, <4>1, InRange
    <3>5. unready'[d] = (Cardinality(Opened(d)) + 1) % UnreadyMod
      BY <1>1, <1>2, <2>1 DEF BusyCounts
    <3> QED
      BY <1>2, <2>1, <3>1, <3>3, <3>4, <3>5
  <2>2. CASE d # dev[c]
    <3>1. Opened(d)' = Opened(d)
      BY <1>1, <1>2, <2>2 DEF Opened
    <3>2. unready'[d] = unready[d]
      BY <1>1, <1>2, <2>2
    <3> QED
      BY <1>2, <3>1, <3>2 DEF BusyCounts
  <2> QED
    BY <2>1, <2>2
<1> QED
  BY <1>3 DEF BusyCounts

LEMMA DoneCounts ==
  ASSUME IsFiniteSet(Cycle), Cardinality(Cycle) < UnreadyMod,
         TypeOK, BusyCounts, NEW c \in Cycle, at[c] = "open",
         NEW q, q # "open", at' = [at EXCEPT ![c] = q],
         unready' = [unready EXCEPT ![dev[c]] = (@ - 1) % UnreadyMod],
         dev' = dev, passive' = passive
  PROVE  BusyCounts'
<1>1. /\ at \in [Cycle -> Place] /\ dev \in [Cycle -> Device]
      /\ unready \in [Device -> 0..UnreadyMod-1]
      /\ UnreadyMod \in Nat \ {0}
  BY CycleAssumption DEF TypeOK
<1>3. ASSUME NEW d \in Device
      PROVE  /\ unready'[d] = Cardinality(Opened(d)')
             /\ passive'[d] => Opened(d)' = {}
  <2>1. CASE d = dev[c]
    <3>1. Opened(d)' = Opened(d) \ {c} /\ c \in Opened(d)
      BY <1>1, <2>1 DEF Opened
    <3>2. /\ IsFiniteSet(Opened(d)) /\ Cardinality(Opened(d)) \in Nat
          /\ Cardinality(Opened(d) \ {c}) \in Nat
          /\ Cardinality(Opened(d)) <= Cardinality(Cycle)
          /\ Cardinality(Cycle) \in Nat
      BY OpenedIsFinite, FS_CardinalityType DEF Opened
    <3>3. Cardinality(Opened(d) \ {c}) = Cardinality(Opened(d)) - 1
      BY <3>1, <3>2, FS_RemoveElement
    <3>4. (Cardinality(Opened(d)) - 1) % UnreadyMod = Cardinality(Opened(d)) - 1
      <4>1. Cardinality(Opened(d)) - 1 \in Nat /\ Cardinality(Opened(d)) - 1 < UnreadyMod
        BY <1>1, <3>2, <3>3
      <4> QED
        BY ONLY <1>1, <4>1, InRange
    <3>5. unready'[d] = (Cardinality(Opened(d)) - 1) % UnreadyMod
      BY <1>1, <2>1 DEF BusyCounts
    <3>6. ~passive[d]
      BY <3>1 DEF BusyCounts
    <3> QED
      BY <3>1, <3>3, <3>4, <3>5, <3>6
  <2>2. CASE d # dev[c]
    <3>1. Opened(d)' = Opened(d)
      BY <1>1, <2>2 DEF Opened
    <3>2. unready'[d] = unready[d]
      BY <1>1, <2>2
    <3> QED
      BY <3>1, <3>2 DEF BusyCounts
  <2> QED
    BY <2>1, <2>2
<1> QED
  BY <1>3 DEF BusyCounts

LEMMA StepCounts ==
  ASSUME IsFiniteSet(Cycle), Cardinality(Cycle) < UnreadyMod,
         Inv, BusyCounts, [Next]_vars
  PROVE  BusyCounts'
<1>0. TypeOK /\ QueuesSound /\ Bookkeeping /\ at \in [Cycle -> Place]
      /\ dev \in [Cycle -> Device] /\ unready \in [Device -> 0..UnreadyMod-1]
      /\ passive \in [Device -> BOOLEAN]
  BY DEF Inv, TypeOK
<1>1. ASSUME NEW c \in Cycle, Open(c) PROVE BusyCounts'
  BY <1>0, <1>1, OpenCounts
<1>2. ASSUME NEW c \in Cycle, NEW check \in BOOLEAN, NEW block \in BOOLEAN,
             Close(c, check, block)
      PROVE  BusyCounts'
  <2>1. /\ at[c] = "open" /\ at' = [at EXCEPT ![c] = "ready"]
        /\ unready' = [unready EXCEPT ![dev[c]] = (@ - 1) % UnreadyMod]
        /\ dev' = dev /\ passive' = passive
    BY <1>2 DEF Close
  <2> QED
    BY <1>0, <2>1, DoneCounts
<1>3. ASSUME NEW c \in Cycle, Abort(c) PROVE BusyCounts'
  <2>1. /\ at[c] = "open" /\ at' = [at EXCEPT ![c] = "aborted"]
        /\ unready' = [unready EXCEPT ![dev[c]] = (@ - 1) % UnreadyMod]
        /\ dev' = dev /\ passive' = passive
    BY <1>3 DEF Abort, libIdle
  <2> QED
    BY <1>0, <2>1, DoneCounts
<1>4. ASSUME UNCHANGED <<dev, unready>>,
             \A c \in Cycle : at'[c] = "open" <=> at[c] = "open",
             \A d \in Device : passive'[d] => passive[d] \/ unready[d] = 0
      PROVE  BusyCounts'
  <2>1. ASSUME NEW d \in Device
        PROVE  /\ unready'[d] = Cardinality(Opened(d)')
               /\ passive'[d] => Opened(d)' = {}
    <3>1. Opened(d)' = Opened(d)
      BY <1>4 DEF Opened
    <3>2. unready[d] = 0 => Opened(d) = {}
      <4>1. IsFiniteSet(Opened(d))
        BY OpenedIsFinite DEF Opened
      <4> QED
        BY <4>1, FS_EmptySet DEF BusyCounts
    <3> QED
      BY <1>4, <3>1, <3>2 DEF BusyCounts
  <2> QED
    BY <2>1 DEF BusyCounts
<1>5. ASSUME NEW d \in Device, DeviceClose(d) PROVE BusyCounts'
  <2>1. /\ unready[d] = 0 /\ passive' = [passive EXCEPT ![d] = TRUE]
        /\ UNCHANGED <<dev, unready>>
        /\ \A c \in Cycle : at'[c] = "open" <=> at[c] = "open"
    BY <1>5, <1>0 DEF DeviceClose, MayClose, appVars
  <2> QED
    BY <1>0, <1>4, <2>1
<1>6. ASSUME UNCHANGED <<dev, unready, passive>>,
             \A c \in Cycle : at'[c] = "open" <=> at[c] = "open"
      PROVE  BusyCounts'
  BY <1>4, <1>6
<1>7. ASSUME \/ \E c \in Cycle, k \in OpKind : QueueOp(c, k)
             \/ \E c \in Cycle : QueueOpFails(c)
             \/ AskTimeout
             \/ \E e \in Elapse : Check(e)
             \/ ExpireDone \/ WriteUnmatched \/ WritePart
             \/ TransportsDone \/ DevicesDone \/ FlushRefused \/ FlushBegin \/ FlushEnd
             \/ SiftDone \/ KillDone
             \/ \E d \in Device : NextDevice(d)
             \/ Environment
             \/ UNCHANGED vars
      PROVE  /\ UNCHANGED <<dev, unready, passive>>
             /\ \A c \in Cycle : at'[c] = "open" <=> at[c] = "open"
  BY <1>7, <1>0
  DEF QueueOp, QueueOpFails, AskTimeout, Check, ExpireDone, WriteUnmatched, WritePart,
      TransportsDone, DevicesDone, FlushRefused, FlushBegin, FlushEnd, SiftDone, KillDone,
      NextDevice, Environment, LinkDies, Receive, Answer, Moved, appVars, devVars, libIdle,
      vars
<1>8. ASSUME NEW c \in Cycle, at[c] # "open", NEW q, q # "open",
             at' = [at EXCEPT ![c] = q], UNCHANGED <<dev, unready, passive>>
      PROVE  BusyCounts'
  BY <1>0, <1>6, <1>8
<1>9. CASE CallbackReturns
  <2>1. /\ running \in Cycle /\ at[running] = "callback"
        /\ at' = [at EXCEPT ![running] = "freed"] /\ UNCHANGED <<dev, unready, passive>>
    BY <1>0, <1>9 DEF CallbackReturns, Bookkeeping, TypeOK, devVars
  <2> QED
    BY <1>8, <2>1
<1>a. /\ first # <<>> => Head(first) \in Cycle /\ at[Head(first)] = "first"
      /\ batch # <<>> => Head(batch) \in Cycle /\ at[Head(batch)] = "batch"
      /\ walk # <<>> => Head(walk) \in Cycle /\ at[Head(walk)] = "walk"
  BY <1>0, QueuesNow, HeadIsThere DEF TypeOK
<1>10. CASE Expire
  <2>1. /\ first # <<>> /\ at' = [at EXCEPT ![Head(first)] = "callback"]
        /\ UNCHANGED <<dev, unready, passive>>
    BY <1>10 DEF Expire, Call, appVars, devVars
  <2> QED
    BY <1>8, <1>a, <2>1
<1>11. CASE FlushCalls \/ FlushSends \/ Kill
  <2>1. /\ batch # <<>> /\ UNCHANGED <<dev, unready, passive>>
        /\ \E q \in {"callback", "last"} : at' = [at EXCEPT ![Head(batch)] = q]
    BY <1>11 DEF FlushCalls, FlushSends, Kill, Call, appVars, devVars
  <2> QED
    BY <1>8, <1>a, <2>1
<1>12. CASE Sift
  <2>1. /\ walk # <<>> /\ UNCHANGED <<dev, unready, passive>>
        /\ \E q \in {"bad", "good"} : at' = [at EXCEPT ![Head(walk)] = q]
    BY <1>12 DEF Sift, appVars, devVars
  <2> QED
    BY <1>8, <1>a, <2>1
<1>13. CASE WriteLast
  <2> DEFINE t == Head(inbox)
             s == Searched(t)
  <2>1. PICK i \in 1..Len(s) : at' = [PlacesAfterSearch(t) EXCEPT ![s[i]] = "callback"]
    BY <1>13 DEF WriteLast, PlacesAfterSearch
  <2>2. UNCHANGED <<dev, unready, passive>>
    BY <1>13 DEF WriteLast, appVars, devVars
  <2>3. Holds(s, {c \in Cycle : PlacesAfterSearch(t)[c] = "first"})
    BY <1>0, SearchSound
  <2>4. s[i] \in Cycle /\ PlacesAfterSearch(t)[s[i]] = "first"
    BY <2>3 DEF Holds
  <2>5. /\ PlacesAfterSearch(t) \in [Cycle -> Place]
        /\ \A b \in Cycle : PlacesAfterSearch(t)[b] = "open" <=> at[b] = "open"
    BY <1>0 DEF PlacesAfterSearch, Moved, Place
  <2> HIDE DEF t, s
  <2>6. \A c \in Cycle : at'[c] = "open" <=> at[c] = "open"
    BY <2>1, <2>4, <2>5
  <2> QED
    BY <1>6, <2>2, <2>6
<1>14. CASE Application
  BY ONLY <1>14, <1>1, <1>2, <1>3, <1>5, <1>6, <1>7 DEF Application
<1>15. CASE Library
  BY ONLY <1>15, <1>6, <1>7, <1>10, <1>11, <1>12, <1>13 DEF Library
<1> QED
  BY ONLY [Next]_vars, <1>6, <1>7, <1>9, <1>14, <1>15 DEF Next

\* No device is being closed while a cycle on it is neither closed nor
\* aborted, as long as the counter tells the open cycles apart.
THEOREM BusyProtects ==
  ASSUME ~Reentrant, IsFiniteSet(Cycle), Cardinality(Cycle) < UnreadyMod
  PROVE  Spec => []NoneOpenWhenClosing
<1>1. Inv /\ BusyCounts /\ [Next]_vars => Inv' /\ BusyCounts'
  BY StepInv, StepCounts
<1>2. Init => Inv /\ BusyCounts
  <2> SUFFICES ASSUME Init PROVE BusyCounts
    BY InitInv
  <2>1. \A d \in Device : Opened(d) = {} /\ unready[d] = 0
    BY DEF Init, Opened
  <2> QED
    BY <2>1, FS_EmptySet DEF BusyCounts
<1>3. Inv /\ BusyCounts => NoneOpenWhenClosing
  BY DEF Inv, TypeOK, BusyCounts, NoneOpenWhenClosing, Opened
<1> QED
  BY <1>1, <1>2, <1>3, PTL DEF Spec

-----------------------------------------------------------------------------
(* What was promised.                                                      *)

Done == {"unused", "freed", "aborted"}

\* The device that eb_device_close works on is the only one that is passive
\* and still on the list; its cycles are on the lists that the current stage
\* of the close takes them from; of a device that is gone none is left.
Closing ==
  /\ \A d \in Device : passive[d] /\ attached[d] => pc \in {"sift", "kill"} /\ target = d
  /\ pc \in {"sift", "kill"} => passive[target] /\ attached[target]
  /\ \A d \in Device : ~attached[d] => passive[d]
  /\ \A c \in Cycle : ~attached[dev[c]] => at[c] \in Done
  /\ \A c \in Cycle : pc = "sift" /\ dev[c] = target
                        => at[c] \in Done \cup {"open", "batch", "callback", "walk", "bad"}
  /\ \A c \in Cycle : pc = "kill" /\ dev[c] = target
                        => at[c] \in Done \cup {"open", "batch", "callback"}
  /\ In("good") \cap {c \in Cycle : dev[c] = target} = {}

PInv == Inv /\ BusyCounts /\ Closing

\* A step that begins and ends no stage of a close, and moves cycles only
\* from list to list, to their callbacks and away, or on a device in use.
LEMMA KeepsClosing ==
  ASSUME TypeOK, Closing, UNCHANGED <<dev, passive, attached>>,
         \/ pc' = pc /\ target' = target
         \/ /\ pc \notin {"sift", "kill"} /\ pc' \notin {"sift", "kill"}
            /\ In("good") = {} /\ After("good") = {},
         \A c \in Cycle :
           \/ at'[c] = at[c]
           \/ at'[c] # "good" /\ ~passive[dev[c]]
           \/ /\ at[c] \notin Done
              /\ at'[c] = "good" => dev[c] # target
              /\ pc \in {"sift", "kill"} /\ dev[c] = target
                   => \/ at'[c] \in {"callback", "freed", "aborted"}
                      \/ at'[c] = "bad" /\ pc = "sift"
  PROVE  Closing'
<1>1. /\ at \in [Cycle -> Place] /\ dev \in [Cycle -> Device]
      /\ passive \in [Device -> BOOLEAN] /\ attached \in [Device -> BOOLEAN]
  BY DEF TypeOK
<1>2. ASSUME NEW c \in Cycle, ~attached[dev[c]] PROVE at'[c] \in Done
  BY <1>1, <1>2 DEF Closing
<1>3. ASSUME NEW c \in Cycle, pc' = "sift", dev[c] = target'
      PROVE  at'[c] \in Done \cup {"open", "batch", "callback", "walk", "bad"}
  BY <1>1, <1>3 DEF Closing, Done
<1>4. ASSUME NEW c \in Cycle, pc' = "kill", dev[c] = target'
      PROVE  at'[c] \in Done \cup {"open", "batch", "callback"}
  BY <1>1, <1>4 DEF Closing, Done
<1>5. ASSUME NEW c \in Cycle, at'[c] = "good" PROVE dev[c] # target'
  <2>1. pc' = pc /\ target' = target
    BY <1>5 DEF After
  <2> QED
    BY <1>1, <1>5, <2>1 DEF Closing, In
<1>6. /\ \A d \in Device : passive'[d] /\ attached'[d] => pc' \in {"sift", "kill"} /\ target' = d
      /\ pc' \in {"sift", "kill"} => passive'[target'] /\ attached'[target']
      /\ \A d \in Device : ~attached'[d] => passive'[d]
  BY DEF Closing
<1> QED
  BY <1>2, <1>3, <1>4, <1>5, <1>6 DEF Closing, In

\* The heads of the lists, and what the search for a response does, as far as
\* a close is concerned.
LEMMA HeadsInPlace ==
  ASSUME Inv
  PROVE  /\ first # <<>> => Head(first) \in Cycle /\ at[Head(first)] = "first"
         /\ batch # <<>> => Head(batch) \in Cycle /\ at[Head(batch)] = "batch"
         /\ walk # <<>> => Head(walk) \in Cycle /\ at[Head(walk)] = "walk"
<1>1. TypeOK /\ QueuesSound /\ first \in Seq(Cycle) /\ batch \in Seq(Cycle) /\ walk \in Seq(Cycle)
  BY DEF Inv, TypeOK
<1>2. Holds(first, In("first")) /\ Holds(batch, In("batch")) /\ Holds(walk, In("walk"))
  BY <1>1, QueuesNow
<1> QED
  BY ONLY <1>1, <1>2, HeadIsThere

\* WriteLast completes one cycle, which was among the responses.
LEMMA LastCompletes ==
  ASSUME Inv, WriteLast
  PROVE  /\ running \notin Cycle /\ running' \in Cycle
         /\ at[running'] \in {"first", "last"} /\ at'[running'] = "callback"
         /\ \A c \in Cycle \ {running'} :
              at'[c] = at[c] \/ (at[c] = "last" /\ at'[c] = "first")
<1> DEFINE t == Head(inbox)
           s == Searched(t)
<1>1. /\ TypeOK /\ QueuesSound /\ at \in [Cycle -> Place]
      /\ running \notin Cycle
  BY CycleAssumption DEF Inv, TypeOK, WriteLast
<1>2. PICK i \in 1..Len(s) : /\ at' = [PlacesAfterSearch(t) EXCEPT ![s[i]] = "callback"]
                             /\ running' = s[i]
  BY DEF WriteLast, PlacesAfterSearch
<1>3. Holds(s, {c \in Cycle : PlacesAfterSearch(t)[c] = "first"}) /\ s \in Seq(Cycle)
  BY <1>1, SearchSound
<1>4. s[i] \in Cycle /\ PlacesAfterSearch(t)[s[i]] = "first"
  BY <1>3 DEF Holds
<1>5. /\ PlacesAfterSearch(t) \in [Cycle -> Place]
      /\ \A c \in Cycle : \/ PlacesAfterSearch(t)[c] = at[c]
                          \/ at[c] = "last" /\ PlacesAfterSearch(t)[c] = "first"
  BY <1>1 DEF PlacesAfterSearch, Moved, Place
<1> HIDE DEF t, s
<1> QED
  BY <1>1, <1>2, <1>4, <1>5

LEMMA StepCloses ==
  ASSUME PInv, [Next]_vars
  PROVE  Closing'
<1>0. /\ Inv /\ TypeOK /\ QueuesSound /\ Bookkeeping /\ BusyCounts /\ Closing
      /\ at \in [Cycle -> Place] /\ dev \in [Cycle -> Device]
      /\ passive \in [Device -> BOOLEAN] /\ attached \in [Device -> BOOLEAN]
      /\ pc \in {"device", "flush", "sift", "kill"} => target \in Device
      /\ running \in Cycle \cup {None}
  BY DEF PInv, Inv, TypeOK
<1>a. In("good") = {good[i] : i \in DOMAIN good} /\ (good = <<>> => In("good") = {})
  BY <1>0, QueuesNow, EmptyHolds DEF Holds
<1>b. pc # "sift" => In("good") = {} /\ In("walk") = {} /\ In("bad") = {}
  BY <1>0, <1>a, QueuesNow, EmptyHolds DEF Bookkeeping
<1>c. /\ first # <<>> => Head(first) \in Cycle /\ at[Head(first)] = "first"
      /\ batch # <<>> => Head(batch) \in Cycle /\ at[Head(batch)] = "batch"
      /\ walk # <<>> => Head(walk) \in Cycle /\ at[Head(walk)] = "walk"
  BY <1>0, HeadsInPlace
<1>d. \A c \in Cycle : at[c] = "open" => ~passive[dev[c]]
  BY <1>0 DEF BusyCounts, Opened
<1>1. ASSUME NEW c \in Cycle,
             \/ Open(c) \/ QueueOpFails(c) \/ Abort(c)
             \/ \E k \in OpKind : QueueOp(c, k)
             \/ \E check, block \in BOOLEAN : Close(c, check, block)
      PROVE  Closing'
  <2>1. /\ UNCHANGED <<dev, passive, attached, pc, target>>
        /\ \/ at' = at
           \/ /\ at' = [at EXCEPT ![c] = "open"] \/ at' = [at EXCEPT ![c] = "ready"]
                 \/ at' = [at EXCEPT ![c] = "aborted"]
              /\ ~passive[dev[c]]
    BY <1>1, <1>d DEF Open, QueueOpFails, Abort, QueueOp, Close, libIdle, pollVars
  <2>2. \A b \in Cycle : at'[b] = at[b] \/ (at'[b] # "good" /\ ~passive[dev[b]])
    BY <1>0, <2>1
  <2> QED
    BY <1>0, <2>1, <2>2, KeepsClosing
<1>2. ASSUME NEW d \in Device, DeviceClose(d) PROVE Closing'
  <2>1. /\ pc = "app" /\ attached[d] /\ pc' = "sift" /\ target' = d
        /\ passive' = [passive EXCEPT ![d] = TRUE] /\ UNCHANGED <<dev, attached>>
        /\ at' = [c \in Cycle |-> CASE at[c] \in {"first", "last"} -> "walk"
                                    [] at[c] = "ready" /\ dev[c] = d -> "batch"
                                    [] OTHER -> at[c]]
    BY <1>0, <1>2 DEF DeviceClose, AppRuns, MayClose, appVars
  <2>2. \A c \in Cycle : at[c] # "good" /\ at'[c] # "good"
    BY <1>b, <2>1 DEF In
  <2>3. \A c \in Cycle : ~attached'[dev'[c]] => at'[c] \in Done
    BY <1>0, <2>1 DEF Closing, Done
  <2>4. \A c \in Cycle : dev[c] = d => at'[c] \in Done \cup {"open", "batch", "callback", "walk", "bad"}
    BY <1>0, <2>1, <2>2 DEF Place, Done
  <2>5. \A e \in Device : passive'[e] /\ attached'[e] => e = d
    BY <1>0, <2>1 DEF Closing
  <2>6. \A e \in Device : ~attached'[e] => passive'[e]
    BY <1>0, <2>1 DEF Closing
  <2> QED
    BY <1>0, <2>1, <2>2, <2>3, <2>4, <2>5, <2>6 DEF Closing, In
<1>3. CASE CallbackReturns
  <2>1. /\ UNCHANGED <<dev, passive, attached, pc, target>>
        /\ at' = [at EXCEPT ![running] = "freed"] /\ at[running] = "callback"
    BY <1>0, <1>3 DEF CallbackReturns, Bookkeeping, devVars, pollVars
  <2>2. \A c \in Cycle : at'[c] = at[c] \/ (at[c] = "callback" /\ at'[c] = "freed")
    BY <1>0, <2>1
  <2> QED
    BY <1>0, <2>1, <2>2, KeepsClosing DEF Done
<1>4. CASE AskTimeout
  <2>1. UNCHANGED <<dev, passive, attached, pc, target>> /\ pc = "app"
    BY <1>4 DEF AskTimeout, LibRuns, appVars, devVars, pollVars
  <2>2. \A c \in Cycle : at'[c] = at[c] \/ (at[c] = "last" /\ at'[c] = "first")
    BY <1>4 DEF AskTimeout, Moved
  <2> QED
    BY <1>0, <2>1, <2>2, KeepsClosing DEF Done
<1>5. CASE WriteUnmatched \/ WritePart
  <2>1. UNCHANGED <<dev, passive, attached, pc, target>>
    BY <1>5 DEF WriteUnmatched, WritePart, appVars, devVars, pollVars
  <2>2. pc \in {"transports", "device"}
    BY <1>0, <1>5 DEF WriteUnmatched, WritePart, Bookkeeping
  <2>3. \A c \in Cycle : at'[c] = at[c] \/ (at[c] = "last" /\ at'[c] = "first")
    BY <1>5 DEF WriteUnmatched, WritePart, Moved
  <2> QED
    BY <1>0, <2>1, <2>2, <2>3, KeepsClosing DEF Done
<1>6. CASE WriteLast
  <2>1. UNCHANGED <<dev, passive, attached, pc, target>> /\ pc \in {"transports", "device"}
    BY <1>0, <1>6 DEF WriteLast, Bookkeeping, appVars, devVars, pollVars
  <2>2. \A c \in Cycle : \/ at'[c] = at[c]
                         \/ at[c] \in {"first", "last"} /\ at'[c] \in {"callback", "first"}
    BY <1>0, <1>6, LastCompletes
  <2> QED
    BY <1>0, <2>1, <2>2, KeepsClosing DEF Done
<1>7. CASE Expire
  <2>1. UNCHANGED <<dev, passive, attached, pc, target>> /\ pc = "expire"
    BY <1>7 DEF Expire, LibRuns, appVars, devVars, pollVars
  <2>2. \A c \in Cycle : at'[c] = at[c] \/ (at[c] = "first" /\ at'[c] = "callback")
    BY <1>0, <1>c, <1>7 DEF Expire, Call
  <2> QED
    BY <1>0, <2>1, <2>2, KeepsClosing DEF Done
<1>8. CASE FlushCalls \/ FlushSends \/ Kill
  <2>1. /\ UNCHANGED <<dev, passive, attached, pc, target>>
        /\ batch # <<>> /\ (pc = "flush" \/ Kill)
    BY <1>8 DEF FlushCalls, FlushSends, Kill, LibRuns, appVars, devVars, pollVars
  <2>2. \/ at' = [at EXCEPT ![Head(batch)] = "callback"]
        \/ pc = "flush" /\ at' = [at EXCEPT ![Head(batch)] = "last"]
    BY <1>8 DEF FlushCalls, FlushSends, Kill, LibRuns, Call
  <2>3. \A c \in Cycle : \/ at'[c] = at[c]
                         \/ at[c] = "batch" /\ at'[c] = "callback"
                         \/ at[c] = "batch" /\ at'[c] = "last" /\ pc = "flush"
    BY <1>0, <1>c, <2>1, <2>2
  <2> QED
    BY <1>0, <2>1, <2>3, KeepsClosing DEF Done
<1>9. CASE FlushBegin
  <2>1. UNCHANGED <<dev, passive, attached, target>> /\ pc = "device" /\ pc' = "flush"
    BY <1>9 DEF FlushBegin, LibRuns, appVars, devVars
  <2>2. \A c \in Cycle : at'[c] = at[c] \/ (at[c] = "ready" /\ at'[c] = "batch")
    BY <1>9 DEF FlushBegin
  <2>3. In("good") = {} /\ After("good") = {}
    BY <1>b, <2>1, <2>2 DEF In, After
  <2> QED
    BY <1>0, <2>1, <2>2, <2>3, KeepsClosing DEF Done
<1>10. CASE Sift
  <2>1. UNCHANGED <<dev, passive, attached, pc, target>> /\ pc = "sift" /\ walk # <<>>
    BY <1>10 DEF Sift, LibRuns, appVars, devVars, pollVars
  <2>2. \A c \in Cycle : \/ at'[c] = at[c]
                         \/ at[c] = "walk" /\ dev[c] = target /\ at'[c] = "bad"
                         \/ at[c] = "walk" /\ dev[c] # target /\ at'[c] = "good"
    BY <1>0, <1>c, <1>10, <2>1 DEF Sift
  <2> QED
    BY <1>0, <2>1, <2>2, KeepsClosing DEF Done
<1>11. CASE SiftDone
  <2>1. /\ UNCHANGED <<dev, passive, attached, target>> /\ pc = "sift" /\ pc' = "kill"
        /\ walk = <<>>
        /\ at' = [c \in Cycle |-> CASE at[c] = "good" -> "first"
                                    [] at[c] = "bad"  -> "batch"
                                    [] OTHER          -> at[c]]
    BY <1>11 DEF SiftDone, LibRuns, appVars, devVars
  <2>2. In("walk") = {}
    BY <1>0, <2>1, QueuesNow, EmptyHolds
  <2>3. \A c \in Cycle : at'[c] # "good"
    BY <2>1
  <2>4. \A c \in Cycle : dev[c] = target => at'[c] \in Done \cup {"open", "batch", "callback"}
    BY <1>0, <2>1, <2>2 DEF Closing, In, Done
  <2>5. \A c \in Cycle : at[c] \in Done => at'[c] \in Done
    BY <2>1 DEF Done
  <2> QED
    BY <1>0, <2>1, <2>3, <2>4, <2>5 DEF Closing, In
<1>12. CASE KillDone
  <2>1. /\ UNCHANGED <<at, dev, passive>> /\ attached' = [attached EXCEPT ![target] = FALSE]
        /\ pc = "kill" /\ pc' = "app" /\ batch = <<>> /\ running = None
    BY <1>12 DEF KillDone, LibRuns, appVars
  <2>2. In("batch") = {}
    BY <1>0, <2>1, QueuesNow, EmptyHolds
  <2>3. \A c \in Cycle : at[c] # "callback"
    BY <1>0, <2>1, CycleAssumption DEF Bookkeeping
  <2>4. ASSUME NEW c \in Cycle, ~attached'[dev[c]] PROVE at[c] \in Done
    <3>1. CASE dev[c] # target
      BY <1>0, <2>1, <2>4, <3>1 DEF Closing
    <3>2. CASE dev[c] = target
      <4>1. at[c] # "batch" /\ at[c] # "open"
        BY <1>0, <1>d, <2>1, <2>2, <3>2 DEF Closing, In
      <4> QED
        BY <1>0, <2>1, <2>3, <3>2, <4>1 DEF Closing
    <3> QED
      BY <3>1, <3>2
  <2>5. \A c \in Cycle : at[c] # "good"
    BY <1>b, <2>1 DEF In
  <2>6. \A d \in Device : ~attached'[d] => passive'[d]
    BY <1>0, <2>1 DEF Closing
  <2>7. \A d \in Device : ~(passive'[d] /\ attached'[d])
    BY <1>0, <2>1 DEF Closing
  <2> QED
    BY <1>0, <2>1, <2>4, <2>5, <2>6, <2>7 DEF Closing, In
<1>13. ASSUME \/ \E e \in Elapse : Check(e)
              \/ ExpireDone \/ TransportsDone \/ DevicesDone \/ FlushRefused \/ FlushEnd
              \/ \E d \in Device : NextDevice(d)
              \/ Environment \/ UNCHANGED vars
       PROVE  Closing'
  <2>1. UNCHANGED <<at, dev, passive, attached>>
    BY <1>13 DEF Check, ExpireDone, TransportsDone, DevicesDone, FlushRefused, FlushEnd,
       NextDevice, Environment, LinkDies, Receive, Answer, appVars, devVars, vars
  <2>2. \/ pc' = pc /\ target' = target
        \/ pc \notin {"sift", "kill"} /\ pc' \notin {"sift", "kill"}
    BY <1>13 DEF Check, ExpireDone, TransportsDone, DevicesDone, FlushRefused, FlushEnd,
       NextDevice, Environment, LinkDies, Receive, Answer, LibRuns, pollVars, vars
  <2>3. After("good") = In("good")
    BY <2>1 DEF After, In
  <2> QED
    BY <1>0, <1>b, <2>1, <2>2, <2>3, KeepsClosing
<1>14. CASE Application
  BY ONLY <1>14, <1>1, <1>2 DEF Application
<1>15. CASE Library
  BY ONLY <1>15, <1>5, <1>6, <1>7, <1>8, <1>9, <1>10, <1>11, <1>12, <1>13 DEF Library
<1> QED
  BY ONLY [Next]_vars, <1>3, <1>4, <1>13, <1>14, <1>15 DEF Next

\* eb_device_close begins only when no cycle is open on the device.
LEMMA BusyExcludes ==
  ASSUME TypeOK, BusyCounts, IsFiniteSet(Cycle), NEW d \in Device, DeviceClose(d)
  PROVE  \A c \in Cycle : dev[c] = d => at[c] # "open"
<1>1. Cardinality(Opened(d)) = 0
  BY DEF BusyCounts, DeviceClose, MayClose
<1>2. Opened(d) = {}
  BY <1>1, OpenedIsFinite, FS_EmptySet DEF Opened
<1> QED
  BY <1>2 DEF Opened

LEMMA StepPInv ==
  ASSUME ~Reentrant, IsFiniteSet(Cycle), Cardinality(Cycle) < UnreadyMod, PInv, [Next]_vars
  PROVE  PInv'
  BY StepInv, StepCounts, StepCloses DEF PInv

LEMMA InitPInv ==
  ASSUME Init
  PROVE  PInv
<1>1. Inv
  BY InitInv
<1>2. BusyCounts
  <2>1. \A d \in Device : Opened(d) = {} /\ unready[d] = 0
    BY DEF Init, Opened
  <2> QED
    BY <2>1, FS_EmptySet DEF BusyCounts
<1>3. Closing
  BY DEF Init, Closing, Done, In
<1> QED
  BY <1>1, <1>2, <1>3 DEF PInv

\* What the abstract specification sees of a step.
SeesDevices == UNCHANGED <<dev, passive, attached>>

LEMMA SeesNothing ==
  ASSUME SeesDevices, running' = running, \A c \in Cycle : Stage(c)' = Stage(c)
  PROVE  UNCHANGED Promise!vars
<1>1. [c \in Cycle |-> Stage(c)]' = [c \in Cycle |-> Stage(c)]
  BY Zenon
<1>2. [d \in Device |-> DeviceStage(d)]' = [d \in Device |-> DeviceStage(d)]
  BY DEF SeesDevices, DeviceStage
<1> QED
  BY <1>1, <1>2 DEF SeesDevices, Promise!vars

LEMMA SeesOne ==
  ASSUME SeesDevices, NEW c \in Cycle, NEW from, NEW to,
         Stage(c) = from, Stage(c)' = to,
         \A b \in Cycle \ {c} : Stage(b)' = Stage(b)
  PROVE  /\ Promise!Moves(c, from, to)
         /\ UNCHANGED <<dev, [d \in Device |-> DeviceStage(d)]>>
<1> DEFINE S == [b \in Cycle |-> Stage(b)]
           T == [b \in Cycle |-> Stage(b)']
<1>1. S[c] = from /\ T = [S EXCEPT ![c] = to]
  OBVIOUS
<1>2. [d \in Device |-> DeviceStage(d)]' = [d \in Device |-> DeviceStage(d)]
  BY DEF SeesDevices, DeviceStage
<1> QED
  BY <1>1, <1>2 DEF SeesDevices, Promise!Moves

\* A callback is called.
LEMMA SeesCall ==
  ASSUME PInv, SeesDevices, NEW c \in Cycle,
         running = None, running' = c, at[c] \in {"first", "last", "batch"}, at'[c] = "callback",
         \A b \in Cycle \ {c} : Stage(b)' = Stage(b)
  PROVE  Promise!Next
<1>1. /\ Promise!Moves(c, "closed", "called")
      /\ UNCHANGED <<dev, [d \in Device |-> DeviceStage(d)]>>
  BY SeesOne DEF Stage
<1>2. [d \in Device |-> DeviceStage(d)][dev[c]] # "gone"
  <2>1. dev[c] \in Device /\ attached[dev[c]]
    BY DEF PInv, Inv, TypeOK, Closing, Done
  <2> QED
    BY <2>1 DEF DeviceStage
<1>3. Promise!Call(c)
  BY <1>1, <1>2 DEF Promise!Call
<1> QED
  BY <1>3 DEF Promise!Next

LEMMA StepPromise ==
  ASSUME IsFiniteSet(Cycle), PInv, [Next]_vars
  PROVE  [Promise!Next]_Promise!vars
<1>0. /\ Inv /\ TypeOK /\ QueuesSound /\ Bookkeeping /\ BusyCounts /\ Closing
      /\ at \in [Cycle -> Place] /\ dev \in [Cycle -> Device]
      /\ passive \in [Device -> BOOLEAN] /\ attached \in [Device -> BOOLEAN]
      /\ running \in Cycle \cup {None}
      /\ pc \in {"device", "flush", "sift", "kill"} => target \in Device
  BY DEF PInv, Inv, TypeOK
<1>a. \A c \in Cycle : at[c] = "open" => attached[dev[c]] /\ ~passive[dev[c]]
  BY <1>0 DEF BusyCounts, Opened, Closing, Done
<1>b. /\ first # <<>> => Head(first) \in Cycle /\ at[Head(first)] = "first"
      /\ batch # <<>> => Head(batch) \in Cycle /\ at[Head(batch)] = "batch"
      /\ walk # <<>> => Head(walk) \in Cycle /\ at[Head(walk)] = "walk"
  BY <1>0, HeadsInPlace
<1> DEFINE stages == [c \in Cycle |-> Stage(c)]
           devices == [d \in Device |-> DeviceStage(d)]
<1>c. ASSUME SeesDevices, running' = running, \A c \in Cycle : Stage(c)' = Stage(c)
      PROVE  [Promise!Next]_Promise!vars
  BY <1>c, SeesNothing
<1>1. ASSUME NEW c \in Cycle, Open(c) PROVE Promise!Next
  <2>1. /\ SeesDevices /\ running' = running /\ at' = [at EXCEPT ![c] = "open"] /\ at[c] = "unused"
        /\ attached[dev[c]] /\ ~passive[dev[c]]
    BY <1>1 DEF Open, libIdle, SeesDevices
  <2>2. Promise!Moves(c, "unused", "open") /\ UNCHANGED <<dev, devices>>
    BY <1>0, <2>1, SeesOne DEF Stage
  <2>3. Promise!Open(c)
    BY <1>0, <2>1, <2>2 DEF Promise!Open, DeviceStage
  <2> QED
    BY <2>3 DEF Promise!Next
<1>2. ASSUME NEW c \in Cycle, NEW check \in BOOLEAN, NEW block \in BOOLEAN, Close(c, check, block)
      PROVE  Promise!Next
  <2>1. /\ SeesDevices /\ running' = running /\ at' = [at EXCEPT ![c] = "ready"] /\ at[c] = "open"
    BY <1>2 DEF Close, SeesDevices
  <2>2. Promise!Moves(c, "open", "closed") /\ UNCHANGED <<dev, devices>>
    BY <1>0, <2>1, SeesOne DEF Stage
  <2>3. Promise!Close(c)
    BY <1>0, <1>a, <2>1, <2>2 DEF Promise!Close, DeviceStage
  <2> QED
    BY <2>3 DEF Promise!Next
<1>3. ASSUME NEW c \in Cycle, Abort(c) PROVE Promise!Next
  <2>1. /\ SeesDevices /\ running' = running /\ at' = [at EXCEPT ![c] = "aborted"] /\ at[c] = "open"
    BY <1>3 DEF Abort, libIdle, SeesDevices
  <2>2. Promise!Moves(c, "open", "aborted") /\ UNCHANGED <<dev, devices>>
    BY <1>0, <2>1, SeesOne DEF Stage
  <2>3. Promise!Abort(c)
    BY <1>0, <1>a, <2>1, <2>2 DEF Promise!Abort, DeviceStage
  <2> QED
    BY <2>3 DEF Promise!Next
<1>4. ASSUME CallbackReturns PROVE Promise!Next
  <2>1. /\ SeesDevices /\ running' = None /\ at' = [at EXCEPT ![running] = "freed"]
        /\ running \in Cycle /\ at[running] = "callback"
    BY <1>0, <1>4 DEF CallbackReturns, Bookkeeping, devVars, SeesDevices
  <2>2. Promise!Moves(running, "called", "over") /\ UNCHANGED <<dev, devices>>
    BY <1>0, <2>1, SeesOne DEF Stage
  <2>3. Promise!Return(running)
    BY <2>1, <2>2 DEF Promise!Return
  <2> QED
    BY <2>1, <2>3 DEF Promise!Next
<1>5. ASSUME NEW d \in Device, DeviceClose(d) PROVE Promise!Next
  <2>1. /\ pc = "app" /\ attached[d] /\ running' = running
        /\ passive' = [passive EXCEPT ![d] = TRUE] /\ UNCHANGED <<dev, attached>>
        /\ at' = [c \in Cycle |-> CASE at[c] \in {"first", "last"} -> "walk"
                                    [] at[c] = "ready" /\ dev[c] = d -> "batch"
                                    [] OTHER -> at[c]]
    BY <1>0, <1>5 DEF DeviceClose, AppRuns, MayClose, appVars
  <2>2. \A c \in Cycle : Stage(c)' = Stage(c)
    BY <2>1 DEF Stage
  <2>3. stages' = stages
    BY <2>2, Zenon
  <2>4. ~passive[d]
    BY <1>0, <2>1 DEF Closing
  <2>5. devices[d] = "open" /\ devices' = [devices EXCEPT ![d] = "closing"]
    BY <1>0, <2>1, <2>4 DEF DeviceStage
  <2>6. \A c \in Cycle : dev[c] = d => stages[c] # "open"
    <3>1. \A c \in Cycle : dev[c] = d => at[c] # "open"
      BY <1>0, <2>1, <2>4, <1>5, BusyExcludes
    <3> QED
      BY <3>1 DEF Stage
  <2>7. Promise!BeginClose(d)
    BY <2>1, <2>3, <2>5, <2>6 DEF Promise!BeginClose, Promise!Of
  <2> QED
    BY <2>7 DEF Promise!Next
<1>6. ASSUME KillDone PROVE Promise!Next
  <2>1. /\ UNCHANGED <<at, dev, passive, running>> /\ attached' = [attached EXCEPT ![target] = FALSE]
        /\ pc = "kill" /\ batch = <<>> /\ running = None
    BY <1>6 DEF KillDone, LibRuns, appVars
  <2>2. stages' = stages
    BY <2>1 DEF Stage
  <2>3. devices[target] = "closing" /\ devices' = [devices EXCEPT ![target] = "gone"]
    BY <1>0, <2>1 DEF DeviceStage, Closing
  <2>4. In("batch") = {}
    BY <1>0, <2>1, QueuesNow, EmptyHolds
  <2>5. \A c \in Cycle : dev[c] = target => at[c] \in Done
    BY <1>0, <1>a, <2>1, <2>4, CycleAssumption DEF Closing, Bookkeeping, In
  <2>6. \A c \in Cycle : dev[c] = target => stages[c] \in {"unused", "over", "aborted"}
    BY <2>5 DEF Stage, Done
  <2>7. Promise!EndClose(target)
    BY <2>1, <2>2, <2>3, <2>6 DEF Promise!EndClose, Promise!Of
  <2> QED
    BY <1>0, <2>1, <2>7 DEF Promise!Next
<1>7. ASSUME WriteLast PROVE Promise!Next
  <2>1. SeesDevices /\ running = None
    BY <1>7 DEF WriteLast, appVars, devVars, SeesDevices
  <2>2. /\ running' \in Cycle /\ at[running'] \in {"first", "last"} /\ at'[running'] = "callback"
        /\ \A c \in Cycle \ {running'} : at'[c] = at[c] \/ (at[c] = "last" /\ at'[c] = "first")
    BY <1>0, <1>7, LastCompletes
  <2>3. \A c \in Cycle \ {running'} : Stage(c)' = Stage(c)
    BY <2>2 DEF Stage
  <2> QED
    BY <2>1, <2>2, <2>3, SeesCall
<1>8. ASSUME Expire PROVE Promise!Next
  <2>1. /\ SeesDevices /\ running = None /\ running' = Head(first)
        /\ at' = [at EXCEPT ![Head(first)] = "callback"] /\ first # <<>>
    BY <1>8 DEF Expire, Call, LibRuns, appVars, devVars, SeesDevices
  <2>2. \A c \in Cycle \ {Head(first)} : Stage(c)' = Stage(c)
    BY <1>0, <2>1 DEF Stage
  <2>3. at'[Head(first)] = "callback"
    BY <1>0, <1>b, <2>1
  <2> QED
    BY <1>b, <2>1, <2>2, <2>3, SeesCall
<1>9. ASSUME FlushCalls \/ Kill PROVE Promise!Next
  <2>1. /\ SeesDevices /\ running = None /\ running' = Head(batch)
        /\ at' = [at EXCEPT ![Head(batch)] = "callback"] /\ batch # <<>>
    BY <1>9 DEF FlushCalls, Kill, Call, LibRuns, appVars, devVars, SeesDevices
  <2>2. \A c \in Cycle \ {Head(batch)} : Stage(c)' = Stage(c)
    BY <1>0, <2>1 DEF Stage
  <2>3. at'[Head(batch)] = "callback"
    BY <1>0, <1>b, <2>1
  <2> QED
    BY <1>b, <2>1, <2>2, <2>3, SeesCall
<1>10. ASSUME \/ AskTimeout \/ WriteUnmatched \/ WritePart \/ FlushBegin \/ FlushSends
              \/ Sift \/ SiftDone
              \/ \E c \in Cycle : QueueOpFails(c) \/ \E k \in OpKind : QueueOp(c, k)
              \/ \E e \in Elapse : Check(e)
              \/ ExpireDone \/ TransportsDone \/ DevicesDone \/ FlushRefused \/ FlushEnd
              \/ \E d \in Device : NextDevice(d)
              \/ Environment \/ UNCHANGED vars
       PROVE  [Promise!Next]_Promise!vars
  <2>1. SeesDevices /\ running' = running
    BY <1>10 DEF AskTimeout, WriteUnmatched, WritePart, FlushBegin, FlushSends, Sift, SiftDone,
       QueueOpFails, QueueOp, Check, ExpireDone, TransportsDone, DevicesDone, FlushRefused,
       FlushEnd, NextDevice, Environment, LinkDies, Receive, Answer, appVars, devVars, libIdle,
       vars, SeesDevices
  <2>2. ASSUME AskTimeout \/ WriteUnmatched \/ WritePart \/ FlushBegin \/ SiftDone
        PROVE  \A c \in Cycle : Stage(c)' = Stage(c)
    <3> DEFINE Queued == {"ready", "batch", "first", "last", "good", "bad"}
    <3>1. \A c \in Cycle : at'[c] = at[c] \/ (at[c] \in Queued /\ at'[c] \in Queued)
      BY <2>2 DEF AskTimeout, WriteUnmatched, WritePart, FlushBegin, SiftDone, Moved
    <3> QED
      BY <3>1 DEF Stage
  <2>3. ASSUME FlushSends \/ Sift PROVE \A c \in Cycle : Stage(c)' = Stage(c)
    BY <1>0, <1>b, <2>3 DEF FlushSends, Sift, Stage
  <2>4. ASSUME at' = at PROVE \A c \in Cycle : Stage(c)' = Stage(c)
    BY <2>4 DEF Stage
  <2>5. \/ AskTimeout \/ WriteUnmatched \/ WritePart \/ FlushBegin \/ SiftDone
        \/ FlushSends \/ Sift
        \/ at' = at
    BY <1>10 DEF QueueOpFails, QueueOp, Check, ExpireDone, TransportsDone, DevicesDone,
       FlushRefused, FlushEnd, NextDevice, Environment, LinkDies, Receive, Answer, libIdle, vars
  <2> QED
    BY <1>c, <2>1, <2>2, <2>3, <2>4, <2>5
<1> HIDE DEF stages, devices
<1>11. CASE Application
  BY ONLY <1>11, <1>1, <1>2, <1>3, <1>5, <1>10 DEF Application
<1>12. CASE Library
  BY ONLY <1>12, <1>6, <1>7, <1>8, <1>9, <1>10 DEF Library
<1> QED
  BY ONLY [Next]_vars, <1>4, <1>10, <1>11, <1>12 DEF Next

\* What the application is promised of cycles and devices is what the library
\* does: through queues, packets, answers, timeouts and the filter of a closing
\* device, each step is one of CyclePromise or none.
THEOREM LibraryKeepsPromise ==
  ASSUME ~Reentrant, IsFiniteSet(Cycle), Cardinality(Cycle) < UnreadyMod
  PROVE  Spec => KeepsPromise
<1>1. Init => Promise!Init
  BY DEF Init, Promise!Init, Stage, DeviceStage
<1>2. Init => PInv
  BY InitPInv
<1>3. PInv /\ [Next]_vars => PInv' /\ [Promise!Next]_Promise!vars
  BY StepPInv, StepPromise
<1> QED
  BY <1>1, <1>2, <1>3, PTL DEF Spec, KeepsPromise, Promise!Spec

-----------------------------------------------------------------------------
(* Answers.                                                                *)

\* The cycles that have left the send queue of their device for good, and
\* those whose response an answer may still find.
Sent == {c \in Cycle : \/ at[c] \in {"first", "last", "walk", "good", "bad", "callback", "freed"}
                       \/ at[c] = "batch" /\ pc # "flush"}
Awaited == {c \in Cycle : at[c] \in {"first", "last", "walk", "good"}}

\* No address in use is given out next: rba counts the cycles sent, and has
\* not wrapped before all of them are.
AddressesFresh ==
  \/ Sent = Cycle
  \/ /\ rba <= Cardinality(Sent)
     /\ \A m \in net : m.address < rba
     /\ \A i \in DOMAIN inbox : inbox[i].address < rba
     /\ \A c \in Awaited : resp[c].address < rba

\* What travels under the address of a response belongs to its cycle.
AddressesOwned ==
  /\ \A m \in net : /\ m.owner \in Sent
                    /\ \A c \in Awaited : resp[c].address = m.address <=> c = m.owner
  /\ \A i \in DOMAIN inbox :
       /\ inbox[i].owner \in Sent
       /\ \A c \in Awaited : resp[c].address = inbox[i].address <=> c = inbox[i].owner

\* The parts of the answer that is being filed.
Unfiled == {inbox[i].part : i \in DOMAIN inbox}

\* The remote side answers what was asked: the writes of one answer that are
\* still to be filed are those its cycle still waits for.
AnswersExpected ==
  /\ \A m \in net : m.owner \in Awaited => m.need = Need(m.owner)
  /\ \A i, j \in DOMAIN inbox : /\ inbox[i].owner = inbox[j].owner
                                /\ inbox[i].part = inbox[j].part => i = j
  /\ \A c \in Awaited :
       resp[c].need = IF inbox # <<>> /\ Head(inbox).owner = c
                      THEN Unfiled ELSE Need(c)
  /\ \A c \in Cycle : status[c] # "FAIL"

AInv ==
  /\ Inv
  /\ AddressesFresh
  /\ AddressesOwned
  /\ Conformant => AnswersExpected

LEMMA TailOf ==
  ASSUME NEW S, NEW s \in Seq(S), s # <<>>
  PROVE  /\ Tail(s) \in Seq(S) /\ Head(s) = s[1] /\ 1 \in DOMAIN s /\ Head(s) \in S
         /\ \A i \in DOMAIN Tail(s) : i + 1 \in DOMAIN s /\ Tail(s)[i] = s[i + 1]
         /\ \A i \in DOMAIN s : i = 1 \/ (i - 1 \in DOMAIN Tail(s) /\ Tail(s)[i - 1] = s[i])
         /\ Tail(s) # <<>> => Head(Tail(s)) = s[2] /\ 2 \in DOMAIN s
         /\ Tail(s) # s
  OBVIOUS

\* What a step may do without giving an answer to anyone: it forgets messages
\* and cycles, or drops a write for a cycle that waits no more.
LEMMA KeepsAnswers ==
  ASSUME AInv, IsFiniteSet(Cycle), rba' = rba, net' \subseteq net,
         \/ inbox' = inbox
         \/ inbox # <<>> /\ inbox' = Tail(inbox) /\ Head(inbox).owner \notin Awaited',
         Sent \subseteq Sent', Awaited' \subseteq Awaited,
         \A c \in Awaited' : /\ resp'[c].address = resp[c].address
                             /\ resp'[c].need = resp[c].need
                             /\ Need(c)' = Need(c),
         Conformant => \A c \in Cycle : status'[c] = status[c] \/ status'[c] # "FAIL"
  PROVE  AddressesFresh' /\ AddressesOwned' /\ (Conformant => AnswersExpected')
<1>0. TypeOK /\ inbox \in Seq(Token) /\ rba \in Nat
  <2>1. TypeOK /\ inbox \in Seq(Token) /\ rba \in 0..RbaCount-1
    BY DEF AInv, Inv, TypeOK
  <2> QED
    BY <2>1
<1>1. \A j \in DOMAIN inbox' : \E i \in DOMAIN inbox : inbox'[j] = inbox[i]
  BY <1>0, TailOf
<1>2. AddressesFresh'
  <2>1. CASE Sent = Cycle
    BY <2>1 DEF AddressesFresh, Sent
  <2>2. CASE ~(Sent = Cycle)
    <3>1. /\ rba <= Cardinality(Sent)
          /\ \A m \in net : m.address < rba
          /\ \A i \in DOMAIN inbox : inbox[i].address < rba
          /\ \A c \in Awaited : resp[c].address < rba
      BY <2>2 DEF AInv, AddressesFresh
    <3>2. /\ Cardinality(Sent) <= Cardinality(Sent')
          /\ Cardinality(Sent) \in Nat /\ Cardinality(Sent') \in Nat
      <4>1. IsFiniteSet(Sent')
        BY FS_Subset DEF Sent
      <4> QED
        BY <4>1, FS_Subset, FS_CardinalityType
    <3>3. /\ \A m \in net' : m.address < rba'
          /\ \A i \in DOMAIN inbox' : inbox'[i].address < rba'
          /\ \A c \in Awaited' : resp'[c].address < rba'
      BY <1>1, <3>1
    <3>4. rba' <= Cardinality(Sent')
      BY <1>0, <3>1, <3>2
    <3> QED
      BY <3>3, <3>4 DEF AddressesFresh
  <2> QED
    BY <2>1, <2>2
<1>3. AddressesOwned'
  <2>1. ASSUME NEW m \in net'
        PROVE  m.owner \in Sent' /\ \A c \in Awaited' : resp'[c].address = m.address <=> c = m.owner
    BY <2>1 DEF AInv, AddressesOwned
  <2>2. ASSUME NEW j \in DOMAIN inbox'
        PROVE  /\ inbox'[j].owner \in Sent'
               /\ \A c \in Awaited' : resp'[c].address = inbox'[j].address <=> c = inbox'[j].owner
    <3>1. PICK i \in DOMAIN inbox : inbox'[j] = inbox[i]
      BY <1>1
    <3> QED
      BY <3>1 DEF AInv, AddressesOwned
  <2> QED
    BY <2>1, <2>2 DEF AddressesOwned
<1>4. ASSUME Conformant PROVE AnswersExpected'
  <2>0. AnswersExpected
    BY <1>4 DEF AInv
  <2>1. \A m \in net' : m.owner \in Awaited' => m.need = Need(m.owner)'
    BY <2>0 DEF AnswersExpected
  <2>2. \A i, j \in DOMAIN inbox' : /\ inbox'[i].owner = inbox'[j].owner
                                    /\ inbox'[i].part = inbox'[j].part => i = j
    <3>1. CASE inbox' = inbox
      BY <2>0, <3>1 DEF AnswersExpected
    <3>2. CASE inbox # <<>> /\ inbox' = Tail(inbox)
      BY <1>0, <2>0, <3>2, TailOf DEF AnswersExpected
    <3> QED
      BY <3>1, <3>2
  <2>3. ASSUME NEW c \in Awaited'
        PROVE  resp'[c].need = IF inbox' # <<>> /\ Head(inbox').owner = c
                               THEN Unfiled' ELSE Need(c)'
    <3>1. CASE inbox' = inbox
      <4>1. Unfiled' = Unfiled
        BY <3>1 DEF Unfiled
      <4> QED
        BY <2>0, <2>3, <3>1, <4>1 DEF AnswersExpected
    <3>2. CASE inbox # <<>> /\ inbox' = Tail(inbox) /\ Head(inbox).owner \notin Awaited'
      <4>1. Head(inbox).owner # c /\ (inbox' # <<>> => Head(inbox').owner = Head(inbox).owner)
        BY <1>0, <2>0, <2>3, <3>2, TailOf DEF AnswersExpected
      <4> QED
        BY <2>0, <2>3, <4>1 DEF AnswersExpected
    <3> QED
      BY <3>1, <3>2
  <2>4. \A c \in Cycle : status'[c] # "FAIL"
    BY <1>4, <2>0 DEF AnswersExpected
  <2> QED
    BY <2>1, <2>2, <2>3, <2>4 DEF AnswersExpected
<1> QED
  BY <1>2, <1>3, <1>4

LEMMA KeepsNeed ==
  ASSUME NEW c \in Cycle, ops'[c] = ops[c], checked'[c] = checked[c]
  PROVE  Need(c)' = Need(c)
  BY DEF Need

\* A step of which the answers that are waited for notice nothing.
LEMMA QuietStep ==
  ASSUME AInv, IsFiniteSet(Cycle), UNCHANGED <<rba, inbox>>, net' \subseteq net,
         Sent \subseteq Sent', Awaited' \subseteq Awaited,
         \A c \in Awaited : /\ resp'[c].address = resp[c].address /\ resp'[c].need = resp[c].need
                            /\ ops'[c] = ops[c] /\ checked'[c] = checked[c],
         \A c \in Cycle : status'[c] = status[c] \/ status'[c] # "FAIL"
  PROVE  AddressesFresh' /\ AddressesOwned' /\ (Conformant => AnswersExpected')
<1>1. \A c \in Awaited' : Need(c)' = Need(c)
  BY KeepsNeed DEF Awaited
<1> QED
  BY <1>1, KeepsAnswers

LEMMA ApplicationAnswers ==
  ASSUME AInv, IsFiniteSet(Cycle), NEW c \in Cycle,
         \/ Open(c) \/ QueueOpFails(c) \/ Abort(c)
         \/ \E k \in OpKind : QueueOp(c, k)
         \/ \E check, block \in BOOLEAN : Close(c, check, block)
  PROVE  AddressesFresh' /\ AddressesOwned' /\ (Conformant => AnswersExpected')
<1>1. TypeOK /\ at \in [Cycle -> Place]
  BY DEF AInv, Inv, TypeOK
<1>2. UNCHANGED <<rba, inbox, net, resp, status, pc>>
  BY DEF Open, QueueOpFails, Abort, QueueOp, Close, libIdle, history, respVars, pollVars
<1>3. at[c] \in {"unused", "open"} /\ at'[c] \in {"open", "ready", "aborted"}
  BY <1>1 DEF Open, QueueOpFails, Abort, QueueOp, Close
<1>4. \A b \in Cycle \ {c} : at'[b] = at[b] /\ ops'[b] = ops[b] /\ checked'[b] = checked[b]
  BY <1>1 DEF Open, QueueOpFails, Abort, QueueOp, Close, TypeOK
<1>5. Sent' = Sent /\ Awaited' = Awaited /\ c \notin Awaited
  BY <1>2, <1>3, <1>4 DEF Sent, Awaited
<1>6. \A b \in Awaited : ops'[b] = ops[b] /\ checked'[b] = checked[b]
  BY <1>4, <1>5 DEF Awaited
<1> QED
  BY <1>2, <1>5, <1>6, QuietStep

LEMMA LibraryAnswers ==
  ASSUME AInv, IsFiniteSet(Cycle),
         \/ CallbackReturns \/ AskTimeout \/ Expire \/ ExpireDone \/ TransportsDone
         \/ DevicesDone \/ FlushRefused \/ FlushBegin \/ FlushCalls \/ FlushEnd
         \/ Sift \/ SiftDone \/ Kill \/ KillDone \/ LinkDies
         \/ \E e \in Elapse : Check(e)
         \/ \E d \in Device : NextDevice(d) \/ DeviceClose(d)
         \/ UNCHANGED vars
  PROVE  AddressesFresh' /\ AddressesOwned' /\ (Conformant => AnswersExpected')
<1>1. /\ Inv /\ TypeOK /\ QueuesSound /\ Bookkeeping /\ at \in [Cycle -> Place]
      /\ resp \in [Cycle -> Response] /\ status \in [Cycle -> Status]
      /\ ops \in [Cycle -> SUBSET AllKinds] /\ checked \in [Cycle -> BOOLEAN]
      /\ running \in Cycle \cup {None}
  BY DEF AInv, Inv, TypeOK
<1>a. /\ first # <<>> => Head(first) \in Cycle /\ at[Head(first)] = "first"
      /\ batch # <<>> => Head(batch) \in Cycle /\ at[Head(batch)] = "batch"
      /\ walk # <<>> => Head(walk) \in Cycle /\ at[Head(walk)] = "walk"
  BY <1>1, HeadsInPlace
<1>b. batch = <<>> => In("batch") = {}
  BY <1>1, QueuesNow, EmptyHolds
<1>2. UNCHANGED <<rba, inbox>> /\ net' \subseteq net
  BY DEF CallbackReturns, AskTimeout, Expire, ExpireDone, TransportsDone, DevicesDone,
     FlushRefused, FlushBegin, FlushCalls, FlushEnd, Sift, SiftDone, Kill, KillDone, LinkDies,
     Check, NextDevice, DeviceClose, respVars, vars
<1>3. CASE CallbackReturns
  <2>1. at[running] = "callback" /\ running \in Cycle
    BY <1>1, <1>3 DEF CallbackReturns, Bookkeeping
  <2>2. /\ at' = [at EXCEPT ![running] = "freed"] /\ pc' = pc /\ status' = status
        /\ \A c \in Cycle \ {running} :
             resp'[c] = resp[c] /\ ops'[c] = ops[c] /\ checked'[c] = checked[c]
    BY <1>1, <1>3 DEF CallbackReturns, history, pollVars
  <2>3. Sent' = Sent /\ Awaited' = Awaited /\ running \notin Awaited
    BY <1>1, <2>1, <2>2 DEF Sent, Awaited
  <2>4. \A c \in Awaited : resp'[c] = resp[c] /\ ops'[c] = ops[c] /\ checked'[c] = checked[c]
    BY <2>2, <2>3 DEF Awaited
  <2> QED
    BY <1>2, <2>2, <2>3, <2>4, QuietStep
<1>4. ASSUME ~CallbackReturns PROVE UNCHANGED <<ops, checked>>
  BY <1>4 DEF AskTimeout, Expire, ExpireDone, TransportsDone, DevicesDone,
     FlushRefused, FlushBegin, FlushCalls, FlushEnd, Sift, SiftDone, Kill, KillDone, LinkDies,
     Check, NextDevice, DeviceClose, appVars, vars
<1>5. CASE ExpireDone
  <2>1. at' = at /\ status' = status /\ pc = "expire" /\ pc' = "transports"
    BY <1>5 DEF ExpireDone, LibRuns, history
  <2>2. \A c \in Cycle : resp'[c].address = resp[c].address /\ resp'[c].need = resp[c].need
    BY <1>1, <1>5 DEF ExpireDone, Response
  <2>3. Sent' = Sent /\ Awaited' = Awaited /\ UNCHANGED <<ops, checked>>
    BY <2>1, <1>5 DEF Sent, Awaited, ExpireDone, appVars
  <2>4. \A c \in Awaited : resp'[c].address = resp[c].address /\ resp'[c].need = resp[c].need
    BY <2>2 DEF Awaited
  <2> QED
    BY <1>2, <2>1, <2>3, <2>4, QuietStep
<1>6. ASSUME ~CallbackReturns, ~ExpireDone PROVE resp' = resp
  BY <1>6 DEF AskTimeout, Expire, TransportsDone, DevicesDone,
     FlushRefused, FlushBegin, FlushCalls, FlushEnd, Sift, SiftDone, Kill, KillDone, LinkDies,
     Check, NextDevice, DeviceClose, respVars, vars
<1>7. CASE Expire \/ FlushCalls \/ Kill
  <2>1. PICK c \in Cycle, s \in {"OK", "BADOP", "OVERFLOW", "OOM", "TIMEOUT"} :
          /\ at[c] \in {"first", "batch"} /\ at' = [at EXCEPT ![c] = "callback"]
          /\ status' = [status EXCEPT ![c] = s]
    <3>1. CASE FlushCalls
      <4>1. PICK s \in Outcome(Head(batch)) : Call(Head(batch), s)
        BY <3>1 DEF FlushCalls
      <4>2. s \in {"OK", "BADOP", "OVERFLOW", "OOM"}
        BY DEF Outcome
      <4> QED
        BY <1>a, <3>1, <4>1, <4>2 DEF FlushCalls, Call
    <3> QED
      BY <1>a, <1>7, <3>1 DEF Expire, Kill, Call
  <2>2. pc' = pc /\ UNCHANGED <<ops, checked, resp>>
    BY <1>7 DEF Expire, FlushCalls, Kill, pollVars, appVars, respVars
  <2>3. Sent \subseteq Sent' /\ Awaited' \subseteq Awaited
    BY <1>1, <2>1, <2>2 DEF Sent, Awaited
  <2>4. \A b \in Cycle : status'[b] = status[b] \/ status'[b] # "FAIL"
    BY <1>1, <2>1
  <2> QED
    BY <1>2, <2>2, <2>3, <2>4, QuietStep
<1>8. ASSUME ~CallbackReturns, ~ExpireDone, ~Expire, ~FlushCalls, ~Kill
      PROVE  AddressesFresh' /\ AddressesOwned' /\ (Conformant => AnswersExpected')
  <2>1. status' = status
    BY <1>8 DEF AskTimeout, TransportsDone, DevicesDone, FlushRefused, FlushBegin, FlushEnd,
       Sift, SiftDone, KillDone, LinkDies, Check, NextDevice, DeviceClose, history, vars
  <2>2. CASE AskTimeout
    <3>1. \A c \in Cycle : at'[c] = at[c] \/ (at[c] = "last" /\ at'[c] = "first")
      BY <2>2 DEF AskTimeout, Moved
    <3>2. Sent \subseteq Sent' /\ Awaited' \subseteq Awaited
      BY <3>1, <2>2 DEF Sent, Awaited, AskTimeout, pollVars
    <3> QED
      BY <1>2, <1>4, <1>6, <1>8, <2>1, <3>2, QuietStep
  <2>3. CASE FlushBegin
    <3>1. \A c \in Cycle : at'[c] = at[c] \/ (at[c] = "ready" /\ at'[c] = "batch")
      BY <2>3 DEF FlushBegin
    <3>2. In("batch") = {} /\ pc' = "flush"
      BY <1>1, <1>b, <2>3 DEF FlushBegin, LibRuns, Bookkeeping
    <3>3. Sent \subseteq Sent' /\ Awaited' \subseteq Awaited
      BY <3>1, <3>2 DEF Sent, Awaited, In
    <3> QED
      BY <1>2, <1>4, <1>6, <1>8, <2>1, <3>3, QuietStep
  <2>4. CASE Sift \/ SiftDone
    <3>1. \A c \in Cycle :
            \/ at'[c] = at[c]
            \/ at[c] = "walk" /\ at'[c] \in {"good", "bad"}
            \/ at[c] = "good" /\ at'[c] = "first"
            \/ at[c] = "bad" /\ at'[c] = "batch"
      BY <1>1, <1>a, <2>4 DEF Sift, SiftDone
    <3>2. pc = "sift" /\ pc' # "flush"
      BY <2>4 DEF Sift, SiftDone, LibRuns, pollVars
    <3>3. Sent \subseteq Sent' /\ Awaited' \subseteq Awaited
      BY <3>1, <3>2 DEF Sent, Awaited
    <3> QED
      BY <1>2, <1>4, <1>6, <1>8, <2>1, <3>3, QuietStep
  <2>5. ASSUME NEW d \in Device, DeviceClose(d)
        PROVE  AddressesFresh' /\ AddressesOwned' /\ (Conformant => AnswersExpected')
    <3>1. \A c \in Cycle :
            \/ at'[c] = at[c]
            \/ at[c] \in {"first", "last"} /\ at'[c] = "walk"
            \/ at[c] = "ready" /\ at'[c] = "batch"
      BY <2>5 DEF DeviceClose
    <3>2. pc' = "sift"
      BY <2>5 DEF DeviceClose
    <3>3. Sent \subseteq Sent' /\ Awaited' \subseteq Awaited
      BY <3>1, <3>2 DEF Sent, Awaited
    <3> QED
      BY <1>2, <1>4, <1>6, <1>8, <2>1, <3>3, QuietStep
  <2>6. ASSUME ~AskTimeout, ~FlushBegin, ~Sift, ~SiftDone, ~ \E d \in Device : DeviceClose(d)
        PROVE  AddressesFresh' /\ AddressesOwned' /\ (Conformant => AnswersExpected')
    <3>1. at' = at
      BY <1>8, <2>6 DEF TransportsDone, DevicesDone, FlushRefused, FlushEnd,
         KillDone, LinkDies, Check, NextDevice, vars
    <3>2. pc' = "flush" => pc = "flush"
      BY <1>8, <2>6 DEF TransportsDone, DevicesDone, FlushRefused, FlushEnd,
         KillDone, LinkDies, Check, NextDevice, pollVars, vars
    <3>3. Sent \subseteq Sent' /\ Awaited' \subseteq Awaited
      BY <3>1, <3>2 DEF Sent, Awaited
    <3> QED
      BY <1>2, <1>4, <1>6, <1>8, <2>1, <3>3, QuietStep
  <2> QED
    BY <2>2, <2>3, <2>4, <2>5, <2>6
<1> QED
  BY <1>3, <1>5, <1>7, <1>8

\* A cycle is sent under an address that nothing carries.
LEMMA FlushAnswers ==
  ASSUME AInv, IsFiniteSet(Cycle), Cardinality(Cycle) <= RbaCount, FlushSends
  PROVE  AddressesFresh' /\ AddressesOwned' /\ (Conformant => AnswersExpected')
<1> DEFINE c == Head(batch)
           m == [dev |-> target, answer |-> FALSE, address |-> rba,
                 need |-> Need(c), copies |-> 1, owner |-> c]
<1>1. /\ Inv /\ TypeOK /\ Bookkeeping /\ at \in [Cycle -> Place] /\ resp \in [Cycle -> Response]
      /\ rba \in 0..RbaCount-1
      /\ RbaCount \in Nat \ {0}
  BY CycleAssumption DEF AInv, Inv, TypeOK
<1>2. /\ batch # <<>> /\ pc = "flush" /\ pc' = pc
      /\ resp' = [resp EXCEPT ![c] = [address |-> rba, left |-> Timeout, need |-> Need(c)]]
      /\ at' = [at EXCEPT ![c] = "last"]
      /\ net' = net \cup {m}
      /\ rba' = (rba + 1) % RbaCount
      /\ UNCHANGED <<ops, checked, status, inbox>>
  BY DEF FlushSends, LibRuns, NextRba, pollVars, appVars, history
<1>3. c \in Cycle /\ at[c] = "batch" /\ inbox = <<>>
  <2>1. inbox = <<>>
    BY <1>1, <1>2 DEF Bookkeeping
  <2> QED
    BY <1>1, <1>2, <2>1, HeadsInPlace
<1> HIDE DEF c
<1>4. c \notin Sent /\ Sent' = Sent \cup {c} /\ Awaited' = Awaited \cup {c} /\ c \notin Awaited
  BY <1>1, <1>2, <1>3 DEF Sent, Awaited
<1>5. /\ rba <= Cardinality(Sent)
      /\ \A n \in net : n.address < rba
      /\ \A b \in Awaited : resp[b].address < rba
  BY <1>3, <1>4 DEF AInv, AddressesFresh
<1>6. \A b \in Awaited : resp'[b] = resp[b]
  BY <1>1, <1>2, <1>4 DEF Awaited
<1>7. resp'[c].address = rba /\ resp'[c].need = Need(c)
  BY <1>1, <1>2, <1>3
<1>8. AddressesFresh'
  <2>1. /\ IsFiniteSet(Sent) /\ Cardinality(Sent) \in Nat /\ Cardinality(Cycle) \in Nat
        /\ IsFiniteSet(Sent')
    BY FS_Subset, FS_CardinalityType DEF Sent
  <2>2. Cardinality(Sent') = Cardinality(Sent) + 1
    BY <1>4, <2>1, FS_AddElement
  <2>3. CASE rba + 1 < RbaCount
    <3>1. rba' = rba + 1
      BY <1>1, <1>2, <2>3, InRange
    <3>2. rba' <= Cardinality(Sent')
      BY <1>1, <1>5, <2>1, <2>2, <3>1
    <3>3. \A n \in net' : n.address < rba'
      <4>1. ASSUME NEW n \in net PROVE n.address < rba + 1
        <5>1. n.address \in Int
          BY <1>1 DEF TypeOK, Message
        <5> QED
          BY <1>1, <1>5, <5>1
      <4>2. m.address < rba + 1
        BY <1>1
      <4> QED
        BY <1>2, <3>1, <4>1, <4>2
    <3>4. ASSUME NEW b \in Awaited' PROVE resp'[b].address < rba'
      <4>1. CASE b = c
        BY <1>1, <1>7, <3>1, <4>1
      <4>2. CASE b # c
        <5>1. b \in Awaited /\ resp[b].address \in Int
          BY <1>1, <1>4, <4>2 DEF Response, Awaited
        <5> QED
          BY <1>1, <1>5, <1>6, <3>1, <5>1
      <4> QED
        BY <4>1, <4>2
    <3>5. \A i \in DOMAIN inbox' : FALSE
      BY <1>2, <1>3
    <3> QED
      BY <3>2, <3>3, <3>4, <3>5 DEF AddressesFresh
  <2>4. CASE ~(rba + 1 < RbaCount)
    <3>1. Cardinality(Sent') >= Cardinality(Cycle)
      BY <1>1, <1>5, <2>1, <2>2, <2>4
    <3>2. Sent' \subseteq Cycle
      BY DEF Sent
    <3>3. Cardinality(Cycle) = Cardinality(Sent') /\ Sent' \in SUBSET Cycle
      BY <2>1, <2>2, <3>1, <3>2, FS_Subset
    <3> QED
      BY <3>3, FS_Subset DEF AddressesFresh
  <2> QED
    BY <2>3, <2>4
<1>9. AddressesOwned'
  <2>1. ASSUME NEW n \in net'
        PROVE  n.owner \in Sent' /\ \A b \in Awaited' : resp'[b].address = n.address <=> b = n.owner
    <3>1. CASE n = m
      BY <1>1, <1>4, <1>5, <1>6, <1>7, <3>1
    <3>2. CASE n \in net
      BY <1>1, <1>4, <1>5, <1>6, <1>7, <3>2 DEF AInv, AddressesOwned
    <3> QED
      BY <1>2, <2>1, <3>1, <3>2
  <2>2. \A i \in DOMAIN inbox' : FALSE
    BY <1>2, <1>3
  <2> QED
    BY <2>1, <2>2 DEF AddressesOwned
<1>10. ASSUME Conformant PROVE AnswersExpected'
  <2>0. AnswersExpected
    BY <1>10 DEF AInv
  <2>1. \A b \in Cycle : Need(b)' = Need(b)
    BY <1>2, KeepsNeed
  <2>2. ASSUME NEW n \in net', n.owner \in Awaited' PROVE n.need = Need(n.owner)'
    <3>1. CASE n = m
      BY <1>3, <2>1, <3>1
    <3>2. CASE n \in net
      <4>1. n.owner \in Awaited
        BY <1>4, <2>2, <3>2 DEF AInv, AddressesOwned
      <4> QED
        BY <2>0, <2>1, <3>2, <4>1 DEF AnswersExpected, Awaited
    <3> QED
      BY <1>2, <2>2, <3>1, <3>2
  <2>3. ASSUME NEW b \in Awaited' PROVE resp'[b].need = Need(b)'
    BY <1>3, <1>4, <1>6, <1>7, <2>0, <2>1, <2>3 DEF AnswersExpected, Awaited
  <2>4. inbox' = <<>> /\ status' = status
    BY <1>2, <1>3
  <2> QED
    BY <2>0, <2>2, <2>3, <2>4 DEF AnswersExpected
<1> QED
  BY <1>8, <1>9, <1>10

\* The remote side turns a request into an answer.
LEMMA RemoteAnswers ==
  ASSUME AInv, NEW m \in net, NEW parts \in SUBSET Part, NEW n \in 1..MaxCopies,
         Answer(m, parts, n)
  PROVE  AddressesFresh' /\ AddressesOwned' /\ (Conformant => AnswersExpected')
<1> DEFINE a == [m EXCEPT !.answer = TRUE, !.need = parts, !.copies = n]
<1>1. /\ net' = (net \ {m}) \cup {a}
      /\ Conformant => parts = m.need
      /\ UNCHANGED <<at, pc, resp, rba, inbox, ops, checked, status>>
  BY DEF Answer, respVars, pollVars, appVars, history
<1>2. m \in Message
  BY DEF AInv, Inv, TypeOK
<1>3. a.owner = m.owner /\ a.address = m.address /\ a.need = parts
  BY <1>2 DEF Message
<1> HIDE DEF a
<1>4. Sent' = Sent /\ Awaited' = Awaited
  BY <1>1 DEF Sent, Awaited
<1>5. AddressesFresh'
  BY <1>1, <1>3, <1>4 DEF AInv, AddressesFresh
<1>6. AddressesOwned'
  BY <1>1, <1>3, <1>4 DEF AInv, AddressesOwned
<1>7. ASSUME Conformant PROVE AnswersExpected'
  <2>0. AnswersExpected
    BY <1>7 DEF AInv
  <2>1. (\A b \in Cycle : Need(b)' = Need(b)) /\ Unfiled' = Unfiled
    BY <1>1, KeepsNeed DEF Unfiled
  <2>2. \A k \in net' : k.owner \in Awaited' => k.need = Need(k.owner)'
    BY <1>1, <1>3, <1>4, <1>7, <2>0, <2>1 DEF AnswersExpected, Awaited
  <2>3. ASSUME NEW b \in Awaited'
        PROVE  resp'[b].need = IF inbox' # <<>> /\ Head(inbox').owner = b THEN Unfiled' ELSE Need(b)'
    BY <1>1, <1>4, <2>0, <2>1, <2>3 DEF AnswersExpected, Awaited
  <2> QED
    BY <1>1, <2>0, <2>2, <2>3 DEF AnswersExpected
<1> QED
  BY <1>5, <1>6, <1>7

\* The writes of a message, each once.
LEMMA TokensOf ==
  ASSUME NEW m \in Message
  PROVE  /\ \A i \in DOMAIN Tokens(m) : /\ Tokens(m)[i].owner = m.owner
                                        /\ Tokens(m)[i].address = m.address
                                        /\ Tokens(m)[i].part \in m.need
         /\ \A i, j \in DOMAIN Tokens(m) : Tokens(m)[i].part = Tokens(m)[j].part => i = j
         /\ \A p \in m.need : \E i \in DOMAIN Tokens(m) : Tokens(m)[i].part = p
         /\ Tokens(m) # <<>> => Head(Tokens(m)) = Tokens(m)[1] /\ 1 \in DOMAIN Tokens(m)
         /\ m.need = {} => Tokens(m) = <<>>
<1> DEFINE token(p) == [address |-> m.address, part |-> p, owner |-> m.owner]
<1>1. Tokens(m) = (IF "data" \in m.need THEN <<token("data")>> ELSE <<>>)
                    \o (IF "status" \in m.need THEN <<token("status")>> ELSE <<>>)
  BY DEF Tokens
<1>2. m.need \subseteq {"data", "status"}
  BY DEF Message, Part
<1>3. \A p : token(p).owner = m.owner /\ token(p).address = m.address /\ token(p).part = p
  OBVIOUS
<1> HIDE DEF token
<1>4. CASE m.need = {}
  BY <1>1, <1>4
<1>5. CASE m.need = {"data"}
  <2>1. Tokens(m) = <<token("data")>>
    BY <1>1, <1>5
  <2> QED
    BY <1>3, <1>5, <2>1
<1>6. CASE m.need = {"status"}
  <2>1. Tokens(m) = <<token("status")>>
    BY <1>1, <1>6
  <2> QED
    BY <1>3, <1>6, <2>1
<1>7. CASE m.need = {"data", "status"}
  <2>1. Tokens(m) = <<token("data")>> \o <<token("status")>>
    BY <1>1, <1>7
  <2>2. /\ DOMAIN Tokens(m) = {1, 2} /\ Head(Tokens(m)) = Tokens(m)[1]
        /\ Tokens(m)[1] = token("data") /\ Tokens(m)[2] = token("status")
    BY <2>1
  <2>3. /\ Tokens(m)[1].part = "data" /\ Tokens(m)[2].part = "status"
        /\ Tokens(m)[1].owner = m.owner /\ Tokens(m)[2].owner = m.owner
        /\ Tokens(m)[1].address = m.address /\ Tokens(m)[2].address = m.address
        /\ Head(Tokens(m)) = Tokens(m)[1]
    BY <1>3, <2>2
  <2> QED
    BY <1>7, <2>2, <2>3
<1> QED
  BY <1>2, <1>4, <1>5, <1>6, <1>7

\* A message is taken off the network, to be filed write by write.
LEMMA ReceiveAnswers ==
  ASSUME AInv, NEW m \in net, Receive(m)
  PROVE  AddressesFresh' /\ AddressesOwned' /\ (Conformant => AnswersExpected')
<1>1. /\ inbox = <<>> /\ inbox' = Tokens(m)
      /\ net' = (net \ {m}) \cup (IF m.copies > 1 THEN {[m EXCEPT !.copies = @ - 1]} ELSE {})
      /\ UNCHANGED <<at, pc, resp, rba, ops, checked, status>>
  BY DEF Receive, respVars, pollVars, appVars, history
<1>2. m \in Message
  BY DEF AInv, Inv, TypeOK
<1>3. \A n \in net' : \E k \in net : n.owner = k.owner /\ n.address = k.address /\ n.need = k.need
  <2>1. [m EXCEPT !.copies = @ - 1].owner = m.owner
    BY <1>2 DEF Message
  <2>2. [m EXCEPT !.copies = @ - 1].address = m.address
    BY <1>2 DEF Message
  <2>3. [m EXCEPT !.copies = @ - 1].need = m.need
    BY <1>2 DEF Message
  <2> QED
    BY <1>1, <2>1, <2>2, <2>3
<1>4. Sent' = Sent /\ Awaited' = Awaited
  BY <1>1 DEF Sent, Awaited
<1>5. AddressesFresh'
  BY <1>1, <1>2, <1>3, <1>4, TokensOf DEF AInv, AddressesFresh
<1>6. AddressesOwned'
  <2>1. ASSUME NEW n \in net'
        PROVE  n.owner \in Sent' /\ \A c \in Awaited' : resp'[c].address = n.address <=> c = n.owner
    BY <1>1, <1>3, <1>4 DEF AInv, AddressesOwned
  <2>2. ASSUME NEW i \in DOMAIN inbox'
        PROVE  /\ inbox'[i].owner \in Sent'
               /\ \A c \in Awaited' : resp'[c].address = inbox'[i].address <=> c = inbox'[i].owner
    <3>1. inbox'[i].owner = m.owner /\ inbox'[i].address = m.address
      BY <1>1, <1>2, TokensOf
    <3> QED
      BY <1>1, <1>4, <3>1 DEF AInv, AddressesOwned
  <2> QED
    BY <2>1, <2>2 DEF AddressesOwned
<1>7. ASSUME Conformant PROVE AnswersExpected'
  <2>0. AnswersExpected
    BY <1>7 DEF AInv
  <2>1. \A b \in Cycle : Need(b)' = Need(b)
    BY <1>1, KeepsNeed
  <2>2. ASSUME NEW n \in net', n.owner \in Awaited' PROVE n.need = Need(n.owner)'
    <3>1. PICK k \in net : n.owner = k.owner /\ n.need = k.need
      BY <1>3
    <3> QED
      BY <1>4, <2>0, <2>1, <2>2, <3>1 DEF AnswersExpected, Awaited
  <2>3. Unfiled' = m.need
    BY <1>1, <1>2, TokensOf DEF Unfiled
  <2>4. ASSUME NEW c \in Awaited'
        PROVE  resp'[c].need = IF inbox' # <<>> /\ Head(inbox').owner = c THEN Unfiled' ELSE Need(c)'
    <3>1. resp'[c].need = Need(c) /\ Need(c)' = Need(c)
      BY <1>1, <1>4, <2>0, <2>1, <2>4 DEF AnswersExpected, Awaited
    <3>2. inbox' # <<>> => Head(inbox').owner = m.owner
      BY <1>1, <1>2, TokensOf
    <3>3. m.owner = c => m.need = Need(c)
      BY <1>4, <2>0, <2>4 DEF AnswersExpected
    <3> QED
      BY <2>3, <3>1, <3>2, <3>3
  <2>5. \A i, j \in DOMAIN inbox' : /\ inbox'[i].owner = inbox'[j].owner
                                    /\ inbox'[i].part = inbox'[j].part => i = j
    BY <1>1, <1>2, TokensOf
  <2> QED
    BY <1>1, <2>0, <2>2, <2>4, <2>5 DEF AnswersExpected
<1> QED
  BY <1>5, <1>6, <1>7

\* While answers are filed, the responses on the two lists are all there are.
LEMMA SearchesAll ==
  ASSUME AInv, inbox # <<>>
  PROVE  /\ Awaited = In("first") \cup In("last")
         /\ \A p \in Awaited : PlacesAfterSearch(Head(inbox))[p] \in {"first", "last"}
         /\ \A c \in Cycle : c \notin Awaited => PlacesAfterSearch(Head(inbox))[c] = at[c]
         /\ \A i \in DOMAIN Searched(Head(inbox)) : Searched(Head(inbox))[i] \in Awaited
         /\ Matches(Searched(Head(inbox)), Head(inbox)) = {}
              => \A c \in Awaited : resp[c].address # Head(inbox).address
         /\ pc # "flush"
<1> DEFINE t == Head(inbox)
<1>1. /\ Inv /\ TypeOK /\ QueuesSound /\ Bookkeeping /\ at \in [Cycle -> Place]
      /\ first \in Seq(Cycle) /\ last \in Seq(Cycle)
  BY DEF AInv, Inv, TypeOK
<1>2. pc \in {"transports", "device"} /\ walk = <<>> /\ good = <<>>
  BY <1>1 DEF Bookkeeping
<1>3. In("walk") = {} /\ In("good") = {}
  BY <1>1, <1>2, QueuesNow, EmptyHolds
<1>4. Awaited = In("first") \cup In("last")
  BY <1>3 DEF Awaited, In
<1>5. /\ \A p \in Awaited : PlacesAfterSearch(t)[p] \in {"first", "last"}
      /\ \A c \in Cycle : c \notin Awaited => PlacesAfterSearch(t)[c] = at[c]
  BY <1>4 DEF PlacesAfterSearch, Moved, In
<1>6. Holds(Searched(t), {c \in Cycle : PlacesAfterSearch(t)[c] = "first"})
  BY <1>1, SearchSound
<1>7. ASSUME NEW i \in DOMAIN Searched(t) PROVE Searched(t)[i] \in Awaited
  <2>1. Searched(t)[i] \in Cycle /\ PlacesAfterSearch(t)[Searched(t)[i]] = "first"
    BY <1>6 DEF Holds
  <2> QED
    BY <1>5, <2>1 DEF Awaited
<1>8. ASSUME Matches(Searched(t), t) = {}, NEW c \in Awaited PROVE resp[c].address # t.address
  <2>1. Matches(first, t) = {}
    BY <1>8 DEF Searched
  <2>2. PlacesAfterSearch(t)[c] = "first"
    BY <1>4, <2>1 DEF PlacesAfterSearch, Moved, In
  <2>3. PICK i \in DOMAIN Searched(t) : Searched(t)[i] = c
    BY <1>6, <2>2 DEF Holds, Awaited
  <2> QED
    BY <1>8, <2>3 DEF Matches
<1> QED
  BY <1>2, <1>4, <1>5, <1>7, <1>8

\* The response that is found is the owner's, and the owner's is found.
LEMMA FoundIsOwner ==
  ASSUME AInv, inbox # <<>>, NEW i \in 1..Len(Searched(Head(inbox))), IsFound(i, Head(inbox))
  PROVE  /\ Searched(Head(inbox))[i] = Head(inbox).owner
         /\ Head(inbox).owner \in Awaited
<1>1. inbox \in Seq(Token) /\ Searched(Head(inbox)) \in Seq(Cycle)
  BY SearchSound DEF AInv, Inv, TypeOK
<1>2. i \in DOMAIN Searched(Head(inbox)) /\ resp[Searched(Head(inbox))[i]].address = Head(inbox).address
  BY <1>1 DEF IsFound, Matches
<1>3. Searched(Head(inbox))[i] \in Awaited
  BY <1>2, SearchesAll
<1>4. 1 \in DOMAIN inbox /\ Head(inbox) = inbox[1]
  BY <1>1, TailOf
<1> QED
  BY <1>2, <1>3, <1>4 DEF AInv, AddressesOwned

LEMMA NotOwned ==
  ASSUME AInv, inbox # <<>>, \A c \in Awaited : resp[c].address # Head(inbox).address
  PROVE  Head(inbox).owner \notin Awaited
<1>1. 1 \in DOMAIN inbox /\ Head(inbox) = inbox[1]
  BY TailOf DEF AInv, Inv, TypeOK
<1> QED
  BY <1>1 DEF AInv, AddressesOwned

LEMMA UnmatchedAnswers ==
  ASSUME AInv, IsFiniteSet(Cycle), WriteUnmatched
  PROVE  AddressesFresh' /\ AddressesOwned' /\ (Conformant => AnswersExpected')
<1>1. /\ inbox # <<>> /\ Matches(Searched(Head(inbox)), Head(inbox)) = {}
      /\ at' = Moved({"last"}, "first") /\ inbox' = Tail(inbox)
      /\ UNCHANGED <<rba, net, pc, resp, ops, checked, status>>
  BY DEF WriteUnmatched, appVars, history, pollVars
<1>2. \A c \in Cycle : at'[c] = at[c] \/ (at[c] = "last" /\ at'[c] = "first")
  BY <1>1 DEF Moved
<1>3. Sent \subseteq Sent' /\ Awaited' \subseteq Awaited
  BY <1>1, <1>2 DEF Sent, Awaited
<1>4. Head(inbox).owner \notin Awaited
  BY <1>1, SearchesAll, NotOwned
<1>5. \A c \in Awaited' : Need(c)' = Need(c)
  BY <1>1, KeepsNeed DEF Awaited
<1> QED
  BY <1>1, <1>3, <1>4, <1>5, KeepsAnswers

LEMMA LastAnswers ==
  ASSUME AInv, IsFiniteSet(Cycle), WriteLast
  PROVE  AddressesFresh' /\ AddressesOwned' /\ (Conformant => AnswersExpected')
<1> DEFINE t == Head(inbox)
<1>1. /\ inbox # <<>> /\ inbox' = Tail(inbox)
      /\ UNCHANGED <<rba, net, pc, resp, ops, checked>>
  BY DEF WriteLast, appVars, pollVars
<1>2. PICK i \in 1..Len(Searched(t)), s \in {"OK", "SEGFAULT", "FAIL"} :
        /\ IsFound(i, t)
        /\ s = "FAIL" <=> t.part \notin resp[Searched(t)[i]].need
        /\ at' = [PlacesAfterSearch(t) EXCEPT ![Searched(t)[i]] = "callback"]
        /\ status' = [status EXCEPT ![Searched(t)[i]] = s]
  BY DEF WriteLast, PlacesAfterSearch
<1>3. Searched(t)[i] = t.owner /\ t.owner \in Awaited
  BY <1>1, <1>2, FoundIsOwner
<1>a. /\ at \in [Cycle -> Place] /\ status \in [Cycle -> Status] /\ inbox \in Seq(Token)
      /\ PlacesAfterSearch(t) \in [Cycle -> Place]
  <2>1. at \in [Cycle -> Place] /\ status \in [Cycle -> Status] /\ inbox \in Seq(Token)
    BY DEF AInv, Inv, TypeOK
  <2> QED
    BY <2>1 DEF PlacesAfterSearch, Moved, Place
<1>4. /\ t.owner \in Cycle
      /\ at' = [PlacesAfterSearch(t) EXCEPT ![t.owner] = "callback"]
      /\ status' = [status EXCEPT ![t.owner] = s]
  BY <1>2, <1>3 DEF Awaited
<1>b. pc # "flush"
  BY <1>1, SearchesAll
<1>5. \A c \in Cycle : PlacesAfterSearch(t)[c] = at[c]
                         \/ (at[c] \in {"first", "last"} /\ PlacesAfterSearch(t)[c] \in {"first", "last"})
  <2>1. /\ \A p \in Awaited : PlacesAfterSearch(t)[p] \in {"first", "last"} /\ at[p] \in {"first", "last"}
        /\ \A c \in Cycle : c \notin Awaited => PlacesAfterSearch(t)[c] = at[c]
    BY <1>1, SearchesAll DEF In
  <2> QED
    BY <2>1
<1> HIDE DEF t
<1>6. Sent \subseteq Sent' /\ Awaited' \subseteq Awaited /\ t.owner \notin Awaited'
  BY <1>1, <1>a, <1>4, <1>5, <1>b DEF Sent, Awaited
<1>7. \A c \in Awaited' : Need(c)' = Need(c)
  BY <1>1, KeepsNeed DEF Awaited
<1>8. ASSUME Conformant PROVE \A c \in Cycle : status'[c] = status[c] \/ status'[c] # "FAIL"
  <2>1. resp[t.owner].need = Unfiled
    BY <1>1, <1>3, <1>8 DEF AInv, AnswersExpected, t
  <2>2. t.part \in Unfiled
    BY <1>1, <1>a, TailOf DEF Unfiled, t
  <2> QED
    BY <1>2, <1>3, <1>4, <1>a, <2>1, <2>2
<1> QED
  BY <1>1, <1>6, <1>7, <1>8, KeepsAnswers DEF t

LEMMA PartAnswers ==
  ASSUME AInv, IsFiniteSet(Cycle), WritePart
  PROVE  AddressesFresh' /\ AddressesOwned' /\ (Conformant => AnswersExpected')
<1> DEFINE t == Head(inbox)
           c == t.owner
<1>1. /\ inbox # <<>> /\ inbox' = Tail(inbox)
      /\ UNCHANGED <<rba, net, pc, ops, checked, status>>
  BY DEF WritePart, appVars, history, pollVars
<1>2. PICK i \in 1..Len(Searched(t)) :
        /\ IsFound(i, t)
        /\ t.part \in resp[Searched(t)[i]].need /\ resp[Searched(t)[i]].need # {t.part}
        /\ resp' = [resp EXCEPT ![Searched(t)[i]].need = @ \ {t.part}]
        /\ at' = PlacesAfterSearch(t)
  BY DEF WritePart, PlacesAfterSearch
<1>3. Searched(t)[i] = c /\ c \in Awaited
  BY <1>1, <1>2, FoundIsOwner
<1>4. /\ inbox \in Seq(Token) /\ resp \in [Cycle -> Response] /\ c \in Cycle
  BY <1>3 DEF AInv, Inv, TypeOK, Awaited
<1>5. /\ \A b \in Cycle : resp'[b].address = resp[b].address
      /\ resp'[c].need = resp[c].need \ {t.part}
      /\ \A b \in Cycle \ {c} : resp'[b].need = resp[b].need
      /\ t.part \in resp[c].need /\ resp[c].need # {t.part}
  BY <1>2, <1>3, <1>4 DEF Response
<1>6. Sent' = Sent /\ Awaited' = Awaited
  <2>1. \A b \in Cycle : at'[b] = at[b] \/ (at[b] \in {"first", "last"} /\ at'[b] \in {"first", "last"})
    <3>1. /\ \A p \in Awaited : PlacesAfterSearch(t)[p] \in {"first", "last"} /\ at[p] \in {"first", "last"}
          /\ \A b \in Cycle : b \notin Awaited => PlacesAfterSearch(t)[b] = at[b]
      BY <1>1, SearchesAll DEF In
    <3> QED
      BY <1>2, <3>1
  <2> QED
    BY <1>1, <2>1 DEF Sent, Awaited
<1>7. \A j \in DOMAIN inbox' : \E k \in DOMAIN inbox : inbox'[j] = inbox[k]
  BY <1>1, <1>4, TailOf
<1> HIDE DEF c, t
<1>8. AddressesFresh'
  BY <1>1, <1>5, <1>6, <1>7 DEF AInv, AddressesFresh, Awaited
<1>9. AddressesOwned'
  <2>1. \A n \in net' : /\ n.owner \in Sent'
                        /\ \A b \in Awaited' : resp'[b].address = n.address <=> b = n.owner
    BY <1>1, <1>5, <1>6 DEF AInv, AddressesOwned, Awaited
  <2>2. ASSUME NEW j \in DOMAIN inbox'
        PROVE  /\ inbox'[j].owner \in Sent'
               /\ \A b \in Awaited' : resp'[b].address = inbox'[j].address <=> b = inbox'[j].owner
    <3>1. PICK k \in DOMAIN inbox : inbox'[j] = inbox[k]
      BY <1>7
    <3> QED
      BY <1>5, <1>6, <3>1 DEF AInv, AddressesOwned, Awaited
  <2> QED
    BY <2>1, <2>2 DEF AddressesOwned
<1>10. ASSUME Conformant PROVE AnswersExpected'
  <2>0. AnswersExpected
    BY <1>10 DEF AInv
  <2>1. \A b \in Cycle : Need(b)' = Need(b)
    BY <1>1, KeepsNeed
  <2>2. \A n \in net' : n.owner \in Awaited' => n.need = Need(n.owner)'
    BY <1>1, <1>6, <2>0, <2>1 DEF AnswersExpected, Awaited
  <2>3. \A j, k \in DOMAIN inbox' : /\ inbox'[j].owner = inbox'[k].owner
                                    /\ inbox'[j].part = inbox'[k].part => j = k
    BY <1>1, <1>4, <2>0, TailOf DEF AnswersExpected
  <2>4. t = inbox[1] /\ 1 \in DOMAIN inbox
    BY <1>1, <1>4, TailOf DEF t
  <2>5. Unfiled' = Unfiled \ {t.part}
    <3>1. ASSUME NEW p \in Unfiled' PROVE p \in Unfiled \ {t.part}
      <4>1. PICK j \in DOMAIN Tail(inbox) : p = Tail(inbox)[j].part
        BY <1>1, <3>1 DEF Unfiled
      <4>2. j + 1 \in DOMAIN inbox /\ Tail(inbox)[j] = inbox[j + 1] /\ j + 1 # 1
        BY <1>1, <1>4, <4>1, TailOf
      <4> QED
        BY <2>0, <2>4, <4>1, <4>2 DEF AnswersExpected, Unfiled
    <3>2. ASSUME NEW p \in Unfiled, p # t.part PROVE p \in Unfiled'
      <4>1. PICK j \in DOMAIN inbox : p = inbox[j].part
        BY DEF Unfiled
      <4>2. j # 1
        BY <2>4, <3>2, <4>1
      <4>3. j - 1 \in DOMAIN Tail(inbox) /\ Tail(inbox)[j - 1] = inbox[j]
        BY <1>1, <1>4, <4>2, TailOf
      <4> QED
        BY <1>1, <4>1, <4>3 DEF Unfiled
    <3> QED
      BY <3>1, <3>2
  <2>6. resp[c].need = Unfiled
    BY <1>1, <1>3, <2>0 DEF AnswersExpected, c, t
  <2>7. inbox' # <<>> /\ Head(inbox').owner = c
    <3>1. Unfiled' # {}
      BY <1>5, <2>5, <2>6
    <3>2. inbox' # <<>>
      BY <3>1 DEF Unfiled
    <3>3. Head(inbox') = inbox[2] /\ 2 \in DOMAIN inbox
      BY <1>1, <1>4, <3>2, TailOf
    <3> QED
      BY <2>0, <2>4, <3>2, <3>3 DEF AnswersExpected, c
  <2>8. ASSUME NEW b \in Awaited'
        PROVE  resp'[b].need = IF inbox' # <<>> /\ Head(inbox').owner = b THEN Unfiled' ELSE Need(b)'
    <3>1. CASE b = c
      BY <1>5, <2>5, <2>6, <2>7, <3>1
    <3>2. CASE b # c
      <4>1. b \in Awaited /\ b \in Cycle /\ resp[b].need = Need(b)
        BY <1>6, <2>0, <2>8, <3>2 DEF AnswersExpected, Awaited, c, t
      <4> QED
        BY <1>5, <2>1, <2>7, <3>2, <4>1
    <3> QED
      BY <3>1, <3>2
  <2> QED
    BY <1>1, <2>0, <2>2, <2>3, <2>8 DEF AnswersExpected
<1> QED
  BY <1>8, <1>9, <1>10

LEMMA StepAnswers ==
  ASSUME IsFiniteSet(Cycle), Cardinality(Cycle) <= RbaCount, AInv, [Next]_vars
  PROVE  AddressesFresh' /\ AddressesOwned' /\ (Conformant => AnswersExpected')
<1> DEFINE G == AddressesFresh' /\ AddressesOwned' /\ (Conformant => AnswersExpected')
<1>1. CASE Application
  BY <1>1, ApplicationAnswers, LibraryAnswers DEF Application
<1>2. CASE Library
  BY <1>2, LibraryAnswers, FlushAnswers, UnmatchedAnswers, PartAnswers, LastAnswers DEF Library
<1>3. CASE Environment
  BY <1>3, LibraryAnswers, ReceiveAnswers, RemoteAnswers DEF Environment
<1> HIDE DEF G
<1>4. CASE CallbackReturns \/ AskTimeout \/ (\E e \in Elapse : Check(e)) \/ UNCHANGED vars
  BY <1>4, LibraryAnswers
<1> QED
  BY ONLY [Next]_vars, <1>1, <1>2, <1>3, <1>4 DEF Next

LEMMA InitAnswers ==
  ASSUME IsFiniteSet(Cycle), Init
  PROVE  AInv
<1>1. Inv /\ Sent = {} /\ Awaited = {} /\ net = {} /\ inbox = <<>> /\ rba = 0
  BY InitInv DEF Init, Sent, Awaited
<1>2. Cardinality(Sent) = 0
  BY <1>1, FS_EmptySet
<1>3. \A c \in Cycle : status[c] # "FAIL"
  BY DEF Init
<1> QED
  BY <1>1, <1>2, <1>3 DEF AInv, AddressesFresh, AddressesOwned, AnswersExpected

LEMMA AnswersInvariance ==
  ASSUME ~Reentrant, IsFiniteSet(Cycle), Cardinality(Cycle) <= RbaCount
  PROVE  Spec => []AInv
<1>1. AInv /\ [Next]_vars => AInv'
  <2>1. AInv /\ [Next]_vars => Inv'
    BY StepInv DEF AInv
  <2> QED
    BY <2>1, StepAnswers DEF AInv
<1>2. Init => AInv
  BY InitAnswers
<1> QED
  BY <1>1, <1>2, PTL DEF Spec

\* The only step that files an answer credits it to its owner.
LEMMA FilesForOwner ==
  ASSUME AInv, [Next]_vars, inbox # <<>>, inbox' = Tail(inbox), NEW c \in Cycle,
         resp'[c].need # resp[c].need \/ calls'[c] # calls[c]
  PROVE  c = Head(inbox).owner
<1>1. inbox' # inbox
  BY TailOf DEF AInv, Inv, TypeOK
<1>2. ASSUME NEW m \in net, Receive(m) PROVE FALSE
  BY <1>2 DEF Receive
<1>3. ASSUME inbox' = inbox PROVE FALSE
  BY <1>1, <1>3
<1>4. CASE WriteUnmatched
  BY <1>4 DEF WriteUnmatched, history
<1>5. CASE WritePart
  <2>1. PICK i \in 1..Len(Searched(Head(inbox))) :
          /\ IsFound(i, Head(inbox))
          /\ resp' = [resp EXCEPT ![Searched(Head(inbox))[i]].need = @ \ {Head(inbox).part}]
          /\ calls' = calls
    BY <1>5 DEF WritePart, history
  <2> QED
    BY <2>1, FoundIsOwner DEF AInv, Inv, TypeOK
<1>6. CASE WriteLast
  <2>1. PICK i \in 1..Len(Searched(Head(inbox))) :
          /\ IsFound(i, Head(inbox))
          /\ calls' = [calls EXCEPT ![Searched(Head(inbox))[i]] = @ + 1]
          /\ resp' = resp
    BY <1>6 DEF WriteLast
  <2> QED
    BY <2>1, FoundIsOwner DEF AInv, Inv, TypeOK
<1>7. CASE Application
  BY <1>3, <1>7 DEF Application, Open, QueueOp, QueueOpFails, Close, Abort, DeviceClose, libIdle
<1>8. CASE Library
  BY <1>3, <1>4, <1>5, <1>6, <1>8 DEF Library, Expire, ExpireDone, TransportsDone, NextDevice,
     DevicesDone, FlushRefused, FlushBegin, FlushCalls, FlushSends, FlushEnd, Sift, SiftDone,
     Kill, KillDone
<1>9. CASE Environment
  BY <1>2, <1>3, <1>9 DEF Environment, LinkDies, Answer
<1>10. CASE CallbackReturns \/ AskTimeout \/ (\E e \in Elapse : Check(e)) \/ UNCHANGED vars
  BY <1>3, <1>10 DEF CallbackReturns, AskTimeout, Check, vars
<1> QED
  BY ONLY [Next]_vars, <1>7, <1>8, <1>9, <1>10 DEF Next

\* An answer is credited to the cycle it answers, and to no other, however
\* late it is and however often it comes: as long as there are addresses for
\* all cycles (RbaCount), none is reused while an answer to it may still come.
THEOREM AnswersReachOwners ==
  ASSUME ~Reentrant, IsFiniteSet(Cycle), Cardinality(Cycle) <= RbaCount
  PROVE  Spec => AnswerReachesOwner
<1>1. AInv /\ [Next]_vars =>
        [\A c \in Cycle :
           inbox # <<>> /\ inbox' = Tail(inbox) /\ (resp'[c].need # resp[c].need \/ calls'[c] # calls[c])
             => c = Head(inbox).owner]_vars
  BY FilesForOwner
<1> QED
  BY <1>1, AnswersInvariance, PTL DEF Spec, AnswerReachesOwner

\* A remote side that answers what it was asked is never accused of violating
\* the protocol: what is filed is always something its cycle still waits for.
THEOREM ConformantIsBelieved ==
  ASSUME ~Reentrant, IsFiniteSet(Cycle), Cardinality(Cycle) <= RbaCount
  PROVE  Spec => []ConformantNeverBlamed
<1>1. AInv => ConformantNeverBlamed
  BY DEF AInv, AnswersExpected, ConformantNeverBlamed
<1> QED
  BY <1>1, AnswersInvariance, PTL
=============================================================================
