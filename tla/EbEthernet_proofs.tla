-------------------------- MODULE EbEthernet_proofs --------------------------
(***************************************************************************)
(* An answer goes to the host whose words it answers (AnswersTheAsker) and *)
(* is as long as its headers say (AsLongAsStated), for any frames, any     *)
(* delay of the core, of the fabric and of the FIFO of packets.  The       *)
(* return address and the length take three registers, one after the       *)
(* other, while the words take their own way through the core; nothing but *)
(* the order of both joins them again.                                     *)
(***************************************************************************)
EXTENDS EbEthernet, TLAPS

-----------------------------------------------------------------------------
(* The invariant.                                                          *)

Bit(b) == IF b THEN 1 ELSE 0

Hosts   == {f.host : f \in Frames} \cup {"none"}
Ports   == {f.port : f \in Frames} \cup {"none"}
Lengths == {f.length : f \in Frames} \cup {0}

RxStates == {"ETHERNET", "IP", "UDP", "WAIT", "STB", "DROP"}
TxStates == {"WRF_STATUS", "ETHERNET", "IP", "UDP", "DONE", "PUSH", "WAIT", "PAYLOAD",
             "SKIP", "RUNT", "LOWER"}
Tokens   == {"send", "skip"}
Words    == Tokens \cup {"word", "drop"}

RxRec     == [state : RxStates, next : RxStates, count : Int, pass : BOOLEAN]
ParamsRec == [mac : Hosts, ip : Hosts, port : Ports, length : Lengths, stb : BOOLEAN]
NarrowRec == [cyc : BOOLEAN, pieces : Int, drop : BOOLEAN]
TxRec     == [state : TxStates, next : TxStates, count : Int, ready : BOOLEAN,
              mac : Hosts, ip : Hosts, port : Ports, length : Lengths]
DraftRec  == [words : Int, mac : Hosts, ip : Hosts, port : Ports, length : Lengths,
              payload : Int, pad : Int]
PacketRec == [to : [mac : Hosts, ip : Hosts, port : Ports], length : Lengths, payload : Int,
              pad : Int, asked : Frames, left : Int, ended : BOOLEAN]

Typed ==
  /\ frame \in Frames \cup {NoFrame} /\ left \in Int
  /\ rx \in RxRec /\ params \in ParamsRec
  /\ asked \in Seq(Words) /\ half \in BOOLEAN /\ begun \in BOOLEAN
  /\ narrow \in NarrowRec /\ skip \in BOOLEAN
  /\ tx \in TxRec /\ draft \in DraftRec /\ sent \in Seq(PacketRec) /\ due \in Seq(Frames)

\* The headers are being written; the packet is being ended; the headers are complete.
Drafting == tx.state \in {"ETHERNET", "IP", "UDP", "DONE"}
            \/ (tx.state = "PUSH" /\ tx.next \in {"IP", "UDP", "DONE"})
Closing == tx.state \in {"RUNT", "LOWER"} \/ (tx.state = "PUSH" /\ tx.next = "LOWER")
Drafted == tx.state \in {"WAIT", "PAYLOAD", "SKIP"} \/ Closing
Past(states) == tx.state \in states \/ (tx.state = "PUSH" /\ tx.next \in states)

TxWell ==
  /\ tx.state = "PUSH" => tx.next \in {"IP", "UDP", "DONE", "LOWER"}
  /\ tx.state \in {"WAIT", "PAYLOAD"} => tx.next \in {"RUNT", "LOWER"}
  /\ Drafting => tx.ready
  /\ tx.state = "PAYLOAD" => narrow.cyc
  /\ tx.state = "SKIP" => skip /\ ~narrow.cyc

\* The return address of a frame
Fits(r, f) == r.mac = f.host /\ r.ip = f.host /\ r.port = f.port /\ r.length = f.length
SameAddress(r, s) == r.mac = s.mac /\ r.ip = s.ip /\ r.port = s.port /\ r.length = s.length

\* Every frame the core has begun and that is not done with has its return address in one
\* of three places: in the draft with complete headers, else in the registers of the
\* sender, behind these in the registers of the receiver.
Handed ==
  /\ Len(due) = Bit(Drafted) + Bit(tx.ready) + Bit(params.stb)
  /\ tx.ready => Fits(tx, due[Bit(Drafted) + 1])
  /\ params.stb => Fits(params, due[Bit(Drafted) + Bit(tx.ready) + 1])

Headed ==
  /\ Past({"IP", "UDP", "DONE"}) => draft.mac = tx.mac
  /\ Past({"UDP", "DONE"}) => draft.ip = tx.ip
  /\ Past({"DONE"}) => draft.port = tx.port /\ draft.length = tx.length
  /\ Drafted => Fits(draft, due[1])

\* What the receiver has of the frame coming in; its registers are overwritten before the
\* sender has taken them, but with what they hold.
Received ==
  /\ frame = NoFrame => rx.state = "ETHERNET"
  /\ rx.state \in {"ETHERNET", "IP", "UDP"} => ~rx.pass /\ ~half /\ ~begun
  /\ rx.state \in {"IP", "UDP"} => params.mac = frame.host
  /\ rx.state = "UDP" => params.ip = frame.host
  /\ params.stb /\ frame # NoFrame => params.mac = frame.host
  /\ rx.state = "WAIT" => rx.pass /\ rx.next \in {"STB", "DROP"}
  /\ rx.state = "WAIT" /\ rx.next = "STB" =>
       Fits(params, frame) /\ ~params.stb /\ rx.count = 1 /\ ~half /\ ~begun
  /\ rx.state = "STB" => Fits(params, frame) /\ ~params.stb /\ rx.pass /\ half /\ ~begun
  /\ rx.pass /\ (rx.state = "DROP" \/ (rx.state = "WAIT" /\ rx.next = "DROP")) => begun

\* The decisions of the core that are still to come stand for the frames it has not
\* decided on, in the order of these.
Kind(f) == IF f.silent THEN "skip" ELSE "send"
Placed(place, words, frames, n) ==
  /\ place \in [1..Len(frames) - n -> 1..Len(words)]
  /\ \A j, k \in 1..Len(frames) - n : j < k => place[j] < place[k]
  /\ \A k \in 1..Len(frames) - n : words[place[k]] = Kind(frames[n + k])
  /\ \A i \in 1..Len(words) :
        words[i] \in Tokens => \E k \in 1..Len(frames) - n : place[k] = i
Undecided(words, frames, n) ==
  \E place \in [1..Len(frames) - n -> 1..Len(words)] : Placed(place, words, frames, n)

\* Frames decided on: the one whose packet is being ended, the one being answered, the one
\* to be skipped.
Decided == Bit(Closing) + Bit(narrow.cyc) + Bit(skip)

InOrder ==
  /\ Decided <= Len(due)
  /\ Closing => ~due[1].silent
  /\ narrow.cyc => ~due[Bit(Closing) + 1].silent
  /\ skip => due[Decided].silent
  /\ Undecided(asked, due, Decided)

EInv == Typed /\ TxWell /\ Handed /\ Headed /\ Received /\ InOrder /\ AnswersTheAsker

-----------------------------------------------------------------------------
(* The order of decisions.                                                 *)

LEMMA TailIs ==
  ASSUME NEW S, NEW s \in Seq(S), s # <<>>
  PROVE  /\ Tail(s) \in Seq(S) /\ Len(Tail(s)) = Len(s) - 1 /\ Len(s) \in Nat \ {0}
         /\ \A i \in 1..Len(s) - 1 : Tail(s)[i] = s[i + 1]
         /\ Head(s) = s[1]
  OBVIOUS

LEMMA AppendIs ==
  ASSUME NEW S, NEW s \in Seq(S), NEW x \in S
  PROVE  /\ Append(s, x) \in Seq(S) /\ Len(Append(s, x)) = Len(s) + 1 /\ Len(s) \in Nat
         /\ \A i \in 1..Len(s) : Append(s, x)[i] = s[i]
         /\ Append(s, x)[Len(s) + 1] = x
  OBVIOUS

LEMMA KindIs == ASSUME NEW f PROVE Kind(f) \in Tokens
  BY DEF Kind, Tokens

LEMMA PlacedMeans ==
  ASSUME NEW place, NEW words, NEW frames, NEW n, Placed(place, words, frames, n)
  PROVE  Undecided(words, frames, n)
BY DEF Placed, Undecided

\* Where the decisions stand when the first word is taken out: the first one, or none.
Later(place, m)   == [k \in 1..m |-> place[k + 1] - 1]
Earlier(place, m) == [k \in 1..m |-> place[k] - 1]

\* The core decides on the next frame.
LEMMA DecidesPlaced ==
  ASSUME NEW words \in Seq(Words), NEW frames \in Seq(Frames), NEW n \in 0..Len(frames),
         NEW place, Placed(place, words, frames, n), words # <<>>, Head(words) \in Tokens
  PROVE  /\ n + 1 <= Len(frames) /\ Head(words) = Kind(frames[n + 1]) /\ place[1] = 1
         /\ Placed(Later(place, Len(frames) - (n + 1)), Tail(words), frames, n + 1)
<1> DEFINE m == Len(frames) - n
           l == Len(words)
<1>1. /\ place \in [1..m -> 1..l]
      /\ \A j, k \in 1..m : j < k => place[j] < place[k]
      /\ \A k \in 1..m : words[place[k]] = Kind(frames[n + k])
      /\ \A i \in 1..l : words[i] \in Tokens => \E k \in 1..m : place[k] = i
  BY DEF Placed
<1>2. /\ l \in Nat \ {0} /\ m \in Nat /\ n \in Nat /\ Head(words) = words[1] /\ Len(Tail(words)) = l - 1
      /\ \A i \in 1..l - 1 : Tail(words)[i] = words[i + 1]
  BY TailIs
<1>3. PICK one \in 1..m : place[one] = 1
  BY <1>1, <1>2
<1>4. one = 1
  <2> SUFFICES ASSUME one # 1 PROVE FALSE
    OBVIOUS
  <2>1. 1 \in 1..m /\ 1 < one
    BY <1>2
  <2>2. place[1] < 1 /\ place[1] \in 1..l
    BY <1>1, <1>3, <2>1
  <2> QED
    BY <2>2
<1>5. m - 1 = Len(frames) - (n + 1) /\ m \in Nat \ {0} /\ 1 \in 1..m /\ n + 1 <= Len(frames)
  BY <1>2, <1>3
<1>6. Head(words) = Kind(frames[n + 1])
  BY <1>1, <1>2, <1>3, <1>4
<1> HIDE DEF m, l
<1> DEFINE q == Later(place, m - 1)
<1>7. \A k \in 1..m - 1 : k + 1 \in 1..m /\ place[k + 1] \in 2..l
  BY <1>1, <1>2, <1>3, <1>4, <1>5
<1>8. q \in [1..m - 1 -> 1..l - 1] /\ \A k \in 1..m - 1 : q[k] = place[k + 1] - 1
  BY <1>2, <1>7 DEF Later
<1> HIDE DEF q
<1>9. \A j, k \in 1..m - 1 : j < k => q[j] < q[k]
  <2> SUFFICES ASSUME NEW j \in 1..m - 1, NEW k \in 1..m - 1, j < k PROVE q[j] < q[k]
    OBVIOUS
  <2>1. j + 1 \in 1..m /\ k + 1 \in 1..m /\ j + 1 < k + 1
    BY <1>2, <1>7
  <2>2. place[j + 1] < place[k + 1] /\ place[j + 1] \in Int /\ place[k + 1] \in Int
    <3>1. place[j + 1] < place[k + 1]
      BY <1>1, <2>1
    <3>2. place[j + 1] \in 2..l /\ place[k + 1] \in 2..l
      BY <1>7
    <3> QED
      BY <1>2, <3>1, <3>2
  <2>3. q[j] = place[j + 1] - 1 /\ q[k] = place[k + 1] - 1
    BY <1>8
  <2> QED
    BY <2>2, <2>3
<1>10. \A k \in 1..m - 1 : Tail(words)[q[k]] = Kind(frames[(n + 1) + k])
  <2> SUFFICES ASSUME NEW k \in 1..m - 1 PROVE Tail(words)[q[k]] = Kind(frames[(n + 1) + k])
    OBVIOUS
  <2>1. k + 1 \in 1..m /\ q[k] \in 1..l - 1 /\ q[k] + 1 = place[k + 1] /\ (n + 1) + k = n + (k + 1)
    BY <1>2, <1>7, <1>8
  <2>2. Tail(words)[q[k]] = words[place[k + 1]]
    BY <1>2, <2>1
  <2> QED
    BY <1>1, <2>1, <2>2
<1>11. \A i \in 1..l - 1 : Tail(words)[i] \in Tokens => \E k \in 1..m - 1 : q[k] = i
  <2> SUFFICES ASSUME NEW i \in 1..l - 1, Tail(words)[i] \in Tokens
               PROVE  \E k \in 1..m - 1 : q[k] = i
    OBVIOUS
  <2>1. i + 1 \in 1..l /\ Tail(words)[i] = words[i + 1]
    BY <1>2
  <2>2. PICK k \in 1..m : place[k] = i + 1
    BY <1>1, <2>1
  <2>3. k # 1
    BY <1>3, <1>4, <2>2
  <2>4. k - 1 \in 1..m - 1 /\ (k - 1) + 1 = k
    BY <1>2, <2>2, <2>3
  <2>5. q[k - 1] = i
    BY <1>8, <2>2, <2>4
  <2> QED
    BY <2>4, <2>5
<1> DEFINE fewer == Tail(words)
           M == Len(frames) - (n + 1)
<1>12. M = m - 1 /\ Len(fewer) = l - 1
  BY <1>2, <1>5
<1>13. /\ q \in [1..M -> 1..Len(fewer)]
       /\ \A j, k \in 1..M : j < k => q[j] < q[k]
       /\ \A k \in 1..M : fewer[q[k]] = Kind(frames[(n + 1) + k])
       /\ \A i \in 1..Len(fewer) : fewer[i] \in Tokens => \E k \in 1..M : q[k] = i
  <2> HIDE DEF M
  <2> QED
    BY <1>8, <1>9, <1>10, <1>11, <1>12
<1>14. Placed(q, fewer, frames, n + 1)
  <2> HIDE DEF fewer
  <2> QED
    BY <1>13 DEF Placed
<1>15. q = Later(place, Len(frames) - (n + 1))
  BY <1>12 DEF q
<1> QED
  BY <1>3, <1>4, <1>5, <1>6, <1>14, <1>15

LEMMA Decides ==
  ASSUME NEW words \in Seq(Words), NEW frames \in Seq(Frames), NEW n \in 0..Len(frames),
         Undecided(words, frames, n), words # <<>>, Head(words) \in Tokens
  PROVE  /\ n + 1 <= Len(frames) /\ Head(words) = Kind(frames[n + 1])
         /\ Undecided(Tail(words), frames, n + 1)
<1>1. PICK place : Placed(place, words, frames, n)
  BY DEF Undecided
<1> QED
  BY <1>1, DecidesPlaced, PlacedMeans

\* The core takes another word out.
LEMMA AnswersPlaced ==
  ASSUME NEW words \in Seq(Words), NEW frames \in Seq(Frames), NEW n \in 0..Len(frames),
         NEW place, Placed(place, words, frames, n), words # <<>>, Head(words) \notin Tokens
  PROVE  Placed(Earlier(place, Len(frames) - n), Tail(words), frames, n)
<1> DEFINE m == Len(frames) - n
           l == Len(words)
<1>1. /\ place \in [1..m -> 1..l]
      /\ \A j, k \in 1..m : j < k => place[j] < place[k]
      /\ \A k \in 1..m : words[place[k]] = Kind(frames[n + k])
      /\ \A i \in 1..l : words[i] \in Tokens => \E k \in 1..m : place[k] = i
  BY DEF Placed
<1>2. /\ l \in Nat \ {0} /\ m \in Nat /\ Head(words) = words[1] /\ Len(Tail(words)) = l - 1
      /\ \A i \in 1..l - 1 : Tail(words)[i] = words[i + 1]
  BY TailIs
<1> HIDE DEF m, l
<1>3. \A k \in 1..m : place[k] \in 2..l
  <2> SUFFICES ASSUME NEW k \in 1..m PROVE place[k] \in 2..l
    OBVIOUS
  <2>1. words[place[k]] \in Tokens
    BY <1>1, KindIs
  <2>2. place[k] # 1 /\ place[k] \in 1..l
    BY <1>1, <1>2, <2>1
  <2> QED
    BY <1>2, <2>2
<1> DEFINE q == Earlier(place, m)
<1>4. q \in [1..m -> 1..l - 1] /\ \A k \in 1..m : q[k] = place[k] - 1
  BY <1>2, <1>3 DEF Earlier
<1> HIDE DEF q
<1>5. \A j, k \in 1..m : j < k => q[j] < q[k]
  <2>1. \A j, k \in 1..m : j < k =>
           place[j] \in 2..l /\ place[k] \in 2..l /\ place[j] < place[k]
    BY <1>1, <1>3
  <2>2. \A j, k \in 1..m : j < k => place[j] - 1 < place[k] - 1
    BY <1>2, <2>1
  <2> QED
    BY <1>4, <2>2
<1>6. \A k \in 1..m : Tail(words)[q[k]] = Kind(frames[n + k])
  <2> SUFFICES ASSUME NEW k \in 1..m PROVE Tail(words)[q[k]] = Kind(frames[n + k])
    OBVIOUS
  <2>1. q[k] \in 1..l - 1 /\ q[k] + 1 = place[k]
    BY <1>2, <1>3, <1>4
  <2> QED
    BY <1>1, <1>2, <2>1
<1>7. \A i \in 1..l - 1 : Tail(words)[i] \in Tokens => \E k \in 1..m : q[k] = i
  <2> SUFFICES ASSUME NEW i \in 1..l - 1, Tail(words)[i] \in Tokens PROVE \E k \in 1..m : q[k] = i
    OBVIOUS
  <2>1. i + 1 \in 1..l /\ Tail(words)[i] = words[i + 1]
    BY <1>2
  <2>2. PICK k \in 1..m : place[k] = i + 1
    BY <1>1, <2>1
  <2> QED
    BY <1>4, <2>1, <2>2
<1> DEFINE fewer == Tail(words)
           M == Len(frames) - n
<1>8. /\ q \in [1..M -> 1..Len(fewer)]
      /\ \A j, k \in 1..M : j < k => q[j] < q[k]
      /\ \A k \in 1..M : fewer[q[k]] = Kind(frames[n + k])
      /\ \A i \in 1..Len(fewer) : fewer[i] \in Tokens => \E k \in 1..M : q[k] = i
  <2>1. M = m /\ Len(fewer) = l - 1
    BY <1>2 DEF m
  <2> HIDE DEF M
  <2> QED
    BY <1>4, <1>5, <1>6, <1>7, <2>1
<1>9. Placed(q, fewer, frames, n)
  <2> HIDE DEF fewer
  <2> QED
    BY <1>8 DEF Placed
<1> QED
  BY <1>9 DEF q, m

LEMMA Answers ==
  ASSUME NEW words \in Seq(Words), NEW frames \in Seq(Frames), NEW n \in 0..Len(frames),
         Undecided(words, frames, n), words # <<>>, Head(words) \notin Tokens
  PROVE  Undecided(Tail(words), frames, n)
<1>1. PICK place : Placed(place, words, frames, n)
  BY DEF Undecided
<1> QED
  BY <1>1, AnswersPlaced, PlacedMeans

\* The core takes a word in that is not the first of a frame.
LEMMA TakesWordPlaced ==
  ASSUME NEW words \in Seq(Words), NEW frames \in Seq(Frames), NEW n \in 0..Len(frames),
         NEW place, Placed(place, words, frames, n), NEW w \in Words, w \notin Tokens
  PROVE  Placed(place, Append(words, w), frames, n)
<1> DEFINE m == Len(frames) - n
           l == Len(words)
           more == Append(words, w)
<1>1. /\ place \in [1..m -> 1..l]
      /\ \A j, k \in 1..m : j < k => place[j] < place[k]
      /\ \A k \in 1..m : words[place[k]] = Kind(frames[n + k])
      /\ \A i \in 1..l : words[i] \in Tokens => \E k \in 1..m : place[k] = i
  BY DEF Placed
<1>2. /\ l \in Nat /\ m \in Nat /\ Len(more) = l + 1
      /\ (\A i \in 1..l : more[i] = words[i]) /\ more[l + 1] = w
  BY AppendIs
<1> HIDE DEF m, l, more
<1>3. place \in [1..m -> 1..Len(more)] /\ 1..Len(more) = 1..l \cup {l + 1}
  BY <1>1, <1>2
<1>4. \A k \in 1..m : more[place[k]] = Kind(frames[n + k])
  BY <1>1, <1>2
<1>5. \A i \in 1..Len(more) : more[i] \in Tokens => \E k \in 1..m : place[k] = i
  BY <1>1, <1>2, <1>3
<1>6. Placed(place, more, frames, n)
  BY <1>1, <1>3, <1>4, <1>5 DEF Placed, m
<1> QED
  BY <1>6 DEF more

LEMMA TakesWord ==
  ASSUME NEW words \in Seq(Words), NEW frames \in Seq(Frames), NEW n \in 0..Len(frames),
         Undecided(words, frames, n), NEW w \in Words, w \notin Tokens
  PROVE  Undecided(Append(words, w), frames, n)
<1>1. PICK place : Placed(place, words, frames, n)
  BY DEF Undecided
<1> QED
  BY <1>1, TakesWordPlaced, PlacedMeans

\* The core takes the first word of a frame in.
Longer(place, m, l) == [k \in 1..m + 1 |-> IF k = m + 1 THEN l + 1 ELSE place[k]]

LEMMA TakesFramePlaced ==
  ASSUME NEW words \in Seq(Words), NEW frames \in Seq(Frames), NEW n \in 0..Len(frames),
         NEW place, Placed(place, words, frames, n), NEW f \in Frames
  PROVE  Placed(Longer(place, Len(frames) - n, Len(words)), Append(words, Kind(f)),
                Append(frames, f), n)
<1> DEFINE m == Len(frames) - n
           l == Len(words)
           more == Append(words, Kind(f))
           all == Append(frames, f)
<1>1. /\ place \in [1..m -> 1..l]
      /\ \A j, k \in 1..m : j < k => place[j] < place[k]
      /\ \A k \in 1..m : words[place[k]] = Kind(frames[n + k])
      /\ \A i \in 1..l : words[i] \in Tokens => \E k \in 1..m : place[k] = i
  BY DEF Placed
<1>2. Kind(f) \in Words
  BY KindIs DEF Words
<1>3. /\ l \in Nat /\ Len(more) = l + 1
      /\ (\A i \in 1..l : more[i] = words[i]) /\ more[l + 1] = Kind(f)
  BY <1>2, AppendIs
<1>4. /\ Len(frames) \in Nat /\ Len(all) = Len(frames) + 1 /\ m = Len(frames) - n /\ n \in Nat
      /\ (\A i \in 1..Len(frames) : all[i] = frames[i]) /\ all[Len(frames) + 1] = f
  BY AppendIs
<1> HIDE DEF m, l, more, all
<1>5. /\ Len(all) - n = m + 1 /\ m \in Nat /\ n + (m + 1) = Len(frames) + 1
      /\ \A k \in 1..m : n + k \in 1..Len(frames)
  BY <1>4
<1>6. 1..m + 1 = 1..m \cup {m + 1} /\ 1..l + 1 = 1..l \cup {l + 1} /\ m + 1 \notin 1..m
  BY <1>3, <1>5
<1> DEFINE q == Longer(place, m, l)
<1>7. q[m + 1] = l + 1 /\ \A k \in 1..m : q[k] = place[k] /\ q[k] \in 1..l
  BY <1>1, <1>6 DEF Longer
<1>8. q \in [1..m + 1 -> 1..l + 1]
  BY <1>6, <1>7 DEF Longer
<1> HIDE DEF q
<1>9. \A j, k \in 1..m + 1 : j < k => q[j] < q[k]
  <2> SUFFICES ASSUME NEW j \in 1..m + 1, NEW k \in 1..m + 1, j < k PROVE q[j] < q[k]
    OBVIOUS
  <2>1. j \in 1..m
    BY <1>5
  <2>2. CASE k = m + 1
    BY <1>3, <1>7, <2>1, <2>2
  <2>3. CASE k \in 1..m
    BY <1>1, <1>7, <2>1, <2>3
  <2> QED
    BY <1>6, <2>2, <2>3
<1>10. \A k \in 1..m + 1 : more[q[k]] = Kind(all[n + k])
  <2> SUFFICES ASSUME NEW k \in 1..m + 1 PROVE more[q[k]] = Kind(all[n + k])
    OBVIOUS
  <2>1. CASE k = m + 1
    BY <1>3, <1>4, <1>5, <1>7, <2>1
  <2>2. CASE k \in 1..m
    <3>1. more[q[k]] = words[place[k]] /\ all[n + k] = frames[n + k]
      BY <1>3, <1>4, <1>5, <1>7, <2>2
    <3> QED
      BY <1>1, <2>2, <3>1
  <2> QED
    BY <1>6, <2>1, <2>2
<1>11. \A i \in 1..l + 1 : more[i] \in Tokens => \E k \in 1..m + 1 : q[k] = i
  <2> SUFFICES ASSUME NEW i \in 1..l + 1, more[i] \in Tokens PROVE \E k \in 1..m + 1 : q[k] = i
    OBVIOUS
  <2>1. CASE i = l + 1
    BY <1>6, <1>7, <2>1
  <2>2. CASE i \in 1..l
    <3>1. PICK k \in 1..m : place[k] = i
      BY <1>1, <1>3, <2>2
    <3> QED
      BY <1>6, <1>7, <3>1
  <2> QED
    BY <1>6, <2>1, <2>2
<1> DEFINE M == Len(all) - n
<1>12. /\ q \in [1..M -> 1..Len(more)]
       /\ \A j, k \in 1..M : j < k => q[j] < q[k]
       /\ \A k \in 1..M : more[q[k]] = Kind(all[n + k])
       /\ \A i \in 1..Len(more) : more[i] \in Tokens => \E k \in 1..M : q[k] = i
  <2>1. M = m + 1 /\ Len(more) = l + 1
    BY <1>3, <1>5
  <2> HIDE DEF M
  <2> QED
    BY <1>8, <1>9, <1>10, <1>11, <2>1
<1>13. Placed(q, more, all, n)
  BY <1>12 DEF Placed
<1> QED
  BY <1>13 DEF more, all, q, m, l

LEMMA TakesFrame ==
  ASSUME NEW words \in Seq(Words), NEW frames \in Seq(Frames), NEW n \in 0..Len(frames),
         Undecided(words, frames, n), NEW f \in Frames
  PROVE  Undecided(Append(words, Kind(f)), Append(frames, f), n)
<1>1. PICK place : Placed(place, words, frames, n)
  BY DEF Undecided
<1> QED
  BY <1>1, TakesFramePlaced, PlacedMeans

\* The oldest frame is done with.
LEMMA FinishesPlaced ==
  ASSUME NEW words \in Seq(Words), NEW frames \in Seq(Frames), NEW n \in 1..Len(frames),
         NEW place, Placed(place, words, frames, n)
  PROVE  Placed(place, words, Tail(frames), n - 1)
<1> DEFINE m == Len(frames) - n
<1>1. /\ place \in [1..m -> 1..Len(words)]
      /\ \A j, k \in 1..m : j < k => place[j] < place[k]
      /\ \A k \in 1..m : words[place[k]] = Kind(frames[n + k])
      /\ \A i \in 1..Len(words) : words[i] \in Tokens => \E k \in 1..m : place[k] = i
  BY DEF Placed
<1>2. frames # <<>> /\ Len(frames) \in Nat /\ n \in Nat
  OBVIOUS
<1>3. /\ Len(Tail(frames)) - (n - 1) = m /\ m \in Nat
      /\ \A i \in 1..Len(frames) - 1 : Tail(frames)[i] = frames[i + 1]
  BY <1>2, TailIs
<1>4. \A k \in 1..m : (n - 1) + k \in 1..Len(frames) - 1 /\ ((n - 1) + k) + 1 = n + k
  BY <1>2
<1> HIDE DEF m
<1>5. \A k \in 1..m : words[place[k]] = Kind(Tail(frames)[(n - 1) + k])
  BY <1>1, <1>3, <1>4
<1> QED
  BY <1>1, <1>3, <1>5 DEF Placed

LEMMA Finishes ==
  ASSUME NEW words \in Seq(Words), NEW frames \in Seq(Frames), NEW n \in 1..Len(frames),
         Undecided(words, frames, n)
  PROVE  Undecided(words, Tail(frames), n - 1)
<1>1. PICK place : Placed(place, words, frames, n)
  BY DEF Undecided
<1> QED
  BY <1>1, FinishesPlaced, PlacedMeans

\* Nothing waits for a decision.
LEMMA NoneUndecided == Undecided(<<>>, <<>>, 0)
<1> DEFINE place == [k \in 1..0 |-> k]
<1>1. Len(<<>>) = 0 /\ Len(<<>>) - 0 = 0 /\ 1..0 = {}
  OBVIOUS
<1>2. place \in [1..0 -> 1..0]
  BY <1>1
<1> QED
  BY <1>1, <1>2 DEF Undecided, Placed

-----------------------------------------------------------------------------
(* Initially, and the steps of eb_eth_rx.                                  *)

LEMMA Values ==
  /\ IndexMod \in Nat \ {0} /\ CountMod \in Nat \ {0} /\ RuntPieces \in Nat \ {0}
  /\ EthWords \in Nat /\ IpWords \in Nat /\ UdpWords \in Nat
  /\ \A f \in Frames : f.length \in Nat /\ f # NoFrame
                       /\ f.host \in Hosts /\ f.port \in Ports /\ f.length \in Lengths
<1>1. IndexMod \in Nat \ {0} /\ CountMod \in Nat \ {0} /\ RuntPieces \in Nat \ {0}
  BY EthernetAssumption
<1>2. EthWords \in Nat /\ IpWords \in Nat /\ UdpWords \in Nat
  <2>1. EthWords \in 2..CountMod /\ IpWords \in 2..CountMod /\ UdpWords \in 2..CountMod
    BY EthernetAssumption
  <2> QED
    BY <1>1, <2>1
<1>3. \A f \in Frames : f.length \in Nat /\ f # NoFrame
  BY EthernetAssumption DEF IsFrame
<1> QED
  BY <1>1, <1>2, <1>3 DEF Hosts, Ports, Lengths

LEMMA Remainders == \A i \in Int : i % IndexMod \in Int /\ i % CountMod \in Int
  BY Values

LEMMA Starts == Init => EInv
<1> SUFFICES ASSUME Init PROVE EInv
  OBVIOUS
<1>1. Typed
  <2>1. rx \in RxRec /\ narrow \in NarrowRec
    BY DEF Init, RxRec, NarrowRec, RxStates
  <2>2. params \in ParamsRec
    BY DEF Init, ParamsRec, Hosts, Ports, Lengths
  <2>3. tx \in TxRec
    BY DEF Init, TxRec, TxStates, Hosts, Ports, Lengths
  <2>4. draft \in DraftRec
    BY DEF Init, NoDraft, DraftRec, Hosts, Ports, Lengths
  <2>5. \A S : <<>> \in Seq(S)
    OBVIOUS
  <2>6. asked \in Seq(Words) /\ sent \in Seq(PacketRec) /\ due \in Seq(Frames)
    BY <2>5 DEF Init
  <2>7. frame \in Frames \cup {NoFrame} /\ left \in Int
        /\ half \in BOOLEAN /\ begun \in BOOLEAN /\ skip \in BOOLEAN
    <3>1. frame \in Frames \cup {NoFrame} /\ left \in Int
      BY DEF Init
    <3>2. half \in BOOLEAN /\ begun \in BOOLEAN /\ skip \in BOOLEAN
      BY Zenon DEF Init
    <3> QED
      BY <3>1, <3>2
  <2> QED
    BY <2>1, <2>2, <2>3, <2>4, <2>6, <2>7 DEF Typed
<1>2. TxWell
  BY DEF Init, TxWell, Drafting
<1>3. Handed
  BY DEF Init, Handed, Drafted, Closing, Bit
<1>4. Headed
  BY DEF Init, Headed, Past, Drafted, Closing
<1>5. Received
  BY DEF Init, Received
<1>6. InOrder
  <2>1. Decided = 0 /\ Len(due) = 0
    BY DEF Init, Decided, Closing, Bit
  <2> QED
    BY <2>1, NoneUndecided DEF Init, InOrder, Closing
<1>7. AnswersTheAsker
  BY DEF Init, AnswersTheAsker
<1> QED
  BY <1>1, <1>2, <1>3, <1>4, <1>5, <1>6, <1>7 DEF EInv

\* Steps that leave the packets alone, or the registers of the sender.
LEMMA SameTx ==
  ASSUME EInv, UNCHANGED <<tx, narrow, skip, draft, sent>>
  PROVE  TxWell' /\ AnswersTheAsker' /\ (Drafted' <=> Drafted) /\ (Closing' <=> Closing)
         /\ Decided' = Decided
<1>1. TxWell' /\ (Drafted' <=> Drafted) /\ (Closing' <=> Closing)
  BY DEF EInv, TxWell, Drafting, Drafted, Closing
<1>2. AnswersTheAsker'
  BY DEF EInv, AnswersTheAsker
<1>3. Decided' = Decided
  BY DEF Decided, Closing
<1> QED
  BY <1>1, <1>2, <1>3

LEMMA SameDue ==
  ASSUME EInv, UNCHANGED <<tx, narrow, skip, draft, sent, due>>
  PROVE  Headed'
BY DEF EInv, Headed, Past, Drafted, Closing, Fits

LEMMA SameOrder ==
  ASSUME EInv, UNCHANGED <<tx, narrow, skip, due, asked>>
  PROVE  InOrder'
<1>1. Decided' = Decided /\ (Closing' <=> Closing)
  BY DEF Decided, Closing
<1> QED
  BY <1>1 DEF EInv, InOrder

LEMMA StartKeeps ==
  ASSUME EInv, Mixed = FALSE, NEW f \in Frames, StartFrame(f)
  PROVE  EInv'
<1>1. /\ frame = NoFrame /\ (f.host = params.mac \/ ~params.stb) /\ frame' = f
      /\ rx' = [rx EXCEPT !.state = IF f.ours THEN "ETHERNET" ELSE "DROP"]
      /\ left' = f.pieces
      /\ UNCHANGED <<params, asked, half, begun, narrow, skip, tx, draft, sent, due>>
  BY DEF StartFrame, Goto, coreVars, txVars
<1>2. f.pieces \in Int /\ f # NoFrame
  BY EthernetAssumption DEF IsFrame
<1>3. rx.state = "ETHERNET" /\ ~rx.pass /\ ~half /\ ~begun /\ rx \in RxRec
  BY <1>1 DEF EInv, Received, Typed
<1>4. rx' \in RxRec /\ rx'.state \in {"ETHERNET", "DROP"} /\ rx'.pass = rx.pass
  BY <1>1, <1>3 DEF RxRec, RxStates
<1>5. Typed'
  BY <1>1, <1>2, <1>4 DEF EInv, Typed
<1>6. TxWell' /\ AnswersTheAsker' /\ Headed' /\ InOrder'
  BY <1>1, SameTx, SameDue, SameOrder
<1>7. Handed'
  BY <1>1 DEF EInv, Handed, Drafted, Closing, Fits, Bit
<1>8. Received'
  BY <1>1, <1>2, <1>3, <1>4 DEF Received
<1> QED
  BY <1>5, <1>6, <1>7, <1>8 DEF EInv

LEMMA EthernetKeeps == ASSUME EInv, ReceiveEthernet PROVE EInv'
<1>1. /\ frame # NoFrame /\ rx.state = "ETHERNET"
      /\ params' = [params EXCEPT !.mac = frame.host]
      /\ rx' = [rx EXCEPT !.state = "IP"]
      /\ UNCHANGED <<frame, left, asked, half, begun, narrow, skip, tx, draft, sent, due>>
  BY DEF ReceiveEthernet, Goto, coreVars, txVars
<1>2. frame \in Frames /\ frame.host \in Hosts /\ params \in ParamsRec /\ rx \in RxRec
  BY <1>1, Values DEF EInv, Typed
<1>3. /\ params' \in ParamsRec /\ params'.mac = frame.host /\ params'.ip = params.ip
      /\ params'.port = params.port /\ params'.length = params.length /\ params'.stb = params.stb
  BY <1>1, <1>2 DEF ParamsRec
<1>4. rx' \in RxRec /\ rx'.state = "IP" /\ rx'.pass = rx.pass
  BY <1>1, <1>2 DEF RxRec, RxStates
<1>5. Typed'
  BY <1>1, <1>3, <1>4 DEF EInv, Typed
<1>6. TxWell' /\ AnswersTheAsker' /\ Headed' /\ InOrder'
  BY <1>1, SameTx, SameDue, SameOrder
<1>7. params.stb => params.mac = frame.host
  BY <1>1 DEF EInv, Received
<1>8. Handed'
  BY <1>1, <1>3, <1>7 DEF EInv, Handed, Drafted, Closing, Fits, Bit
<1>9. Received'
  BY <1>1, <1>3, <1>4 DEF EInv, Received
<1> QED
  BY <1>5, <1>6, <1>8, <1>9 DEF EInv

LEMMA IpKeeps == ASSUME EInv, ReceiveIp PROVE EInv'
<1>1. /\ rx.state = "IP"
      /\ params' = [params EXCEPT !.ip = frame.host]
      /\ rx' = [rx EXCEPT !.state = IF frame.udp THEN "UDP" ELSE "DROP"]
      /\ UNCHANGED <<frame, left, asked, half, begun, narrow, skip, tx, draft, sent, due>>
  BY DEF ReceiveIp, Goto, coreVars, txVars
<1>2. frame \in Frames /\ frame.host \in Hosts /\ params \in ParamsRec /\ rx \in RxRec
      /\ params.mac = frame.host
  BY <1>1, Values DEF EInv, Typed, Received
<1>3. /\ params' \in ParamsRec /\ params'.mac = params.mac /\ params'.ip = frame.host
      /\ params'.port = params.port /\ params'.length = params.length /\ params'.stb = params.stb
  BY <1>1, <1>2 DEF ParamsRec
<1>4. rx' \in RxRec /\ rx'.state \in {"UDP", "DROP"} /\ rx'.pass = rx.pass
  BY <1>1, <1>2 DEF RxRec, RxStates
<1>5. Typed'
  BY <1>1, <1>3, <1>4 DEF EInv, Typed
<1>6. TxWell' /\ AnswersTheAsker' /\ Headed' /\ InOrder'
  BY <1>1, SameTx, SameDue, SameOrder
<1>7. params.stb => params.ip = frame.host
  BY <1>2 DEF EInv, Handed, Fits
<1>8. Handed'
  BY <1>1, <1>3, <1>7 DEF EInv, Handed, Drafted, Closing, Fits, Bit
<1>9. Received'
  BY <1>1, <1>2, <1>3, <1>4 DEF EInv, Received
<1> QED
  BY <1>5, <1>6, <1>8, <1>9 DEF EInv

LEMMA UdpKeeps == ASSUME EInv, ReceiveUdp PROVE EInv'
<1>1. /\ rx.state = "UDP" /\ ~params.stb
      /\ params' = [params EXCEPT !.port = frame.port, !.length = frame.length]
      /\ \/ rx' = [state |-> "WAIT", next |-> "STB", count |-> 1, pass |-> TRUE]
         \/ rx' = [rx EXCEPT !.state = "DROP"]
      /\ UNCHANGED <<frame, left, asked, half, begun, narrow, skip, tx, draft, sent, due>>
  BY DEF ReceiveUdp, ReceiveUdp_Early, Goto, coreVars, txVars
<1>2. /\ frame \in Frames /\ frame.port \in Ports /\ frame.length \in Lengths
      /\ params \in ParamsRec /\ rx \in RxRec
      /\ params.mac = frame.host /\ params.ip = frame.host
      /\ ~rx.pass /\ ~half /\ ~begun
  BY <1>1, Values DEF EInv, Typed, Received
<1>3. /\ params' \in ParamsRec /\ Fits(params', frame) /\ ~params'.stb
  BY <1>1, <1>2 DEF ParamsRec, Fits
<1>4. /\ rx' \in RxRec
      /\ \/ rx'.state = "WAIT" /\ rx'.next = "STB" /\ rx'.count = 1 /\ rx'.pass
         \/ rx'.state = "DROP" /\ ~rx'.pass
  <2>1. CASE rx' = [state |-> "WAIT", next |-> "STB", count |-> 1, pass |-> TRUE]
    BY <2>1 DEF RxRec, RxStates
  <2>2. CASE rx' = [rx EXCEPT !.state = "DROP"]
    BY <1>2, <2>2 DEF RxRec, RxStates
  <2> QED
    BY <1>1, <2>1, <2>2
<1>5. Typed'
  BY <1>1, <1>3, <1>4 DEF EInv, Typed
<1>6. TxWell' /\ AnswersTheAsker' /\ Headed' /\ InOrder'
  BY <1>1, SameTx, SameDue, SameOrder
<1>7. Handed'
  BY <1>1, <1>3 DEF EInv, Handed, Drafted, Closing, Fits, Bit
<1>8. Received'
  <2>1. frame' = frame /\ frame # NoFrame /\ half' = half /\ begun' = begun
    BY <1>1, <1>2, Values
  <2> QED
    BY <1>2, <1>3, <1>4, <2>1 DEF Received, Fits
<1> QED
  BY <1>5, <1>6, <1>7, <1>8 DEF EInv

\* What a piece changes, whichever it is.
LEMMA PieceIs ==
  ASSUME EInv, ReceivePiece
  PROVE  /\ frame \in Frames /\ rx' \in RxRec /\ params' \in ParamsRec
         /\ left' = left - 1 /\ UNCHANGED <<frame, narrow, skip, tx, draft, sent>>
         /\ params'.mac = params.mac /\ params'.ip = params.ip /\ params'.port = params.port
         /\ params'.length = params.length
         /\ params'.stb = (params.stb \/ rx.state = "STB")
         /\ rx.state = "WAIT" => /\ rx'.state = IF rx.count = 1 THEN rx.next ELSE "WAIT"
                                 /\ rx'.next = rx.next /\ rx'.pass = rx.pass
         /\ rx.state = "STB" => rx'.state = "WAIT" /\ rx'.next = "DROP" /\ rx'.pass = rx.pass
         /\ rx.state = "DROP" => rx'.state = "DROP" /\ ~rx'.pass
         /\ rx.state \in {"WAIT", "STB", "DROP"}
<1>1. /\ rx.state \in {"WAIT", "STB", "DROP"}
      /\ left' = left - 1 /\ rx' = AfterPiece
      /\ params' = [params EXCEPT !.stb = params.stb \/ rx.state = "STB"]
      /\ UNCHANGED <<frame, narrow, skip, tx, draft, sent>>
  BY DEF ReceivePiece
<1>2. frame \in Frames /\ rx \in RxRec /\ params \in ParamsRec
  BY <1>1 DEF EInv, Typed, Received
<1>3. /\ params' \in ParamsRec /\ params'.mac = params.mac /\ params'.ip = params.ip
      /\ params'.port = params.port /\ params'.length = params.length
      /\ params'.stb = (params.stb \/ rx.state = "STB")
  BY <1>1, <1>2 DEF ParamsRec
<1>4. Count(rx.count - 1) \in Int /\ Count(frame.length - 3) \in Int
  BY <1>2, Values, Remainders DEF Count, RxRec
<1>5. CASE rx.state = "WAIT"
  <2>1. rx' = [rx EXCEPT !.state = IF rx.count = 1 THEN rx.next ELSE "WAIT",
                         !.count = Count(rx.count - 1)]
    BY <1>1, <1>5 DEF AfterPiece
  <2> QED
    BY <1>1, <1>2, <1>3, <1>4, <1>5, <2>1 DEF RxRec, RxStates
<1>6. CASE rx.state = "STB"
  <2>1. rx' = [rx EXCEPT !.state = "WAIT", !.next = "DROP", !.count = Count(frame.length - 3)]
    BY <1>1, <1>6 DEF AfterPiece
  <2> QED
    BY <1>1, <1>2, <1>3, <1>4, <1>6, <2>1 DEF RxRec, RxStates
<1>7. CASE rx.state = "DROP"
  <2>1. rx' = [rx EXCEPT !.pass = FALSE]
    BY <1>1, <1>7 DEF AfterPiece
  <2> QED
    BY <1>1, <1>2, <1>3, <1>7, <2>1 DEF RxRec, RxStates
<1> QED
  BY <1>1, <1>5, <1>6, <1>7

\* The first word of a frame: its return address is handed over with it.
LEMMA StbKeeps ==
  ASSUME EInv, ReceivePiece, rx.state = "STB"
  PROVE  EInv'
<1>1. Fits(params, frame) /\ ~params.stb /\ rx.pass /\ half /\ ~begun
  BY DEF EInv, Received
<1>2. /\ half' = FALSE /\ begun' = TRUE
      /\ asked' = Append(asked, Kind(frame)) /\ due' = Append(due, frame)
  BY <1>1 DEF ReceivePiece, CoreTakes, Kind
<1>3. frame \in Frames /\ asked \in Seq(Words) /\ due \in Seq(Frames) /\ Kind(frame) \in Words
  BY PieceIs, KindIs DEF EInv, Typed, Words
<1>4. /\ asked' \in Seq(Words) /\ due' \in Seq(Frames) /\ Len(due') = Len(due) + 1
      /\ Len(due) \in Nat
      /\ (\A i \in 1..Len(due) : due'[i] = due[i]) /\ due'[Len(due) + 1] = frame
  BY <1>2, <1>3, AppendIs
<1>5. Typed'
  <2>1. /\ frame' = frame /\ rx' \in RxRec /\ params' \in ParamsRec /\ left' = left - 1
        /\ UNCHANGED <<narrow, skip, tx, draft, sent>>
    BY PieceIs
  <2>2. half' \in BOOLEAN /\ begun' \in BOOLEAN
    BY <1>2
  <2> QED
    BY <1>4, <2>1, <2>2 DEF EInv, Typed
<1>6. TxWell' /\ AnswersTheAsker' /\ (Drafted' <=> Drafted) /\ (Closing' <=> Closing)
      /\ Decided' = Decided
  BY SameTx, PieceIs
<1>7. Len(due) = Bit(Drafted) + Bit(tx.ready)
  BY <1>1 DEF EInv, Handed, Bit
<1>8. Handed'
  <2>1. params'.stb /\ Fits(params', frame)
    BY <1>1, PieceIs DEF Fits
  <2>2. Len(due') = Bit(Drafted') + Bit(tx'.ready) + Bit(params'.stb)
    BY <1>4, <1>6, <1>7, <2>1, PieceIs DEF Bit
  <2>3. params'.stb => Fits(params', due'[Bit(Drafted') + Bit(tx'.ready) + 1])
    BY <1>4, <1>6, <1>7, <2>1, PieceIs DEF Bit
  <2>4. ASSUME tx'.ready PROVE Fits(tx', due'[Bit(Drafted') + 1])
    <3>1. tx' = tx /\ tx.ready
      BY <2>4, PieceIs
    <3>2. Bit(Drafted) + 1 \in 1..Len(due)
      BY <1>4, <1>7, <3>1 DEF Bit
    <3>3. Fits(tx, due[Bit(Drafted) + 1])
      BY <3>1 DEF EInv, Handed
    <3> QED
      BY <1>4, <1>6, <3>1, <3>2, <3>3 DEF Bit
  <2> QED
    BY <2>2, <2>3, <2>4 DEF Handed
<1>9. Headed'
  <2>1. Drafted => due'[1] = due[1]
    BY <1>4, <1>7 DEF Bit
  <2> QED
    BY <2>1, PieceIs DEF EInv, Headed, Past, Drafted, Closing, Fits
<1>10. Received'
  <2>1. /\ rx'.state = "WAIT" /\ rx'.next = "DROP" /\ rx'.pass
        /\ params'.mac = frame.host /\ frame' = frame /\ frame # NoFrame
    BY <1>1, PieceIs, Values DEF Fits
  <2>2. begun'
    BY <1>2
  <2> QED
    BY <2>1, <2>2 DEF Received
<1>11. InOrder'
  <2>1. Decided \in 0..Len(due)
    BY <1>4 DEF EInv, InOrder, Decided, Bit
  <2>2. Undecided(asked', due', Decided)
    BY <1>2, <1>3, <2>1, TakesFrame DEF EInv, InOrder
  <2>3. Closing => due'[1] = due[1]
    BY <1>4, <2>1 DEF Decided, Bit
  <2>4. narrow.cyc => due'[Bit(Closing) + 1] = due[Bit(Closing) + 1]
    BY <1>4, <2>1 DEF Decided, Bit
  <2>5. skip => due'[Decided] = due[Decided]
    BY <1>4, <2>1 DEF Decided, Bit
  <2>6. narrow' = narrow /\ skip' = skip /\ Decided' <= Len(due') /\ Bit(Closing') = Bit(Closing)
    BY <1>4, <1>6, <2>1, PieceIs DEF Bit
  <2> QED
    BY <1>6, <2>2, <2>3, <2>4, <2>5, <2>6 DEF EInv, InOrder
<1> QED
  BY <1>5, <1>6, <1>8, <1>9, <1>10, <1>11 DEF EInv

\* Another word, or half of one, or padding.
LEMMA PieceKeeps ==
  ASSUME EInv, ReceivePiece, rx.state # "STB"
  PROVE  EInv'
<1>1. /\ due' = due /\ half' \in BOOLEAN /\ begun' = begun
      /\ \/ asked' = asked
         \/ asked' = Append(asked, "word")
      /\ rx.state = "WAIT" /\ rx.next = "STB" => half' /\ asked' = asked
  <2>1. CASE ~rx.pass
    BY <2>1 DEF ReceivePiece, EInv, Typed, Received
  <2>2. CASE rx.pass
    <3>1. CoreTakes /\ rx.state \in {"WAIT", "DROP"} /\ half \in BOOLEAN
      BY <2>2 DEF ReceivePiece, EInv, Typed
    <3>2. CASE ~half
      BY <3>1, <3>2 DEF CoreTakes
    <3>3. CASE half
      <4>1. begun /\ ~(rx.state = "WAIT" /\ rx.next = "STB")
        BY <2>2, <3>1, <3>3 DEF EInv, Received
      <4> QED
        BY <3>1, <3>3, <4>1 DEF CoreTakes
    <3> QED
      BY <3>2, <3>3
  <2> QED
    BY <2>1, <2>2
<1>2. asked \in Seq(Words) /\ "word" \in Words /\ "word" \notin Tokens
  BY DEF EInv, Typed, Words, Tokens
<1>3. asked' \in Seq(Words)
  BY <1>1, <1>2
<1>4. Typed'
  BY <1>1, <1>3, PieceIs DEF EInv, Typed
<1>5. TxWell' /\ AnswersTheAsker' /\ (Drafted' <=> Drafted) /\ (Closing' <=> Closing)
      /\ Decided' = Decided /\ Headed'
  BY <1>1, SameTx, SameDue, PieceIs
<1>6. Handed'
  <2>1. params'.stb = params.stb /\ tx' = tx /\ due' = due
    BY <1>1, PieceIs DEF EInv, Typed, ParamsRec
  <2>2. params'.stb => Fits(params', due[Bit(Drafted) + Bit(tx.ready) + 1])
    BY <2>1, PieceIs DEF EInv, Handed, Fits
  <2> QED
    BY <1>5, <2>1, <2>2 DEF EInv, Handed, Bit
<1>7. Received'
  BY <1>1, PieceIs DEF EInv, Received, Fits
<1>8. InOrder'
  <2>1. Decided \in 0..Len(due) /\ due \in Seq(Frames)
    BY DEF EInv, Typed, InOrder, Decided, Bit
  <2>2. Undecided(asked', due, Decided)
    BY <1>1, <1>2, <2>1, TakesWord DEF EInv, InOrder
  <2> QED
    BY <1>1, <1>5, <2>2, PieceIs DEF EInv, InOrder, Bit
<1> QED
  BY <1>4, <1>5, <1>6, <1>7, <1>8 DEF EInv

LEMMA EndKeeps == ASSUME EInv, EndFrame PROVE EInv'
<1>1. /\ frame' = NoFrame /\ half' = FALSE /\ begun' = FALSE
      /\ rx' = [rx EXCEPT !.state = "ETHERNET", !.pass = FALSE]
      /\ asked' = Append(asked, "drop")
      /\ UNCHANGED <<left, params, narrow, skip, tx, draft, sent, due>>
  BY DEF EndFrame, txVars
<1>2. /\ asked \in Seq(Words) /\ "drop" \in Words /\ "drop" \notin Tokens
      /\ rx \in RxRec
  BY DEF EInv, Typed, Words, Tokens
<1>3. rx' \in RxRec /\ rx'.state = "ETHERNET" /\ ~rx'.pass /\ asked' \in Seq(Words)
  <2>1. asked' \in Seq(Words)
    BY <1>1, <1>2
  <2>2. rx' \in RxRec /\ rx'.state = "ETHERNET" /\ rx'.pass = FALSE
    BY <1>1, <1>2 DEF RxRec, RxStates
  <2> QED
    BY <2>1, <2>2
<1>4. Typed'
  BY <1>1, <1>3 DEF EInv, Typed
<1>5. TxWell' /\ AnswersTheAsker' /\ (Drafted' <=> Drafted) /\ (Closing' <=> Closing)
      /\ Decided' = Decided /\ Headed'
  BY <1>1, SameTx, SameDue
<1>6. Handed'
  BY <1>1, <1>5 DEF EInv, Handed, Bit
<1>7. Received'
  BY <1>1, <1>3 DEF Received
<1>8. InOrder'
  <2>1. Decided \in 0..Len(due) /\ due \in Seq(Frames)
    BY DEF EInv, Typed, InOrder, Decided, Bit
  <2>2. Undecided(asked', due, Decided)
    BY <1>1, <1>2, <2>1, TakesWord DEF EInv, InOrder
  <2> QED
    BY <1>1, <1>5, <2>2 DEF EInv, InOrder, Bit
<1> QED
  BY <1>4, <1>5, <1>6, <1>7, <1>8 DEF EInv

-----------------------------------------------------------------------------
(* The steps of the core.                                                  *)

\* What the core takes out leaves all but the order of decisions.
LEMMA SameBeside ==
  ASSUME EInv, UNCHANGED <<frame, left, rx, params, half, begun, tx, draft, sent, due>>
  PROVE  Handed' /\ Headed' /\ Received' /\ AnswersTheAsker' /\ (Closing' <=> Closing)
<1>1. Handed'
  BY DEF EInv, Handed, Drafted, Closing, Fits, Bit
<1>2. Headed'
  BY DEF EInv, Headed, Past, Drafted, Closing, Fits
<1>3. Received'
  BY DEF EInv, Received, Fits
<1>4. AnswersTheAsker' /\ (Closing' <=> Closing)
  BY DEF EInv, AnswersTheAsker, Closing
<1> QED
  BY <1>1, <1>2, <1>3, <1>4

LEMMA AnswerIs ==
  ASSUME EInv, NEW token, Answer(token)
  PROVE  /\ asked # <<>> /\ Head(asked) = token /\ ~skip /\ asked' = Tail(asked)
         /\ asked \in Seq(Words) /\ asked' \in Seq(Words) /\ due \in Seq(Frames)
         /\ UNCHANGED <<frame, left, rx, params, half, begun, tx, draft, sent, due>>
         /\ Decided = Bit(Closing) + Bit(narrow.cyc) /\ Decided \in 0..Len(due)
<1>1. asked # <<>> /\ Head(asked) = token /\ ~skip /\ asked' = Tail(asked)
      /\ UNCHANGED <<frame, left, rx, params, half, begun, tx, draft, sent, due>>
  BY DEF Answer, rxVars, txVars
<1>2. asked \in Seq(Words) /\ due \in Seq(Frames)
  BY DEF EInv, Typed
<1>3. asked' \in Seq(Words)
  BY <1>1, <1>2, TailIs
<1>4. Decided = Bit(Closing) + Bit(narrow.cyc) /\ Decided \in 0..Len(due)
  BY <1>1, <1>2 DEF EInv, InOrder, Decided, Bit
<1> QED
  BY <1>1, <1>2, <1>3, <1>4

LEMMA CoreSkipsKeeps == ASSUME EInv, CoreSkips PROVE EInv'
<1>1. Answer("skip") /\ skip' = TRUE /\ narrow' = narrow
  BY DEF CoreSkips
<1>2. "skip" \in Tokens
  BY DEF Tokens
<1>3. /\ Decided + 1 <= Len(due) /\ Kind(due[Decided + 1]) = "skip"
      /\ Undecided(asked', due, Decided + 1)
  BY <1>1, <1>2, AnswerIs, Decides DEF EInv, InOrder
<1>4. Typed' /\ TxWell'
  BY <1>1, AnswerIs DEF EInv, Typed, TxWell, Drafting
<1>5. Handed' /\ Headed' /\ Received' /\ AnswersTheAsker' /\ (Closing' <=> Closing)
  BY <1>1, AnswerIs, SameBeside
<1>6. InOrder'
  <2>1. Decided' = Decided + 1 /\ Bit(Closing') = Bit(Closing)
    BY <1>1, <1>5, AnswerIs DEF Decided, Bit
  <2>2. due[Decided + 1].silent
    BY <1>3 DEF Kind
  <2>3. due' = due
    BY <1>1, AnswerIs
  <2> QED
    BY <1>1, <1>3, <1>5, <2>1, <2>2, <2>3 DEF EInv, InOrder
<1> QED
  BY <1>4, <1>5, <1>6 DEF EInv

LEMMA CoreBeginsKeeps == ASSUME EInv, CoreBegins PROVE EInv'
<1>1. Answer("send") /\ ~narrow.cyc /\ skip' = skip
      /\ narrow' = [cyc |-> TRUE, pieces |-> 2, drop |-> FALSE]
  BY DEF CoreBegins
<1>2. "send" \in Tokens
  BY DEF Tokens
<1>3. /\ Decided + 1 <= Len(due) /\ Kind(due[Decided + 1]) = "send"
      /\ Undecided(asked', due, Decided + 1)
  BY <1>1, <1>2, AnswerIs, Decides DEF EInv, InOrder
<1>4. Typed'
  <2>1. narrow' \in NarrowRec /\ skip' \in BOOLEAN
    BY <1>1 DEF NarrowRec, EInv, Typed
  <2> QED
    BY <1>1, <2>1, AnswerIs DEF EInv, Typed
<1>5. Handed' /\ Headed' /\ Received' /\ AnswersTheAsker' /\ (Closing' <=> Closing)
  BY <1>1, AnswerIs, SameBeside
<1>6. TxWell'
  BY <1>1, AnswerIs DEF EInv, TxWell, Drafting
<1>7. InOrder'
  <2>1. Decided = Bit(Closing) /\ Decided' = Decided + 1 /\ Bit(Closing') = Bit(Closing)
    BY <1>1, <1>5, AnswerIs DEF Decided, Bit
  <2>2. ~due[Decided + 1].silent
    BY <1>3 DEF Kind
  <2>3. due' = due /\ ~skip'
    BY <1>1, AnswerIs
  <2> QED
    BY <1>1, <1>3, <1>5, <2>1, <2>2, <2>3 DEF EInv, InOrder
<1> QED
  BY <1>4, <1>5, <1>6, <1>7 DEF EInv

\* A word that is no decision, whether it is passed on or not
LEMMA WordKeeps ==
  ASSUME EInv, NEW token, token \notin Tokens, Answer(token),
         narrow' \in NarrowRec, narrow'.cyc = narrow.cyc, skip' = skip
  PROVE  EInv'
<1>1. Undecided(asked', due, Decided)
  <2>1. /\ asked \in Seq(Words) /\ due \in Seq(Frames) /\ Decided \in 0..Len(due)
        /\ asked # <<>> /\ Head(asked) \notin Tokens /\ asked' = Tail(asked)
    BY AnswerIs
  <2>2. Undecided(asked, due, Decided)
    BY DEF EInv, InOrder
  <2> QED
    BY <2>1, <2>2, Answers
<1>2. Typed' /\ TxWell'
  BY AnswerIs DEF EInv, Typed, TxWell, Drafting
<1>3. Handed' /\ Headed' /\ Received' /\ AnswersTheAsker' /\ (Closing' <=> Closing)
  BY AnswerIs, SameBeside
<1>4. InOrder'
  <2>1. Decided' = Decided /\ Bit(Closing') = Bit(Closing) /\ due' = due
    BY <1>3, AnswerIs DEF Decided, Bit
  <2> QED
    BY <1>1, <1>3, <2>1 DEF EInv, InOrder
<1> QED
  BY <1>2, <1>3, <1>4 DEF EInv

LEMMA CoreKeeps == ASSUME EInv, CoreAnswers \/ CoreEnds PROVE EInv'
<1>1. narrow \in NarrowRec
  BY DEF EInv, Typed
<1>2. CASE CoreAnswers
  <2>1. Answer("word") /\ skip' = skip /\ narrow' \in {narrow, [narrow EXCEPT !.pieces = 2]}
    BY <1>2 DEF CoreAnswers
  <2>2. narrow' \in NarrowRec /\ narrow'.cyc = narrow.cyc
    BY <1>1, <2>1 DEF NarrowRec
  <2>3. "word" \notin Tokens
    BY DEF Tokens
  <2> QED
    BY <2>1, <2>2, <2>3, WordKeeps
<1>3. CASE CoreEnds
  <2>1. /\ Answer("drop") /\ skip' = skip
        /\ narrow' = [narrow EXCEPT !.drop = narrow.drop \/ narrow.cyc]
    BY <1>3 DEF CoreEnds
  <2>2. narrow' \in NarrowRec /\ narrow'.cyc = narrow.cyc
    BY <1>1, <2>1 DEF NarrowRec
  <2>3. "drop" \notin Tokens
    BY DEF Tokens
  <2> QED
    BY <2>1, <2>2, <2>3, WordKeeps
<1> QED
  BY <1>2, <1>3

-----------------------------------------------------------------------------
(* The steps of eb_eth_tx.                                                 *)

\* A step of the sender that neither commits nor takes from the queues of the others
LEMMA SameOutside ==
  ASSUME EInv, UNCHANGED <<frame, left, rx, params, asked, half, begun, skip, sent, due>>,
         tx' \in TxRec, draft' \in DraftRec, narrow' \in NarrowRec
  PROVE  Typed' /\ Received' /\ AnswersTheAsker'
<1>1. Typed' /\ Received'
  BY DEF EInv, Typed, Received, Fits
<1>2. AnswersTheAsker'
  BY DEF EInv, AnswersTheAsker
<1> QED
  BY <1>1, <1>2

\* ... and does not complete the headers
LEMMA SameStage ==
  ASSUME EInv, UNCHANGED <<params, asked, skip, due, narrow>>,
         tx'.ready = tx.ready, SameAddress(tx', tx), Drafted' <=> Drafted, Closing' <=> Closing
  PROVE  Handed' /\ InOrder'
<1>1. Decided' = Decided
  BY DEF Decided, Bit
<1>2. InOrder'
  BY <1>1 DEF EInv, InOrder, Bit
<1>3. Handed'
  <2>1. tx'.ready => Fits(tx', due[Bit(Drafted) + 1])
    <3>1. tx.ready => Fits(tx, due[Bit(Drafted) + 1])
      BY DEF EInv, Handed
    <3> QED
      BY <3>1 DEF Fits, SameAddress
  <2> QED
    BY <2>1 DEF EInv, Handed, Bit
<1> QED
  BY <1>2, <1>3

LEMMA LatchKeeps == ASSUME EInv, Latch PROVE EInv'
<1>1. /\ params.stb /\ ~tx.ready
      /\ tx' = [tx EXCEPT !.ready = TRUE, !.mac = params.mac, !.ip = params.ip,
                          !.port = params.port, !.length = params.length]
      /\ params' = [params EXCEPT !.stb = FALSE]
      /\ UNCHANGED <<frame, left, rx, asked, half, begun, narrow, skip, draft, sent, due>>
  BY DEF Latch, coreVars
<1>2. params \in ParamsRec /\ tx \in TxRec
  BY DEF EInv, Typed
<1>3. /\ params' \in ParamsRec /\ ~params'.stb /\ params'.mac = params.mac
      /\ params'.ip = params.ip /\ params'.port = params.port /\ params'.length = params.length
  BY <1>1, <1>2 DEF ParamsRec
<1>4. /\ tx' \in TxRec /\ SameAddress(tx', params)
      /\ tx'.state = tx.state /\ tx'.next = tx.next /\ tx'.ready
  BY <1>1, <1>2 DEF ParamsRec, TxRec, SameAddress
<1>5. Typed'
  BY <1>1, <1>3, <1>4 DEF EInv, Typed
<1>6. TxWell' /\ (Drafted' <=> Drafted) /\ (Closing' <=> Closing)
  BY <1>1, <1>4 DEF EInv, TxWell, Drafting, Drafted, Closing
<1>7. Handed'
  <2>1. Fits(params, due[Bit(Drafted) + 1]) /\ Len(due) = Bit(Drafted) + 1
    BY <1>1 DEF EInv, Handed, Bit
  <2>2. Fits(tx', due[Bit(Drafted) + 1])
    BY <1>4, <2>1 DEF Fits, SameAddress
  <2> QED
    BY <1>1, <1>3, <1>4, <1>6, <2>1, <2>2 DEF Handed, Bit
<1>8. Headed'
  <2>1. ~Drafting'
    BY <1>1, <1>4 DEF EInv, TxWell, Drafting
  <2>2. Drafted => Fits(draft, due[1])
    BY DEF EInv, Headed
  <2> QED
    BY <1>1, <1>6, <2>1, <2>2 DEF Headed, Past, Drafting, Fits
<1>9. Received'
  BY <1>1, <1>3 DEF EInv, Received, Fits
<1>10. InOrder'
  <2>1. Decided' = Decided
    BY <1>1, <1>6 DEF Decided, Bit
  <2> QED
    BY <1>1, <1>6, <2>1 DEF EInv, InOrder, Bit
<1>11. AnswersTheAsker'
  BY <1>1 DEF EInv, AnswersTheAsker
<1> QED
  BY <1>5, <1>6, <1>7, <1>8, <1>9, <1>10, <1>11 DEF EInv

LEMMA DraftHeadersKeeps == ASSUME EInv, DraftHeaders PROVE EInv'
<1>1. /\ tx.state = "WRF_STATUS" /\ tx.ready
      /\ tx' = [tx EXCEPT !.state = "ETHERNET"] /\ draft' = NoDraft
      /\ UNCHANGED <<frame, left, rx, params, asked, half, begun, narrow, skip, sent, due>>
  BY DEF DraftHeaders, TxOnly, rxVars, coreVars
<1>2. tx \in TxRec /\ narrow \in NarrowRec
  BY DEF EInv, Typed
<1>3. /\ tx' \in TxRec /\ tx'.state = "ETHERNET" /\ tx'.ready = tx.ready /\ SameAddress(tx', tx)
  BY <1>1, <1>2 DEF TxRec, TxStates, SameAddress
<1>4. draft' \in DraftRec
  BY <1>1 DEF NoDraft, DraftRec, Hosts, Ports, Lengths
<1>5. Typed' /\ Received' /\ AnswersTheAsker'
  BY <1>1, <1>2, <1>3, <1>4, SameOutside
<1>6. ~Drafted /\ ~Drafted' /\ ~Closing /\ ~Closing'
  BY <1>1, <1>3 DEF Drafted, Closing
<1>7. TxWell' /\ Headed'
  BY <1>1, <1>3, <1>6 DEF TxWell, Headed, Drafting, Past
<1>8. Handed' /\ InOrder'
  BY <1>1, <1>3, <1>6, SameStage
<1> QED
  BY <1>5, <1>7, <1>8 DEF EInv

\* A header: all fields of the packet but one stay as they are.
LEMMA HeaderIs ==
  ASSUME EInv, NEW state, NEW words \in Int, NEW next \in TxStates, NEW filled \in DraftRec,
         Header(state, words, next, filled)
  PROVE  /\ tx.state = state /\ draft' = filled
         /\ tx' \in TxRec /\ tx'.state = "PUSH" /\ tx'.next = next /\ tx'.ready = tx.ready
         /\ SameAddress(tx', tx)
         /\ UNCHANGED <<frame, left, rx, params, asked, half, begun, narrow, skip, sent, due>>
         /\ Typed' /\ Received' /\ AnswersTheAsker'
<1>1. /\ tx.state = state /\ draft' = filled
      /\ tx' = [tx EXCEPT !.state = "PUSH", !.next = next, !.count = words - 1]
      /\ UNCHANGED <<frame, left, rx, params, asked, half, begun, narrow, skip, sent, due>>
  BY DEF Header, TxOnly, rxVars, coreVars
<1>2. tx \in TxRec /\ narrow \in NarrowRec
  BY DEF EInv, Typed
<1>3. /\ tx' \in TxRec /\ tx'.state = "PUSH" /\ tx'.next = next /\ tx'.ready = tx.ready
      /\ SameAddress(tx', tx)
  <2> DEFINE c == words - 1
  <2>1. c \in Int /\ tx' = [tx EXCEPT !.state = "PUSH", !.next = next, !.count = c]
    BY <1>1
  <2> HIDE DEF c
  <2> QED
    BY <1>2, <2>1 DEF TxRec, TxStates, SameAddress
<1>4. Typed' /\ Received' /\ AnswersTheAsker'
  BY <1>1, <1>2, <1>3, SameOutside
<1> QED
  BY <1>1, <1>3, <1>4

LEMMA PushEthernetKeeps == ASSUME EInv, PushEthernet PROVE EInv'
<1> DEFINE filled == [draft EXCEPT !.words = @ + 1, !.mac = tx.mac]
<1>1. draft \in DraftRec /\ tx \in TxRec
  BY DEF EInv, Typed
<1>2. filled \in DraftRec /\ filled.mac = tx.mac
  <2> DEFINE w == draft.words + 1
  <2>1. w \in Int /\ filled = [draft EXCEPT !.words = w, !.mac = tx.mac]
    BY <1>1 DEF DraftRec
  <2> HIDE DEF w, filled
  <2> QED
    BY <1>1, <2>1 DEF DraftRec, TxRec
<1>3. Header("ETHERNET", EthWords, "IP", filled)
  BY DEF PushEthernet
<1> HIDE DEF filled
<1>4. /\ tx.state = "ETHERNET" /\ draft' = filled
      /\ tx'.state = "PUSH" /\ tx'.next = "IP" /\ tx'.ready = tx.ready /\ SameAddress(tx', tx)
      /\ UNCHANGED <<params, asked, narrow, skip, due>>
      /\ Typed' /\ Received' /\ AnswersTheAsker'
  <2>1. EthWords \in Int /\ "IP" \in TxStates
    BY Values DEF TxStates
  <2> QED
    BY <1>2, <1>3, <2>1, HeaderIs
<1>5. ~Drafted /\ ~Drafted' /\ ~Closing /\ ~Closing'
  BY <1>4 DEF Drafted, Closing
<1>6. TxWell'
  BY <1>4 DEF EInv, TxWell, Drafting
<1>7. Headed'
  BY <1>2, <1>4, <1>5 DEF Headed, Past, SameAddress
<1>8. Handed' /\ InOrder'
  BY <1>4, <1>5, SameStage
<1> QED
  BY <1>4, <1>6, <1>7, <1>8 DEF EInv

LEMMA PushIpKeeps == ASSUME EInv, PushIp PROVE EInv'
<1> DEFINE filled == [draft EXCEPT !.words = @ + 1, !.ip = tx.ip]
<1>1. draft \in DraftRec /\ tx \in TxRec
  BY DEF EInv, Typed
<1>2. filled \in DraftRec /\ filled.ip = tx.ip /\ filled.mac = draft.mac
  <2> DEFINE w == draft.words + 1
  <2>1. w \in Int /\ filled = [draft EXCEPT !.words = w, !.ip = tx.ip]
    BY <1>1 DEF DraftRec
  <2> HIDE DEF w, filled
  <2> QED
    BY <1>1, <2>1 DEF DraftRec, TxRec
<1>3. Header("IP", IpWords, "UDP", filled)
  BY DEF PushIp
<1> HIDE DEF filled
<1>4. /\ tx.state = "IP" /\ draft' = filled
      /\ tx'.state = "PUSH" /\ tx'.next = "UDP" /\ tx'.ready = tx.ready /\ SameAddress(tx', tx)
      /\ UNCHANGED <<params, asked, narrow, skip, due>>
      /\ Typed' /\ Received' /\ AnswersTheAsker'
  <2>1. IpWords \in Int /\ "UDP" \in TxStates
    BY Values DEF TxStates
  <2> QED
    BY <1>2, <1>3, <2>1, HeaderIs
<1>5. ~Drafted /\ ~Drafted' /\ ~Closing /\ ~Closing' /\ draft.mac = tx.mac
  BY <1>4 DEF Drafted, Closing, EInv, Headed, Past
<1>6. TxWell'
  BY <1>4 DEF EInv, TxWell, Drafting
<1>7. Headed'
  BY <1>2, <1>4, <1>5 DEF Headed, Past, SameAddress
<1>8. Handed' /\ InOrder'
  BY <1>4, <1>5, SameStage
<1> QED
  BY <1>4, <1>6, <1>7, <1>8 DEF EInv

LEMMA PushUdpKeeps == ASSUME EInv, PushUdp PROVE EInv'
<1> DEFINE filled == [draft EXCEPT !.words = @ + 1, !.port = tx.port, !.length = tx.length]
<1>1. draft \in DraftRec /\ tx \in TxRec
  BY DEF EInv, Typed
<1>2. /\ filled \in DraftRec /\ filled.ip = draft.ip /\ filled.mac = draft.mac
      /\ filled.port = tx.port /\ filled.length = tx.length
  <2> DEFINE w == draft.words + 1
  <2>1. w \in Int /\ filled = [draft EXCEPT !.words = w, !.port = tx.port, !.length = tx.length]
    BY <1>1 DEF DraftRec
  <2> HIDE DEF w, filled
  <2> QED
    BY <1>1, <2>1 DEF DraftRec, TxRec
<1>3. Header("UDP", UdpWords, "DONE", filled)
  BY DEF PushUdp
<1> HIDE DEF filled
<1>4. /\ tx.state = "UDP" /\ draft' = filled
      /\ tx'.state = "PUSH" /\ tx'.next = "DONE" /\ tx'.ready = tx.ready /\ SameAddress(tx', tx)
      /\ UNCHANGED <<params, asked, narrow, skip, due>>
      /\ Typed' /\ Received' /\ AnswersTheAsker'
  <2>1. UdpWords \in Int /\ "DONE" \in TxStates
    BY Values DEF TxStates
  <2> QED
    BY <1>2, <1>3, <2>1, HeaderIs
<1>5. ~Drafted /\ ~Drafted' /\ ~Closing /\ ~Closing' /\ draft.mac = tx.mac /\ draft.ip = tx.ip
  BY <1>4 DEF Drafted, Closing, EInv, Headed, Past
<1>6. TxWell'
  BY <1>4 DEF EInv, TxWell, Drafting
<1>7. Headed'
  BY <1>2, <1>4, <1>5 DEF Headed, Past, SameAddress
<1>8. Handed' /\ InOrder'
  BY <1>4, <1>5, SameStage
<1> QED
  BY <1>4, <1>6, <1>7, <1>8 DEF EInv

LEMMA PushRuntKeeps == ASSUME EInv, PushRunt PROVE EInv'
<1> DEFINE filled == [draft EXCEPT !.words = @ + 1, !.pad = @ + 1]
<1>1. draft \in DraftRec /\ tx \in TxRec
  BY DEF EInv, Typed
<1>2. filled \in DraftRec /\ SameAddress(filled, draft)
  <2> DEFINE w == draft.words + 1
             p == draft.pad + 1
  <2>1. w \in Int /\ p \in Int /\ filled = [draft EXCEPT !.words = w, !.pad = p]
    BY <1>1 DEF DraftRec
  <2> HIDE DEF w, p, filled
  <2> QED
    BY <1>1, <2>1 DEF DraftRec, SameAddress
<1>3. Header("RUNT", tx.count + 1, "LOWER", filled)
  BY DEF PushRunt
<1> HIDE DEF filled
<1>4. /\ tx.state = "RUNT" /\ draft' = filled
      /\ tx'.state = "PUSH" /\ tx'.next = "LOWER" /\ tx'.ready = tx.ready
      /\ SameAddress(tx', tx)
      /\ UNCHANGED <<params, asked, narrow, skip, due>>
      /\ Typed' /\ Received' /\ AnswersTheAsker'
  <2>1. tx.count + 1 \in Int /\ "LOWER" \in TxStates
    BY <1>1 DEF TxStates, TxRec
  <2> QED
    BY <1>2, <1>3, <2>1, HeaderIs
<1>5. Drafted /\ Drafted' /\ Closing /\ Closing'
  BY <1>4 DEF Drafted, Closing
<1>6. TxWell'
  BY <1>4 DEF EInv, TxWell, Drafting
<1>7. Headed'
  <2>1. Fits(draft, due[1])
    BY <1>5 DEF EInv, Headed
  <2> QED
    BY <1>2, <1>4, <2>1 DEF Headed, Past, SameAddress, Fits
<1>8. Handed' /\ InOrder'
  BY <1>4, <1>5, SameStage
<1> QED
  BY <1>4, <1>6, <1>7, <1>8 DEF EInv

LEMMA PushKeeps == ASSUME EInv, Push PROVE EInv'
<1> DEFINE state == IF tx.count = 1 THEN tx.next ELSE "PUSH"
           c == (tx.count - 1) % CountMod
           w == draft.words + 1
           p == IF tx.next = "LOWER" THEN draft.pad + 1 ELSE draft.pad
<1>1. /\ tx.state = "PUSH"
      /\ tx' = [tx EXCEPT !.state = state, !.count = c]
      /\ draft' = [draft EXCEPT !.words = w, !.pad = p]
      /\ UNCHANGED <<frame, left, rx, params, asked, half, begun, narrow, skip, sent, due>>
  BY DEF Push, TxOnly, rxVars, coreVars
<1>2. tx \in TxRec /\ draft \in DraftRec /\ narrow \in NarrowRec
  BY DEF EInv, Typed
<1>3. tx.next \in {"IP", "UDP", "DONE", "LOWER"}
  BY <1>1 DEF EInv, TxWell
<1>4. state \in {"PUSH", tx.next} /\ c \in Int /\ w \in Int /\ p \in Int
  BY <1>2, Remainders DEF TxRec, DraftRec
<1> HIDE DEF state, c, w, p
<1>5. /\ tx' \in TxRec /\ tx'.state \in {"PUSH", tx.next} /\ tx'.next = tx.next
      /\ tx'.ready = tx.ready /\ SameAddress(tx', tx)
  BY <1>1, <1>2, <1>3, <1>4 DEF TxRec, TxStates, SameAddress
<1>6. draft' \in DraftRec /\ SameAddress(draft', draft)
  BY <1>1, <1>2, <1>4 DEF DraftRec, SameAddress
<1>7. Typed' /\ Received' /\ AnswersTheAsker'
  BY <1>1, <1>2, <1>5, <1>6, SameOutside
<1>8. /\ Drafted <=> tx.next = "LOWER"
      /\ Closing <=> tx.next = "LOWER"
      /\ Drafted' <=> tx.next = "LOWER"
      /\ Closing' <=> tx.next = "LOWER"
  BY <1>1, <1>3, <1>5 DEF Drafted, Closing
<1>9. TxWell'
  BY <1>1, <1>3, <1>5 DEF EInv, TxWell, Drafting
<1>10. Headed'
  <2>1. Past({"IP", "UDP", "DONE"})' => draft.mac = tx.mac
    BY <1>1, <1>3, <1>5 DEF EInv, Headed, Past
  <2>2. Past({"UDP", "DONE"})' => draft.ip = tx.ip
    BY <1>1, <1>3, <1>5 DEF EInv, Headed, Past
  <2>3. Past({"DONE"})' => draft.port = tx.port /\ draft.length = tx.length
    BY <1>1, <1>3, <1>5 DEF EInv, Headed, Past
  <2>4. Drafted' => Fits(draft, due[1])
    BY <1>8 DEF EInv, Headed
  <2> QED
    BY <1>1, <1>5, <1>6, <2>1, <2>2, <2>3, <2>4 DEF Headed, SameAddress, Fits
<1>11. Handed' /\ InOrder'
  BY <1>1, <1>5, <1>8, SameStage
<1> QED
  BY <1>7, <1>9, <1>10, <1>11 DEF EInv

\* The headers are complete: the registers of the sender are free again, the draft has
\* what they held.
LEMMA DoneKeeps == ASSUME EInv, Done PROVE EInv'
<1> DEFINE next == IF tx.length < RuntPieces THEN "RUNT" ELSE "LOWER"
           c == IF tx.length < RuntPieces THEN RuntPieces - tx.length - 1 ELSE 0
           w == draft.words + 1
<1>1. /\ tx.state = "DONE"
      /\ tx' = [tx EXCEPT !.ready = FALSE, !.state = Proceed, !.next = next, !.count = c]
      /\ draft' = [draft EXCEPT !.words = w]
      /\ UNCHANGED <<frame, left, rx, params, asked, half, begun, narrow, skip, sent, due>>
  BY DEF Done, TxOnly, rxVars, coreVars
<1>2. tx \in TxRec /\ draft \in DraftRec /\ narrow \in NarrowRec
  BY DEF EInv, Typed
<1>3. next \in {"RUNT", "LOWER"} /\ c \in Int /\ w \in Int
  <2>1. tx.length \in Int
    BY <1>2, Values DEF TxRec, Lengths
  <2> QED
    BY <1>2, <2>1, Values DEF DraftRec
<1> HIDE DEF next, c, w
<1>4. /\ Proceed \in {"PAYLOAD", "SKIP", "WAIT"}
      /\ Proceed = "PAYLOAD" => narrow.cyc
      /\ Proceed = "SKIP" => skip /\ ~narrow.cyc
  BY DEF Proceed
<1>5. /\ tx' \in TxRec /\ tx'.state = Proceed /\ tx'.next \in {"RUNT", "LOWER"} /\ ~tx'.ready
  <2>1. Proceed \in TxStates /\ next \in TxStates
    BY <1>3, <1>4 DEF TxStates
  <2> QED
    BY <1>1, <1>2, <1>3, <2>1 DEF TxRec
<1>6. draft' \in DraftRec /\ SameAddress(draft', draft)
  BY <1>1, <1>2, <1>3 DEF DraftRec, SameAddress
<1>7. Typed' /\ Received' /\ AnswersTheAsker'
  BY <1>1, <1>2, <1>5, <1>6, SameOutside
<1>8. ~Drafted /\ Drafted' /\ ~Closing /\ ~Closing'
  BY <1>1, <1>4, <1>5 DEF Drafted, Closing
<1>9. tx.ready
  BY <1>1 DEF EInv, TxWell, Drafting
<1>10. TxWell'
  BY <1>1, <1>4, <1>5 DEF TxWell, Drafting
<1>11. Handed'
  <2>1. Len(due) = 1 + Bit(params.stb) /\ (params.stb => Fits(params, due[2]))
    BY <1>8, <1>9 DEF EInv, Handed, Bit
  <2> QED
    BY <1>1, <1>5, <1>8, <2>1 DEF Handed, Bit
<1>12. Headed'
  <2>1. Fits(tx, due[1])
    BY <1>8, <1>9 DEF EInv, Handed, Bit
  <2>2. SameAddress(draft, tx)
    BY <1>1 DEF EInv, Headed, Past, SameAddress
  <2>3. Fits(draft', due[1])
    BY <1>6, <2>1, <2>2 DEF Fits, SameAddress
  <2> QED
    BY <1>1, <1>4, <1>5, <2>3 DEF Headed, Past
<1>13. InOrder'
  <2>1. Decided' = Decided
    BY <1>1, <1>8 DEF Decided, Bit
  <2> QED
    BY <1>1, <1>8, <2>1 DEF EInv, InOrder, Bit
<1> QED
  BY <1>7, <1>10, <1>11, <1>12, <1>13 DEF EInv

LEMMA WaitKeeps == ASSUME EInv, Wait PROVE EInv'
<1>1. /\ tx.state = "WAIT" /\ Proceed # "WAIT"
      /\ tx' = [tx EXCEPT !.state = Proceed] /\ draft' = draft
      /\ UNCHANGED <<frame, left, rx, params, asked, half, begun, narrow, skip, sent, due>>
  BY DEF Wait, TxOnly, rxVars, coreVars
<1>2. tx \in TxRec /\ draft \in DraftRec /\ narrow \in NarrowRec
  BY DEF EInv, Typed
<1>3. /\ Proceed \in {"PAYLOAD", "SKIP"}
      /\ Proceed = "PAYLOAD" => narrow.cyc
      /\ Proceed = "SKIP" => skip /\ ~narrow.cyc
  BY <1>1 DEF Proceed
<1>4. /\ tx' \in TxRec /\ tx'.state = Proceed /\ tx'.next = tx.next /\ tx'.ready = tx.ready
      /\ SameAddress(tx', tx)
  <2>1. Proceed \in TxStates
    BY <1>3 DEF TxStates
  <2> QED
    BY <1>1, <1>2, <2>1 DEF TxRec, SameAddress
<1>5. Typed' /\ Received' /\ AnswersTheAsker'
  BY <1>1, <1>2, <1>4, SameOutside
<1>6. Drafted /\ Drafted' /\ ~Closing /\ ~Closing'
  BY <1>1, <1>3, <1>4 DEF Drafted, Closing
<1>7. TxWell'
  BY <1>1, <1>3, <1>4 DEF EInv, TxWell, Drafting
<1>8. Headed'
  BY <1>1, <1>3, <1>4, <1>6 DEF EInv, Headed, Past, Fits
<1>9. Handed' /\ InOrder'
  BY <1>1, <1>4, <1>6, SameStage
<1> QED
  BY <1>5, <1>7, <1>8, <1>9 DEF EInv

LEMMA TakePieceKeeps == ASSUME EInv, TakePiece PROVE EInv'
<1> DEFINE q == narrow.pieces - 1
           w == draft.words + 1
           l == draft.payload + 1
<1>1. /\ tx.state = "PAYLOAD"
      /\ narrow' = [narrow EXCEPT !.pieces = q]
      /\ draft' = [draft EXCEPT !.words = w, !.payload = l]
      /\ UNCHANGED <<frame, left, rx, params, asked, half, begun, skip, tx, sent, due>>
  BY DEF TakePiece, rxVars
<1>2. tx \in TxRec /\ draft \in DraftRec /\ narrow \in NarrowRec
  BY DEF EInv, Typed
<1>3. q \in Int /\ w \in Int /\ l \in Int
  BY <1>2 DEF NarrowRec, DraftRec
<1> HIDE DEF q, w, l
<1>4. narrow' \in NarrowRec /\ narrow'.cyc = narrow.cyc
  BY <1>1, <1>2, <1>3 DEF NarrowRec
<1>5. draft' \in DraftRec /\ SameAddress(draft', draft)
  BY <1>1, <1>2, <1>3 DEF DraftRec, SameAddress
<1>6. Typed' /\ Received' /\ AnswersTheAsker'
  BY <1>1, <1>2, <1>4, <1>5, SameOutside
<1>7. (Drafted' <=> Drafted) /\ (Closing' <=> Closing)
  BY <1>1 DEF Drafted, Closing
<1>8. TxWell'
  BY <1>1, <1>4 DEF EInv, TxWell, Drafting
<1>9. Headed'
  <2>1. Drafted => Fits(draft, due[1])
    BY DEF EInv, Headed
  <2> QED
    BY <1>1, <1>5, <1>7, <2>1 DEF Headed, Past, Fits, SameAddress
<1>10. Handed'
  BY <1>1, <1>7 DEF EInv, Handed, Fits, Bit
<1>11. InOrder'
  <2>1. Decided' = Decided
    BY <1>1, <1>4, <1>7 DEF Decided, Bit
  <2> QED
    BY <1>1, <1>4, <1>7, <2>1 DEF EInv, InOrder, Bit
<1> QED
  BY <1>6, <1>8, <1>9, <1>10, <1>11 DEF EInv

\* The frame being answered becomes the one whose packet is being ended.
LEMMA PayloadEndsKeeps == ASSUME EInv, PayloadEnds PROVE EInv'
<1>1. /\ tx.state = "PAYLOAD"
      /\ narrow' = [narrow EXCEPT !.cyc = FALSE, !.drop = FALSE]
      /\ tx' = [tx EXCEPT !.state = tx.next]
      /\ UNCHANGED <<frame, left, rx, params, asked, half, begun, skip, draft, sent, due>>
  BY DEF PayloadEnds, rxVars
<1>2. tx \in TxRec /\ draft \in DraftRec /\ narrow \in NarrowRec
      /\ tx.next \in {"RUNT", "LOWER"} /\ narrow.cyc
  BY <1>1 DEF EInv, Typed, TxWell
<1>3. narrow' \in NarrowRec /\ ~narrow'.cyc
  BY <1>1, <1>2 DEF NarrowRec
<1>4. /\ tx' \in TxRec /\ tx'.state \in {"RUNT", "LOWER"} /\ tx'.next = tx.next
      /\ tx'.ready = tx.ready /\ SameAddress(tx', tx)
  BY <1>1, <1>2 DEF TxRec, SameAddress
<1>5. Typed' /\ Received' /\ AnswersTheAsker'
  BY <1>1, <1>2, <1>3, <1>4, SameOutside
<1>6. Drafted /\ Drafted' /\ ~Closing /\ Closing'
  BY <1>1, <1>4 DEF Drafted, Closing
<1>7. TxWell'
  BY <1>1, <1>4 DEF TxWell, Drafting
<1>8. Headed'
  <2>1. Fits(draft, due[1])
    BY <1>6 DEF EInv, Headed
  <2> QED
    BY <1>1, <1>4, <2>1 DEF Headed, Past, Fits
<1>9. Handed'
  <2>1. /\ Len(due) = 1 + Bit(tx.ready) + Bit(params.stb)
        /\ tx.ready => Fits(tx, due[2])
        /\ params.stb => Fits(params, due[1 + Bit(tx.ready) + 1])
    BY <1>6 DEF EInv, Handed, Bit
  <2>2. tx'.ready => Fits(tx', due[2])
    BY <1>4, <2>1 DEF Fits, SameAddress
  <2> QED
    BY <1>1, <1>4, <1>6, <2>1, <2>2 DEF Handed, Bit
<1>10. InOrder'
  <2>1. Decided' = Decided
    BY <1>1, <1>2, <1>3, <1>6 DEF Decided, Bit
  <2>2. ~due[1].silent
    BY <1>2, <1>6 DEF EInv, InOrder, Bit
  <2> QED
    BY <1>1, <1>3, <2>1, <2>2 DEF EInv, InOrder
<1> QED
  BY <1>5, <1>7, <1>8, <1>9, <1>10 DEF EInv

\* The oldest frame is done with: the others move up.
LEMMA MovesUp ==
  ASSUME EInv, UNCHANGED <<params, asked>>, due' = Tail(due),
         Drafted, ~Drafted', ~Closing', tx'.ready = tx.ready, SameAddress(tx', tx),
         Decided' = Decided - 1, Decided \in 1..Len(due),
         skip' => skip, narrow'.cyc => narrow.cyc /\ Closing
  PROVE  due' \in Seq(Frames) /\ Handed' /\ InOrder'
<1>1. due \in Seq(Frames) /\ due # <<>>
  BY DEF EInv, Typed
<1>2. /\ due' \in Seq(Frames) /\ Len(due') = Len(due) - 1 /\ Len(due) \in Nat \ {0}
      /\ \A i \in 1..Len(due) - 1 : due'[i] = due[i + 1]
  BY <1>1, TailIs
<1>3. /\ Len(due) = 1 + Bit(tx.ready) + Bit(params.stb)
      /\ tx.ready => Fits(tx, due[2])
      /\ params.stb => Fits(params, due[1 + Bit(tx.ready) + 1])
  BY DEF EInv, Handed, Bit
<1>4. Handed'
  <2>1. Len(due') = Bit(Drafted') + Bit(tx'.ready) + Bit(params'.stb)
    BY <1>2, <1>3 DEF Bit
  <2>2. ASSUME tx'.ready PROVE Fits(tx', due'[Bit(Drafted') + 1])
    <3>1. 1 \in 1..Len(due) - 1 /\ due'[1] = due[2] /\ tx.ready
      BY <1>2, <1>3, <2>2 DEF Bit
    <3> QED
      BY <1>3, <3>1 DEF Bit, Fits, SameAddress
  <2>3. ASSUME params'.stb PROVE Fits(params', due'[Bit(Drafted') + Bit(tx'.ready) + 1])
    <3>1. /\ Bit(tx.ready) + 1 \in 1..Len(due) - 1
          /\ due'[Bit(tx.ready) + 1] = due[1 + Bit(tx.ready) + 1]
      BY <1>2, <1>3, <2>3 DEF Bit
    <3> QED
      BY <1>3, <2>3, <3>1 DEF Bit
  <2> QED
    BY <2>1, <2>2, <2>3 DEF Handed
<1>5. InOrder'
  <2>1. Undecided(asked', due', Decided')
    <3>1. asked \in Seq(Words) /\ Undecided(asked, due, Decided)
      BY DEF EInv, Typed, InOrder
    <3>2. Undecided(asked, Tail(due), Decided - 1)
      BY <1>1, <3>1, Finishes
    <3> QED
      BY <3>2
  <2>2. Decided' <= Len(due')
    BY <1>2
  <2>3. ASSUME narrow'.cyc PROVE ~due'[Bit(Closing') + 1].silent
    <3>1. narrow.cyc /\ Closing /\ ~due[2].silent /\ Len(due) >= 2
      BY <2>3 DEF EInv, InOrder, Decided, Bit
    <3>2. due'[1] = due[2]
      BY <1>2, <3>1
    <3> QED
      BY <3>1, <3>2 DEF Bit
  <2>4. ASSUME skip' PROVE due'[Decided'].silent
    <3>1. skip /\ due[Decided].silent
      BY <2>4 DEF EInv, InOrder
    <3>2. Decided' \in 1..Len(due) - 1
      <4>1. Decided' = Bit(Closing') + Bit(narrow'.cyc) + 1
        BY <2>4 DEF Decided, Bit
      <4> QED
        BY <1>2, <4>1 DEF Bit
    <3>3. due'[Decided'] = due[Decided]
      BY <1>2, <3>2
    <3> QED
      BY <3>1, <3>3
  <2> QED
    BY <2>1, <2>2, <2>3, <2>4 DEF InOrder
<1> QED
  BY <1>2, <1>4, <1>5

LEMMA EmptyDraft == NoDraft \in DraftRec
  BY DEF NoDraft, DraftRec, Hosts, Ports, Lengths

LEMMA SkipKeeps == ASSUME EInv, Skip PROVE EInv'
<1>1. /\ tx.state = "SKIP"
      /\ tx' = [tx EXCEPT !.state = "WRF_STATUS"]
      /\ skip' = FALSE /\ draft' = NoDraft /\ due' = Tail(due)
      /\ UNCHANGED <<frame, left, rx, params, asked, half, begun, narrow, sent>>
  BY DEF Skip, rxVars
<1>2. tx \in TxRec /\ skip /\ ~narrow.cyc
  BY <1>1 DEF EInv, Typed, TxWell
<1>3. /\ tx' \in TxRec /\ tx'.state = "WRF_STATUS" /\ tx'.ready = tx.ready
      /\ SameAddress(tx', tx)
  BY <1>1, <1>2 DEF TxRec, TxStates, SameAddress
<1>4. Drafted /\ ~Drafted' /\ ~Closing /\ ~Closing'
  BY <1>1, <1>3 DEF Drafted, Closing
<1>5. Decided = 1 /\ Decided' = 0
  BY <1>1, <1>2, <1>4 DEF Decided, Bit
<1>6. Decided \in 1..Len(due)
  <2>1. Len(due) \in Nat /\ Decided <= Len(due)
    BY DEF EInv, Typed, InOrder
  <2> QED
    BY <1>5, <2>1
<1>7. due' \in Seq(Frames) /\ Handed' /\ InOrder'
  <2>1. ~skip' /\ ~narrow'.cyc
    BY <1>1, <1>2
  <2> QED
    BY <1>1, <1>3, <1>4, <1>5, <1>6, <2>1, MovesUp
<1>8. Typed'
  <2>1. skip' \in BOOLEAN
    BY <1>1
  <2> QED
    BY <1>1, <1>3, <1>7, <2>1, EmptyDraft DEF EInv, Typed
<1>9. TxWell' /\ Headed'
  BY <1>1, <1>3, <1>4 DEF TxWell, Drafting, Headed, Past
<1>10. Received' /\ AnswersTheAsker'
  BY <1>1 DEF EInv, Received, Fits, AnswersTheAsker
<1> QED
  BY <1>7, <1>8, <1>9, <1>10 DEF EInv

\* What is committed is the answer to the oldest frame.
LEMMA PacketIs ==
  ASSUME EInv, Closing, NEW n \in Int, NEW e \in BOOLEAN
  PROVE  /\ Packet(n, e) \in PacketRec
         /\ Packet(n, e).to = [mac  |-> Packet(n, e).asked.host,
                               ip   |-> Packet(n, e).asked.host,
                               port |-> Packet(n, e).asked.port]
         /\ Packet(n, e).length = Packet(n, e).asked.length /\ ~Packet(n, e).asked.silent
<1>1. Fits(draft, due[1]) /\ ~due[1].silent /\ Len(due) >= 1
  BY DEF EInv, Headed, Drafted, InOrder, Decided, Bit
<1>2. draft \in DraftRec /\ due \in Seq(Frames)
  BY DEF EInv, Typed
<1>3. Head(due) = due[1] /\ due[1] \in Frames
  BY <1>1, <1>2
<1>4. /\ Packet(n, e).to = [mac |-> draft.mac, ip |-> draft.ip, port |-> draft.port]
      /\ Packet(n, e).length = draft.length /\ Packet(n, e).asked = due[1]
  BY <1>3 DEF Packet
<1>5. [mac |-> draft.mac, ip |-> draft.ip, port |-> draft.port] \in [mac : Hosts, ip : Hosts, port : Ports]
  BY <1>2 DEF DraftRec
<1>6. Packet(n, e) \in PacketRec
  BY <1>2, <1>3, <1>5 DEF Packet, PacketRec, DraftRec
<1> QED
  BY <1>1, <1>4, <1>6 DEF Fits

LEMMA CommitFullKeeps == ASSUME EInv, CommitFull PROVE EInv'
<1> DEFINE p == Packet(draft.words, FALSE)
<1>1. /\ tx.state = "LOWER" /\ sent' = Append(sent, p)
      /\ draft' = [draft EXCEPT !.words = 0]
      /\ UNCHANGED <<frame, left, rx, params, asked, half, begun, narrow, skip, tx, due>>
  BY DEF CommitFull, rxVars, coreVars
<1>2. draft \in DraftRec /\ sent \in Seq(PacketRec) /\ Closing /\ draft.words \in Int
  BY <1>1 DEF EInv, Typed, Closing, DraftRec
<1>3. /\ p \in PacketRec /\ ~p.asked.silent /\ p.length = p.asked.length
      /\ p.to = [mac |-> p.asked.host, ip |-> p.asked.host, port |-> p.asked.port]
  BY <1>2, PacketIs
<1> HIDE DEF p
<1>4. /\ sent' \in Seq(PacketRec) /\ Len(sent') = Len(sent) + 1 /\ Len(sent) \in Nat
      /\ (\A i \in 1..Len(sent) : sent'[i] = sent[i]) /\ sent'[Len(sent) + 1] = p
  BY <1>1, <1>2, <1>3, AppendIs
<1>5. draft' \in DraftRec /\ SameAddress(draft', draft)
  BY <1>1, <1>2 DEF DraftRec, SameAddress
<1>6. Typed'
  BY <1>1, <1>4, <1>5 DEF EInv, Typed
<1>7. AnswersTheAsker'
  BY <1>3, <1>4 DEF EInv, AnswersTheAsker
<1>8. TxWell' /\ Handed' /\ Received'
  BY <1>1 DEF EInv, TxWell, Drafting, Handed, Drafted, Closing, Bit, Fits, Received
<1>9. InOrder'
  BY <1>1, SameOrder
<1>10. Headed'
  <2>1. Drafted' /\ Drafted
    BY <1>1 DEF Drafted, Closing
  <2>2. Fits(draft, due[1])
    BY <2>1 DEF EInv, Headed
  <2> QED
    BY <1>1, <1>5, <2>2 DEF Headed, Past, Fits, SameAddress
<1> QED
  BY <1>6, <1>7, <1>8, <1>9, <1>10 DEF EInv

\* What is still to be sent of a packet, and whether that is all, says neither whose it is
\* nor how long.
Alike(s, t) ==
  /\ t \in Seq(PacketRec) /\ Len(t) = Len(s)
  /\ \A i \in 1..Len(s) : /\ t[i].to = s[i].to /\ t[i].length = s[i].length
                          /\ t[i].asked = s[i].asked
                          /\ t[i].payload = s[i].payload /\ t[i].pad = s[i].pad

LEMMA LeftChanges ==
  ASSUME NEW s \in Seq(PacketRec), NEW n, NEW e \in Int
  PROVE  Alike(s, [s EXCEPT ![n].left = e])
<1> DEFINE t == [s EXCEPT ![n].left = e]
<1>1. t = [i \in 1..Len(s) |-> IF i = n THEN [s[i] EXCEPT !.left = e] ELSE s[i]]
  OBVIOUS
<1>2. \A i \in 1..Len(s) :
         /\ [s[i] EXCEPT !.left = e] \in PacketRec
         /\ [s[i] EXCEPT !.left = e].to = s[i].to
         /\ [s[i] EXCEPT !.left = e].length = s[i].length
         /\ [s[i] EXCEPT !.left = e].asked = s[i].asked
         /\ [s[i] EXCEPT !.left = e].payload = s[i].payload
         /\ [s[i] EXCEPT !.left = e].pad = s[i].pad
  <2> TAKE i \in 1..Len(s)
  <2>1. s[i] \in PacketRec
    OBVIOUS
  <2> QED
    BY <2>1 DEF PacketRec
<1> HIDE DEF t
<1>3. t \in Seq(PacketRec) /\ Len(t) = Len(s)
  <2>1. t \in [1..Len(s) -> PacketRec] /\ Len(s) \in Nat
    BY <1>1, <1>2
  <2> QED
    BY <2>1
<1>4. Alike(s, t)
  BY <1>1, <1>2, <1>3 DEF Alike
<1> QED
  BY <1>4 DEF t

LEMMA EndedChanges ==
  ASSUME NEW s \in Seq(PacketRec), NEW n, NEW e \in BOOLEAN
  PROVE  Alike(s, [s EXCEPT ![n].ended = e])
<1> DEFINE t == [s EXCEPT ![n].ended = e]
<1>1. t = [i \in 1..Len(s) |-> IF i = n THEN [s[i] EXCEPT !.ended = e] ELSE s[i]]
  OBVIOUS
<1>2. \A i \in 1..Len(s) :
         /\ [s[i] EXCEPT !.ended = e] \in PacketRec
         /\ [s[i] EXCEPT !.ended = e].to = s[i].to
         /\ [s[i] EXCEPT !.ended = e].length = s[i].length
         /\ [s[i] EXCEPT !.ended = e].asked = s[i].asked
         /\ [s[i] EXCEPT !.ended = e].payload = s[i].payload
         /\ [s[i] EXCEPT !.ended = e].pad = s[i].pad
  <2> TAKE i \in 1..Len(s)
  <2>1. s[i] \in PacketRec
    OBVIOUS
  <2> QED
    BY <2>1 DEF PacketRec
<1> HIDE DEF t
<1>3. t \in Seq(PacketRec) /\ Len(t) = Len(s)
  <2>1. t \in [1..Len(s) -> PacketRec] /\ Len(s) \in Nat
    BY <1>1, <1>2
  <2> QED
    BY <2>1
<1>4. Alike(s, t)
  BY <1>1, <1>2, <1>3 DEF Alike
<1> QED
  BY <1>4 DEF t

LEMMA AlikeAnswers ==
  ASSUME EInv, Alike(sent, sent')
  PROVE  AnswersTheAsker'
BY DEF EInv, Typed, Alike, AnswersTheAsker

\* The word that lowers the cycle line joins the last packet when all of it is committed.
LEMMA LastChanges == ASSUME EInv, Lower, ~(draft.words > 0) PROVE Alike(sent, sent')
<1> DEFINE e == sent[Len(sent)].left + 1
           one == [sent EXCEPT ![Len(sent)].left = e]
<1>1. sent' = [one EXCEPT ![Len(sent)].ended = TRUE]
  BY DEF Lower
<1>2. sent \in Seq(PacketRec) /\ Len(sent) \in Nat
  BY DEF EInv, Typed
<1>3. CASE sent = <<>>
  <2>1. sent' = <<>>
    BY <1>1, <1>3
  <2> QED
    BY <1>2, <1>3, <2>1 DEF Alike
<1>4. CASE sent # <<>>
  <2>1. e \in Int
    <3>1. sent[Len(sent)] \in PacketRec
      BY <1>2, <1>4
    <3> QED
      BY <3>1 DEF PacketRec
  <2>2. Alike(sent, one)
    BY <1>2, <2>1, LeftChanges
  <2> HIDE DEF e, one
  <2>3. one \in Seq(PacketRec)
    BY <2>2 DEF Alike
  <2>4. Alike(one, [one EXCEPT ![Len(sent)].ended = TRUE])
    BY <2>3, EndedChanges
  <2>5. Alike(one, sent')
    BY <1>1, <2>4
  <2> QED
    BY <2>2, <2>5 DEF Alike
<1> QED
  BY <1>3, <1>4

LEMMA LowerKeeps == ASSUME EInv, Lower PROVE EInv'
<1>1. /\ tx.state = "LOWER"
      /\ tx' = [tx EXCEPT !.state = "WRF_STATUS"]
      /\ draft' = NoDraft /\ due' = Tail(due)
      /\ UNCHANGED <<frame, left, rx, params, asked, half, begun, narrow, skip>>
  BY DEF Lower, rxVars, coreVars
<1>2. /\ tx \in TxRec /\ draft \in DraftRec /\ sent \in Seq(PacketRec)
      /\ draft.words + 1 \in Int /\ Len(sent) \in Nat
  BY DEF EInv, Typed, DraftRec
<1>3. /\ tx' \in TxRec /\ tx'.state = "WRF_STATUS" /\ tx'.ready = tx.ready
      /\ SameAddress(tx', tx)
  BY <1>1, <1>2 DEF TxRec, TxStates, SameAddress
<1>4. Drafted /\ ~Drafted' /\ Closing /\ ~Closing'
  BY <1>1, <1>3 DEF Drafted, Closing
<1>5. Decided' = Decided - 1 /\ Decided \in 1..Len(due)
  <2>1. Len(due) \in Nat /\ Decided <= Len(due)
    BY DEF EInv, Typed, InOrder
  <2> QED
    BY <1>1, <1>4, <2>1 DEF Decided, Bit
<1>6. due' \in Seq(Frames) /\ Handed' /\ InOrder'
  BY <1>1, <1>3, <1>4, <1>5, MovesUp
<1>7. sent' \in Seq(PacketRec) /\ AnswersTheAsker'
  <2>1. CASE draft.words > 0
    <3> DEFINE p == Packet(draft.words + 1, TRUE)
    <3>1. sent' = Append(sent, p)
      BY <2>1 DEF Lower
    <3>2. /\ p \in PacketRec /\ ~p.asked.silent /\ p.length = p.asked.length
          /\ p.to = [mac |-> p.asked.host, ip |-> p.asked.host, port |-> p.asked.port]
      BY <1>2, <1>4, PacketIs
    <3> HIDE DEF p
    <3>3. /\ sent' \in Seq(PacketRec) /\ Len(sent') = Len(sent) + 1
          /\ (\A i \in 1..Len(sent) : sent'[i] = sent[i]) /\ sent'[Len(sent) + 1] = p
      BY <1>2, <3>1, <3>2, AppendIs
    <3> QED
      BY <1>2, <3>2, <3>3 DEF EInv, AnswersTheAsker
  <2>2. CASE ~(draft.words > 0)
    BY <2>2, LastChanges, AlikeAnswers DEF Alike
  <2> QED
    BY <2>1, <2>2
<1>8. Typed'
  BY <1>1, <1>3, <1>6, <1>7, EmptyDraft DEF EInv, Typed
<1>9. TxWell' /\ Headed'
  BY <1>1, <1>3, <1>4 DEF TxWell, Drafting, Headed, Past
<1>10. Received'
  BY <1>1 DEF EInv, Received, Fits
<1> QED
  BY <1>6, <1>7, <1>8, <1>9, <1>10 DEF EInv

\* A word of the first packet goes out.
LEMMA FirstChanges ==
  ASSUME EInv, sent # <<>>, sent' = [sent EXCEPT ![1].left = sent[1].left - 1]
  PROVE  Alike(sent, sent')
<1> DEFINE e == sent[1].left - 1
<1>1. sent \in Seq(PacketRec) /\ sent[1] \in PacketRec
  BY DEF EInv, Typed
<1>2. e \in Int
  BY <1>1 DEF PacketRec
<1> HIDE DEF e
<1>3. Alike(sent, [sent EXCEPT ![1].left = e])
  BY <1>1, <1>2, LeftChanges
<1> QED
  BY <1>3 DEF e

LEMMA SendKeeps == ASSUME EInv, Send PROVE EInv'
<1>1. /\ sent # <<>>
      /\ sent' \in {Tail(sent), [sent EXCEPT ![1].left = sent[1].left - 1]}
      /\ UNCHANGED <<frame, left, rx, params, asked, half, begun, narrow, skip, tx, draft, due>>
  BY DEF Send, rxVars, coreVars
<1>2. sent \in Seq(PacketRec)
  BY DEF EInv, Typed
<1>3. sent' \in Seq(PacketRec) /\ AnswersTheAsker'
  <2>1. CASE sent' = Tail(sent)
    <3>1. /\ sent' \in Seq(PacketRec) /\ Len(sent') = Len(sent) - 1 /\ Len(sent) \in Nat
          /\ \A i \in 1..Len(sent) - 1 : sent'[i] = sent[i + 1]
      BY <1>1, <1>2, <2>1, TailIs
    <3> QED
      BY <3>1 DEF EInv, AnswersTheAsker
  <2>2. CASE sent' = [sent EXCEPT ![1].left = sent[1].left - 1]
    BY <1>1, <2>2, FirstChanges, AlikeAnswers DEF Alike
  <2> QED
    BY <1>1, <2>1, <2>2
<1>4. Typed'
  BY <1>1, <1>3 DEF EInv, Typed
<1>5. TxWell' /\ Handed' /\ Received'
  BY <1>1 DEF EInv, TxWell, Drafting, Handed, Drafted, Closing, Bit, Fits, Received
<1>6. InOrder'
  BY <1>1, SameOrder
<1>7. Headed'
  BY <1>1 DEF EInv, Headed, Past, Drafted, Closing, Fits
<1> QED
  BY <1>3, <1>4, <1>5, <1>6, <1>7 DEF EInv

-----------------------------------------------------------------------------
(* The theorem.                                                            *)

\* A step of the port
LEMMA Keeps == ASSUME Mixed = FALSE, EInv, [Next]_vars PROVE EInv'
<1>1. ASSUME NEW f \in Frames, StartFrame(f) PROVE EInv'
  BY <1>1, StartKeeps
<1>2. CASE Receive
  <2>1. ASSUME ReceivePiece PROVE EInv'
    BY <2>1, StbKeeps, PieceKeeps
  <2> QED
    BY <1>2, <2>1, EthernetKeeps, IpKeeps, UdpKeeps, EndKeeps DEF Receive
<1>3. CASE Core
  BY <1>3, CoreSkipsKeeps, CoreBeginsKeeps, CoreKeeps DEF Core
<1>4. CASE Transmit
  BY <1>4, LatchKeeps, DraftHeadersKeeps, PushEthernetKeeps, PushIpKeeps, PushUdpKeeps,
     PushRuntKeeps, PushKeeps, DoneKeeps, WaitKeeps, TakePieceKeeps, PayloadEndsKeeps, SkipKeeps,
     CommitFullKeeps, LowerKeeps DEF Transmit
<1>5. CASE UNCHANGED vars
  <2>1. UNCHANGED <<frame, left, rx, params, asked, half, begun, narrow, skip, tx, draft, sent, due>>
    BY <1>5 DEF vars, rxVars, coreVars, txVars
  <2>2. Typed' /\ AnswersTheAsker'
    BY <2>1 DEF EInv, Typed, AnswersTheAsker
  <2>3. TxWell' /\ Handed' /\ Headed' /\ Received'
    BY <2>1, SameBeside, SameTx
  <2>4. InOrder'
    BY <2>1, SameOrder
  <2> QED
    BY <2>2, <2>3, <2>4 DEF EInv
<1> QED
  BY <1>1, <1>2, <1>3, <1>4, <1>5, SendKeeps DEF Next

\* MAC, IP, port and length of a packet are those of the frame whose words it answers,
\* whatever the fabric brings and however long the core, the fabric and the FIFO of packets
\* take (eb_eth_rx, eb_eth_tx), as long as a frame of another host does not begin while
\* r_stb of eb_eth_rx still holds a return address (Mixed = FALSE; EbEthernetMixed.cfg
\* shows what happens otherwise).
THEOREM AnswersReachTheAsker ==
  ASSUME Mixed = FALSE
  PROVE  Spec => []AnswersTheAsker
<1>1. EInv /\ [Next]_vars => EInv'
  BY Keeps
<1>2. EInv => AnswersTheAsker
  BY DEF EInv
<1> QED
  BY <1>1, <1>2, Starts, PTL DEF Spec

-----------------------------------------------------------------------------
(* Lengths.  AsLongAsStated needs the words of a frame to be counted from  *)
(* the pieces that eb_eth_rx lets through to those that eb_eth_tx puts     *)
(* into the packet; on the way they stand in the queue of the core and in  *)
(* the two registers of eb_stream_narrow.                                  *)

\* The pieces of frame f that the core is to answer when n of them have come: whole words,
\* and none behind the stated length.
Whole(f, n) == IF n >= f.length THEN f.length ELSE n - (n % 2)
Came        == frame.pieces - left
Coming      == IF begun THEN frame ELSE NoFrame
Took        == IF begun THEN Whole(frame, Came) ELSE 0

\* A frame with at least one word behind the Etherbone header.
Sound(f) == f.length >= 4 /\ f.length <= MaxPieces /\ f.length % 2 = 0

\* From behind position a on, the queue holds what is missing of frame f when got pieces of
\* it are there: all its words and the end of the frame, or the words that have come by now
\* of the frame coming in.
Run(words, a, r) == a + r <= Len(words) /\ \A i \in a + 1..a + r : words[i] = "word"
Supplied(words, a, f, got, coming, took) ==
  \E r \in 0..Len(words) - a :
     /\ Run(words, a, r)
     /\ IF a + r = Len(words) THEN f = coming /\ got + 2 * r = took
        ELSE words[a + r + 1] = "drop" /\ got + 2 * r = Whole(f, f.pieces)

Supplies(place, words, frames, n, coming, took) ==
  \A k \in 1..Len(frames) - n :
     ~frames[n + k].silent => Supplied(words, place[k], frames[n + k], 2, coming, took)

\* eb_eth_rx counts down to the last piece, which it lets through in S_DROP.
Counted ==
  /\ rx.state \in {"ETHERNET", "IP", "UDP"} /\ frame # NoFrame => left = frame.pieces
  /\ rx.pass => Sound(frame)
  /\ rx.state = "WAIT" /\ rx.next = "STB" => Came = 0
  /\ rx.state = "STB" => Came = 1
  /\ rx.state = "WAIT" /\ rx.next = "DROP" =>
       /\ rx.count \in 1..IndexMod - 1 /\ Came + rx.count = frame.length - 1
       /\ half <=> (Came % 2 = 1)
  /\ rx.state = "DROP" /\ rx.pass => half /\ Came = frame.length - 1
  /\ rx.state = "DROP" /\ ~rx.pass /\ begun => Came >= frame.length

\* The frames on their way, and the one being answered.
Expected(words, frames, n, coming, took) ==
  \E place \in [1..Len(frames) - n -> 1..Len(words)] :
     Placed(place, words, frames, n) /\ Supplies(place, words, frames, n, coming, took)
ToCome == Expected(asked, due, Decided, Coming, Took)
Got == (IF Closing THEN 0 ELSE draft.payload) + narrow.pieces
Fed ==
  narrow.cyc =>
    IF narrow.drop
    THEN Got = Whole(due[Bit(Closing) + 1], due[Bit(Closing) + 1].pieces)
    ELSE Supplied(asked, 0, due[Bit(Closing) + 1], Got, Coming, Took)

\* The draft; r_count of eb_eth_tx is what is missing to the shortest frame.
Admitted == \A i \in 1..Len(due) : Sound(due[i])
Bare == ~Closing => draft.pad = 0 /\ (tx.state # "PAYLOAD" => draft.payload = 0)
Filled == Closing => draft.payload = Whole(due[1], due[1].pieces)
Padded ==
  /\ tx.state \in {"WAIT", "PAYLOAD"} =>
       IF draft.length < RuntPieces
       THEN tx.next = "RUNT" /\ tx.count = RuntPieces - draft.length - 1
       ELSE tx.next = "LOWER"
  /\ tx.state = "RUNT" =>
       draft.pad = 0 /\ tx.count \in 0..CountMod /\ draft.length + tx.count + 1 >= RuntPieces
  /\ tx.state = "PUSH" /\ tx.next = "LOWER" =>
       tx.count \in 0..CountMod /\ draft.length + draft.pad + tx.count >= RuntPieces
  /\ tx.state = "LOWER" => draft.length + draft.pad >= RuntPieces

LInv == Counted /\ ToCome /\ Fed /\ Admitted /\ Bare /\ Filled /\ Padded /\ AsLongAsStated

\* The counters are wide enough for the longest payload and the longest padding, and no
\* frame is just the Etherbone header (its count of pieces would wrap).
WideEnough ==
  /\ MaxPieces < IndexMod + 3 /\ RuntPieces - 4 <= CountMod
  /\ \A f \in Frames : f.length # 2

-----------------------------------------------------------------------------
(* What is supplied.                                                       *)

LEMMA Before ==
  ASSUME NEW l \in Nat, NEW a \in 0..l, NEW r \in 0..l - a, a + r # l
  PROVE  a + r + 1 \in 1..l /\ (a + r >= 1 => (a - 1) + r + 1 = a + r /\ a + r \in 1..l - 1)
  OBVIOUS

LEMMA RunTail ==
  ASSUME NEW words \in Seq(Words), words # <<>>, NEW a \in 1..Len(words), NEW r \in Nat,
         Run(words, a, r)
  PROVE  Run(Tail(words), a - 1, r)
<1>1. /\ Len(Tail(words)) = Len(words) - 1 /\ Len(words) \in Nat
      /\ \A i \in 1..Len(words) - 1 : Tail(words)[i] = words[i + 1]
  BY TailIs
<1>2. a + r <= Len(words) /\ \A i \in a + 1..a + r : words[i] = "word"
  BY DEF Run
<1>3. ASSUME NEW i \in (a - 1) + 1..(a - 1) + r PROVE Tail(words)[i] = "word"
  <2>1. i + 1 \in a + 1..a + r /\ i \in 1..Len(words) - 1
    BY <1>1, <1>2
  <2> QED
    BY <1>1, <1>2, <2>1
<1>4. (a - 1) + r <= Len(Tail(words))
  BY <1>1, <1>2
<1> QED
  BY <1>3, <1>4 DEF Run

\* A word is taken out, before those of the frame.
LEMMA SuppliedTail ==
  ASSUME NEW words \in Seq(Words), words # <<>>, NEW a \in 1..Len(words), NEW f, NEW got,
         NEW coming, NEW took, Supplied(words, a, f, got, coming, took)
  PROVE  Supplied(Tail(words), a - 1, f, got, coming, took)
<1>1. /\ Len(Tail(words)) = Len(words) - 1 /\ Len(words) \in Nat
      /\ \A i \in 1..Len(words) - 1 : Tail(words)[i] = words[i + 1]
  BY TailIs
<1>2. PICK r \in 0..Len(words) - a :
         /\ Run(words, a, r)
         /\ IF a + r = Len(words) THEN f = coming /\ got + 2 * r = took
            ELSE words[a + r + 1] = "drop" /\ got + 2 * r = Whole(f, f.pieces)
  BY DEF Supplied
<1>0. r \in Nat /\ a \in Nat
  BY <1>1
<1>3. Run(Tail(words), a - 1, r)
  BY <1>0, <1>2, RunTail
<1>4. /\ r \in 0..Len(Tail(words)) - (a - 1)
      /\ (a - 1) + r = Len(Tail(words)) <=> a + r = Len(words)
  BY <1>1
<1>5. ASSUME a + r # Len(words) PROVE Tail(words)[(a - 1) + r + 1] = words[a + r + 1]
  <2>1. (a - 1) + r + 1 = a + r /\ a + r \in 1..Len(words) - 1
    <3>1. a \in 0..Len(words) /\ a + r >= 1
      BY <1>0, <1>1
    <3> QED
      BY <1>1, <1>5, <3>1, Before
  <2> QED
    BY <1>1, <2>1
<1> QED
  BY <1>2, <1>3, <1>4, <1>5 DEF Supplied

\* A word of the frame is taken out, or its end.
LEMMA SuppliedHead ==
  ASSUME NEW words \in Seq(Words), words # <<>>, NEW f, NEW got \in Int,
         NEW coming, NEW took, Supplied(words, 0, f, got, coming, took)
  PROVE  /\ Head(words) \notin Tokens
         /\ Head(words) = "word" => Supplied(Tail(words), 0, f, got + 2, coming, took)
         /\ Head(words) = "drop" => got = Whole(f, f.pieces)
<1>1. /\ Len(Tail(words)) = Len(words) - 1 /\ Len(words) \in Nat \ {0}
      /\ \A i \in 1..Len(words) - 1 : Tail(words)[i] = words[i + 1]
      /\ Head(words) = words[1]
  BY TailIs
<1>2. PICK r \in 0..Len(words) - 0 :
         /\ Run(words, 0, r)
         /\ IF 0 + r = Len(words) THEN f = coming /\ got + 2 * r = took
            ELSE words[0 + r + 1] = "drop" /\ got + 2 * r = Whole(f, f.pieces)
  BY DEF Supplied
<1>3. CASE r = 0
  <2>1. words[1] = "drop" /\ got = Whole(f, f.pieces)
    BY <1>1, <1>2, <1>3
  <2> QED
    BY <1>1, <2>1 DEF Tokens
<1>4. CASE r # 0
  <2>1. r \in Nat /\ r >= 1 /\ r <= Len(words) /\ 0 + r = r
    BY <1>1, <1>4
  <2>2. words[1] = "word"
    BY <1>2, <2>1 DEF Run
  <2>3. Run(Tail(words), 0, r - 1)
    <3>1. ASSUME NEW i \in 0 + 1..0 + (r - 1) PROVE Tail(words)[i] = "word"
      <4>1. i + 1 \in 0 + 1..0 + r /\ i \in 1..Len(words) - 1
        BY <1>1, <2>1
      <4> QED
        BY <1>1, <1>2, <4>1 DEF Run
    <3>2. 0 + (r - 1) <= Len(Tail(words))
      BY <1>1, <2>1
    <3> QED
      BY <3>1, <3>2 DEF Run
  <2>4. /\ r - 1 \in 0..Len(Tail(words)) - 0
        /\ 0 + (r - 1) = Len(Tail(words)) <=> 0 + r = Len(words)
        /\ (got + 2) + 2 * (r - 1) = got + 2 * r
    BY <1>1, <2>1
  <2>5. ASSUME 0 + r # Len(words) PROVE Tail(words)[0 + (r - 1) + 1] = words[0 + r + 1]
    <3>1. 0 + (r - 1) + 1 = r /\ 0 + r + 1 = r + 1
      BY ONLY <2>1
    <3>2. r \in 1..Len(words) - 1
      <4>1. 0 \in 0..Len(words) /\ Len(words) \in Nat /\ r \in 0..Len(words) - 0 /\ 0 + r >= 1
        BY <1>1, <2>1
      <4> QED
        BY ONLY <2>5, <4>1, 0 + r = r, Before
    <3>3. Tail(words)[r] = words[r + 1]
      BY <1>1, <3>2
    <3> QED
      BY <3>1, <3>3
  <2>6. Supplied(Tail(words), 0, f, got + 2, coming, took)
    BY <1>2, <2>3, <2>4, <2>5 DEF Supplied
  <2> QED
    BY <1>1, <2>2, <2>6 DEF Tokens
<1> QED
  BY <1>3, <1>4

LEMMA RunAppend ==
  ASSUME NEW words \in Seq(Words), NEW w \in Words, NEW a \in 0..Len(words), NEW r \in Nat,
         Run(words, a, r)
  PROVE  Run(Append(words, w), a, r)
<1>1. /\ Len(Append(words, w)) = Len(words) + 1 /\ Len(words) \in Nat
      /\ \A i \in 1..Len(words) : Append(words, w)[i] = words[i]
  BY AppendIs
<1> QED
  BY <1>1 DEF Run

\* A word of the frame coming in is taken in.
LEMMA SuppliedWord ==
  ASSUME NEW words \in Seq(Words), NEW a \in 0..Len(words), NEW f, NEW got \in Int,
         NEW coming, NEW took \in Int, Supplied(words, a, f, got, coming, took)
  PROVE  Supplied(Append(words, "word"), a, f, got, coming, took + 2)
<1> DEFINE more == Append(words, "word")
<1>0. "word" \in Words
  BY DEF Words
<1>1. /\ Len(more) = Len(words) + 1 /\ Len(words) \in Nat
      /\ (\A i \in 1..Len(words) : more[i] = words[i]) /\ more[Len(words) + 1] = "word"
  BY <1>0, AppendIs
<1>2. PICK r \in 0..Len(words) - a :
         /\ Run(words, a, r)
         /\ IF a + r = Len(words) THEN f = coming /\ got + 2 * r = took
            ELSE words[a + r + 1] = "drop" /\ got + 2 * r = Whole(f, f.pieces)
  BY DEF Supplied
<1>3. Run(more, a, r)
  BY <1>0, <1>2, RunAppend
<1> HIDE DEF more
<1>4. CASE a + r = Len(words)
  <2>1. Run(more, a, r + 1)
    <3>1. \A i \in a + 1..a + (r + 1) : i \in a + 1..a + r \/ i = Len(words) + 1
      BY <1>1, <1>4
    <3> QED
      BY <1>1, <1>3, <1>4, <3>1 DEF Run
  <2>2. /\ r + 1 \in 0..Len(more) - a /\ a + (r + 1) = Len(more)
        /\ got + 2 * (r + 1) = took + 2 /\ f = coming
    BY <1>1, <1>2, <1>4
  <2>3. Supplied(more, a, f, got, coming, took + 2)
    BY <2>1, <2>2 DEF Supplied
  <2> QED
    BY <2>3 DEF more
<1>5. CASE a + r # Len(words)
  <2>1. a + r + 1 \in 1..Len(words) /\ r \in 0..Len(more) - a /\ a + r # Len(more)
    BY <1>1, <1>5
  <2>2. more[a + r + 1] = "drop"
    BY <1>1, <1>2, <1>5, <2>1
  <2>3. Supplied(more, a, f, got, coming, took + 2)
    BY <1>2, <1>3, <1>5, <2>1, <2>2 DEF Supplied
  <2> QED
    BY <2>3 DEF more
<1> QED
  BY <1>4, <1>5

\* The frame coming in ends.
LEMMA SuppliedDrop ==
  ASSUME NEW words \in Seq(Words), NEW a \in 0..Len(words), NEW f, NEW got \in Int,
         NEW coming, NEW took, NEW later, NEW any, Supplied(words, a, f, got, coming, took),
         f = coming => took = Whole(f, f.pieces)
  PROVE  Supplied(Append(words, "drop"), a, f, got, later, any)
<1> DEFINE more == Append(words, "drop")
<1>0. "drop" \in Words
  BY DEF Words
<1>1. /\ Len(more) = Len(words) + 1 /\ Len(words) \in Nat
      /\ (\A i \in 1..Len(words) : more[i] = words[i]) /\ more[Len(words) + 1] = "drop"
  BY <1>0, AppendIs
<1>2. PICK r \in 0..Len(words) - a :
         /\ Run(words, a, r)
         /\ IF a + r = Len(words) THEN f = coming /\ got + 2 * r = took
            ELSE words[a + r + 1] = "drop" /\ got + 2 * r = Whole(f, f.pieces)
  BY DEF Supplied
<1>3. Run(more, a, r)
  BY <1>0, <1>2, RunAppend
<1> HIDE DEF more
<1>4. r \in 0..Len(more) - a /\ a + r # Len(more) /\ a + r + 1 \in 1..Len(more)
  BY <1>1
<1>5. more[a + r + 1] = "drop" /\ got + 2 * r = Whole(f, f.pieces)
  <2>1. CASE a + r = Len(words)
    BY <1>1, <1>2, <2>1
  <2>2. CASE a + r # Len(words)
    <3>1. a + r + 1 \in 1..Len(words)
      BY <1>1, <2>2
    <3> QED
      BY <1>1, <1>2, <2>2, <3>1
  <2> QED
    BY <2>1, <2>2
<1>6. Supplied(more, a, f, got, later, any)
  BY <1>3, <1>4, <1>5 DEF Supplied
<1> QED
  BY <1>6 DEF more

\* Another frame begins, when this one has come completely.
LEMMA SuppliedFirst ==
  ASSUME NEW words \in Seq(Words), NEW a \in 0..Len(words), NEW f, NEW got,
         NEW w \in Words, NEW coming, NEW took, NEW later, NEW any,
         Supplied(words, a, f, got, coming, took), f # coming
  PROVE  Supplied(Append(words, w), a, f, got, later, any)
<1> DEFINE more == Append(words, w)
<1>1. /\ Len(more) = Len(words) + 1 /\ Len(words) \in Nat
      /\ (\A i \in 1..Len(words) : more[i] = words[i])
  BY AppendIs
<1>2. PICK r \in 0..Len(words) - a :
         /\ Run(words, a, r)
         /\ IF a + r = Len(words) THEN f = coming /\ got + 2 * r = took
            ELSE words[a + r + 1] = "drop" /\ got + 2 * r = Whole(f, f.pieces)
  BY DEF Supplied
<1>3. Run(more, a, r)
  BY <1>2, RunAppend
<1> HIDE DEF more
<1>4. /\ a + r # Len(words) /\ r \in 0..Len(more) - a /\ a + r # Len(more)
      /\ a + r + 1 \in 1..Len(words)
  BY <1>1, <1>2
<1>5. more[a + r + 1] = "drop" /\ got + 2 * r = Whole(f, f.pieces)
  BY <1>1, <1>2, <1>4
<1>6. Supplied(more, a, f, got, later, any)
  BY <1>3, <1>4, <1>5 DEF Supplied
<1> QED
  BY <1>6 DEF more

\* The first word of a frame is taken in.
LEMMA SuppliedNew ==
  ASSUME NEW words \in Seq(Words), NEW w \in Words, NEW f
  PROVE  Supplied(Append(words, w), Len(words) + 1, f, 2, f, 2)
<1> DEFINE more == Append(words, w)
           a == Len(words) + 1
<1>1. Len(more) = a /\ a \in Nat
  BY AppendIs
<1> HIDE DEF more, a
<1>2. /\ 0 \in 0..Len(more) - a /\ a + 0 = Len(more) /\ a + 1..a + 0 = {}
      /\ 2 + 2 * 0 = 2
  BY <1>1
<1>3. Run(more, a, 0)
  BY <1>1, <1>2 DEF Run
<1>4. Supplied(more, a, f, 2, f, 2)
  BY <1>2, <1>3 DEF Supplied
<1> QED
  BY <1>4 DEF more, a

LEMMA ExpectedMeans ==
  ASSUME NEW place, NEW words, NEW frames, NEW n, NEW coming, NEW took,
         Placed(place, words, frames, n), Supplies(place, words, frames, n, coming, took)
  PROVE  Expected(words, frames, n, coming, took)
BY DEF Placed, Expected

LEMMA ExpectedPlace ==
  ASSUME NEW words \in Seq(Words), NEW frames \in Seq(Frames), NEW n \in 0..Len(frames),
         NEW place, Placed(place, words, frames, n), NEW k \in 1..Len(frames) - n
  PROVE  /\ place[k] \in 1..Len(words) /\ place[k] \in 0..Len(words)
         /\ frames[n + k] \in Frames /\ words[place[k]] = Kind(frames[n + k])
<1>1. place[k] \in 1..Len(words) /\ words[place[k]] = Kind(frames[n + k])
  BY DEF Placed
<1>2. n + k \in 1..Len(frames)
  OBVIOUS
<1> QED
  BY <1>1, <1>2

\* The core takes out a word, or the first of a frame.
LEMMA ExpectedAnswers ==
  ASSUME NEW words \in Seq(Words), NEW frames \in Seq(Frames), NEW n \in 0..Len(frames),
         NEW coming, NEW took, Expected(words, frames, n, coming, took),
         words # <<>>, Head(words) \notin Tokens
  PROVE  Expected(Tail(words), frames, n, coming, took)
<1> DEFINE m == Len(frames) - n
<1>1. PICK place : /\ Placed(place, words, frames, n)
                   /\ Supplies(place, words, frames, n, coming, took)
  BY DEF Expected
<1> DEFINE q == Earlier(place, m)
<1>2. Placed(q, Tail(words), frames, n)
  BY <1>1, AnswersPlaced
<1>3. ASSUME NEW k \in 1..m, ~frames[n + k].silent
      PROVE  Supplied(Tail(words), q[k], frames[n + k], 2, coming, took)
  <2>1. place[k] \in 1..Len(words) /\ q[k] = place[k] - 1
    BY <1>1, ExpectedPlace DEF Earlier
  <2>2. Supplied(words, place[k], frames[n + k], 2, coming, took)
    BY <1>1, <1>3 DEF Supplies
  <2> QED
    BY <2>1, <2>2, SuppliedTail
<1>4. Supplies(q, Tail(words), frames, n, coming, took)
  BY <1>3 DEF Supplies
<1> QED
  BY <1>2, <1>4, ExpectedMeans

LEMMA ExpectedDecides ==
  ASSUME NEW words \in Seq(Words), NEW frames \in Seq(Frames), NEW n \in 0..Len(frames),
         NEW coming, NEW took, Expected(words, frames, n, coming, took),
         words # <<>>, Head(words) \in Tokens
  PROVE  /\ Expected(Tail(words), frames, n + 1, coming, took)
         /\ ~frames[n + 1].silent => Supplied(Tail(words), 0, frames[n + 1], 2, coming, took)
<1> DEFINE m == Len(frames) - (n + 1)
<1>1. PICK place : /\ Placed(place, words, frames, n)
                   /\ Supplies(place, words, frames, n, coming, took)
  BY DEF Expected
<1> DEFINE q == Later(place, m)
<1>2. /\ Placed(q, Tail(words), frames, n + 1) /\ place[1] = 1 /\ n + 1 <= Len(frames)
  BY <1>1, DecidesPlaced
<1>3. 1 \in 1..Len(words) /\ 1 \in 1..Len(frames) - n /\ 1 - 1 = 0
  BY <1>2, TailIs
<1>4. ~frames[n + 1].silent => Supplied(Tail(words), 0, frames[n + 1], 2, coming, took)
  <2>1. ~frames[n + 1].silent => Supplied(words, 1, frames[n + 1], 2, coming, took)
    BY <1>1, <1>2, <1>3 DEF Supplies
  <2> QED
    BY <1>3, <2>1, SuppliedTail
<1>5. ASSUME NEW k \in 1..m, ~frames[(n + 1) + k].silent
      PROVE  Supplied(Tail(words), q[k], frames[(n + 1) + k], 2, coming, took)
  <2>1. k + 1 \in 1..Len(frames) - n /\ n + (k + 1) = (n + 1) + k
    OBVIOUS
  <2>2. place[k + 1] \in 1..Len(words) /\ q[k] = place[k + 1] - 1
    BY <1>1, <2>1, ExpectedPlace DEF Later
  <2>3. Supplied(words, place[k + 1], frames[(n + 1) + k], 2, coming, took)
    <3>1. ~frames[n + (k + 1)].silent
      BY <1>5, <2>1
    <3>2. Supplied(words, place[k + 1], frames[n + (k + 1)], 2, coming, took)
      BY <1>1, <2>1, <3>1 DEF Supplies
    <3> QED
      BY <2>1, <3>2
  <2> QED
    BY <2>2, <2>3, SuppliedTail
<1>6. Supplies(q, Tail(words), frames, n + 1, coming, took)
  BY <1>5 DEF Supplies
<1> QED
  BY <1>2, <1>4, <1>6, ExpectedMeans

\* A word is taken in, or the end of a frame.
LEMMA ExpectedWord ==
  ASSUME NEW words \in Seq(Words), NEW frames \in Seq(Frames), NEW n \in 0..Len(frames),
         NEW coming, NEW took \in Int, Expected(words, frames, n, coming, took)
  PROVE  Expected(Append(words, "word"), frames, n, coming, took + 2)
<1>1. PICK place : /\ Placed(place, words, frames, n)
                   /\ Supplies(place, words, frames, n, coming, took)
  BY DEF Expected
<1>2. "word" \in Words /\ "word" \notin Tokens
  BY DEF Words, Tokens
<1>3. Placed(place, Append(words, "word"), frames, n)
  BY <1>1, <1>2, TakesWordPlaced
<1>4. ASSUME NEW k \in 1..Len(frames) - n, ~frames[n + k].silent
      PROVE  Supplied(Append(words, "word"), place[k], frames[n + k], 2, coming, took + 2)
  <2>1. place[k] \in 0..Len(words)
    BY <1>1, ExpectedPlace
  <2>2. Supplied(words, place[k], frames[n + k], 2, coming, took)
    BY <1>1, <1>4 DEF Supplies
  <2> QED
    BY <2>1, <2>2, SuppliedWord
<1>5. Supplies(place, Append(words, "word"), frames, n, coming, took + 2)
  BY <1>4 DEF Supplies
<1> QED
  BY <1>3, <1>5, ExpectedMeans

LEMMA ExpectedDrop ==
  ASSUME NEW words \in Seq(Words), NEW frames \in Seq(Frames), NEW n \in 0..Len(frames),
         NEW coming, NEW took, NEW later, NEW any, Expected(words, frames, n, coming, took),
         coming \in Frames => took = Whole(coming, coming.pieces)
  PROVE  Expected(Append(words, "drop"), frames, n, later, any)
<1>1. PICK place : /\ Placed(place, words, frames, n)
                   /\ Supplies(place, words, frames, n, coming, took)
  BY DEF Expected
<1>2. "drop" \in Words /\ "drop" \notin Tokens
  BY DEF Words, Tokens
<1>3. Placed(place, Append(words, "drop"), frames, n)
  BY <1>1, <1>2, TakesWordPlaced
<1>4. ASSUME NEW k \in 1..Len(frames) - n, ~frames[n + k].silent
      PROVE  Supplied(Append(words, "drop"), place[k], frames[n + k], 2, later, any)
  <2>1. place[k] \in 0..Len(words) /\ frames[n + k] \in Frames
    BY <1>1, ExpectedPlace
  <2>2. Supplied(words, place[k], frames[n + k], 2, coming, took)
    BY <1>1, <1>4 DEF Supplies
  <2> QED
    BY <2>1, <2>2, SuppliedDrop
<1>5. Supplies(place, Append(words, "drop"), frames, n, later, any)
  BY <1>4 DEF Supplies
<1> QED
  BY <1>3, <1>5, ExpectedMeans

\* The first word of a frame is taken in.
LEMMA ExpectedFirst ==
  ASSUME NEW words \in Seq(Words), NEW frames \in Seq(Frames), NEW n \in 0..Len(frames),
         NEW coming, NEW took, Expected(words, frames, n, coming, took), coming \notin Frames,
         NEW f \in Frames
  PROVE  Expected(Append(words, Kind(f)), Append(frames, f), n, f, 2)
<1> DEFINE m == Len(frames) - n
           more == Append(words, Kind(f))
           all == Append(frames, f)
<1>1. PICK place : /\ Placed(place, words, frames, n)
                   /\ Supplies(place, words, frames, n, coming, took)
  BY DEF Expected
<1> DEFINE q == Longer(place, m, Len(words))
<1>2. Placed(q, more, all, n)
  BY <1>1, TakesFramePlaced
<1>3. Kind(f) \in Words
  BY KindIs DEF Words
<1>4. /\ Len(all) = Len(frames) + 1 /\ Len(frames) \in Nat /\ all[Len(frames) + 1] = f
      /\ \A i \in 1..Len(frames) : all[i] = frames[i]
  BY AppendIs
<1>5. ASSUME NEW k \in 1..Len(all) - n, ~all[n + k].silent
      PROVE  Supplied(more, q[k], all[n + k], 2, f, 2)
  <2>1. CASE k = m + 1
    <3>1. n + k = Len(frames) + 1
      BY <2>1
    <3>2. q[k] = Len(words) + 1
      BY <1>4, <2>1 DEF Longer
    <3>3. all[n + k] = f
      BY <1>4, <3>1
    <3> QED
      BY <1>3, <3>2, <3>3, SuppliedNew
  <2>2. CASE k # m + 1
    <3>1. k \in 1..m /\ n + k \in 1..Len(frames) /\ k \in 1..m + 1
      BY <1>4, <2>2
    <3>2. q[k] = place[k] /\ all[n + k] = frames[n + k]
      BY <1>4, <2>2, <3>1 DEF Longer
    <3>3. place[k] \in 0..Len(words) /\ frames[n + k] \in Frames
      BY <1>1, <3>1, ExpectedPlace
    <3>4. Supplied(words, place[k], frames[n + k], 2, coming, took)
      BY <1>1, <1>5, <3>1, <3>2 DEF Supplies
    <3>5. Supplied(more, place[k], frames[n + k], 2, f, 2)
      BY <1>3, <3>3, <3>4, SuppliedFirst
    <3> QED
      BY <3>2, <3>5
  <2> QED
    BY <2>1, <2>2
<1> HIDE DEF q, more, all
<1>6. Supplies(q, more, all, n, f, 2)
  BY <1>5 DEF Supplies
<1>7. Expected(more, all, n, f, 2)
  BY <1>2, <1>6, ExpectedMeans
<1> QED
  BY <1>7 DEF more, all

\* The oldest frame is done with.
LEMMA ExpectedFinishes ==
  ASSUME NEW words \in Seq(Words), NEW frames \in Seq(Frames), NEW n \in 1..Len(frames),
         NEW coming, NEW took, Expected(words, frames, n, coming, took)
  PROVE  Expected(words, Tail(frames), n - 1, coming, took)
<1>1. PICK place : /\ Placed(place, words, frames, n)
                   /\ Supplies(place, words, frames, n, coming, took)
  BY DEF Expected
<1>2. Placed(place, words, Tail(frames), n - 1)
  BY <1>1, FinishesPlaced
<1>3. /\ frames # <<>> /\ Len(Tail(frames)) = Len(frames) - 1 /\ Len(frames) \in Nat
      /\ \A i \in 1..Len(frames) - 1 : Tail(frames)[i] = frames[i + 1]
  BY TailIs
<1>4. ASSUME NEW k \in 1..Len(Tail(frames)) - (n - 1)
      PROVE  k \in 1..Len(frames) - n /\ Tail(frames)[(n - 1) + k] = frames[n + k]
  <2>1. k \in 1..Len(frames) - n /\ (n - 1) + k \in 1..Len(frames) - 1 /\ (n - 1) + k + 1 = n + k
    BY <1>3
  <2> QED
    BY <1>3, <2>1
<1>5. Supplies(place, words, Tail(frames), n - 1, coming, took)
  BY <1>1, <1>4 DEF Supplies
<1> QED
  BY <1>2, <1>5, ExpectedMeans

-----------------------------------------------------------------------------
(* The steps of eb_eth_rx.                                                 *)

LEMMA FrameValues ==
  /\ NoFrame \notin Frames /\ MaxPieces \in Nat
  /\ \A f \in Frames : f.length \in Nat /\ f.pieces \in Nat
BY EthernetAssumption DEF IsFrame

LEMMA WholeStep ==
  ASSUME NEW f \in Frames, Sound(f), NEW n \in Int, n + 1 <= f.length
  PROVE  Whole(f, n + 1) = IF n % 2 = 1 THEN Whole(f, n) + 2 ELSE Whole(f, n)
<1>1. f.length \in Nat /\ f.length % 2 = 0
  BY FrameValues DEF Sound
<1>2. n % 2 \in {0, 1} /\ (n % 2 = 1 <=> (n + 1) % 2 = 0) /\ (n % 2 = 0 <=> (n + 1) % 2 = 1)
  OBVIOUS
<1>3. n + 1 >= f.length => n + 1 = f.length
  BY <1>1
<1>4. ~(n >= f.length)
  BY <1>1
<1> QED
  BY <1>1, <1>2, <1>3, <1>4 DEF Whole

LEMMA WholeIsInt == ASSUME NEW f \in Frames, NEW n \in Int PROVE Whole(f, n) \in Int
  BY FrameValues DEF Whole

LEMMA TookIsInt == ASSUME EInv PROVE Took \in Int /\ Coming \in Frames \cup {NoFrame}
<1>1. CASE begun
  <2>1. frame \in Frames
    BY <1>1 DEF EInv, Typed, Received
  <2>2. Came \in Int
    BY <2>1, FrameValues DEF Came, EInv, Typed
  <2> QED
    BY <1>1, <2>1, <2>2, WholeIsInt DEF Took, Coming
<1>2. CASE ~begun
  BY <1>2 DEF Took, Coming
<1> QED
  BY <1>1, <1>2

LEMMA LStarts == Init => LInv
<1> SUFFICES ASSUME Init PROVE LInv
  OBVIOUS
<1>1. Counted
  BY DEF Init, Counted
<1>2. ToCome
  <2> DEFINE place == [k \in 1..0 |-> k]
  <2>1. Decided = 0 /\ Len(due) - 0 = 0 /\ Len(asked) = 0 /\ 1..0 = {}
    BY DEF Init, Decided, Closing, Bit
  <2>2. place \in [1..0 -> 1..0]
    BY <2>1
  <2> HIDE DEF place
  <2>3. Placed(place, asked, due, Decided)
    BY <2>1, <2>2 DEF Placed
  <2>4. Supplies(place, asked, due, Decided, Coming, Took)
    BY <2>1 DEF Supplies
  <2> QED
    BY <2>3, <2>4, ExpectedMeans DEF ToCome
<1>3. Fed /\ Admitted
  BY DEF Init, Fed, Admitted
<1>4. Bare /\ Filled /\ Padded
  BY DEF Init, NoDraft, Bare, Filled, Padded, Closing
<1>5. AsLongAsStated
  BY DEF Init, AsLongAsStated
<1> QED
  BY <1>1, <1>2, <1>3, <1>4, <1>5 DEF LInv

\* What eb_eth_rx does leaves the packets and the draft.
LEMMA SameDraft ==
  ASSUME EInv, LInv, UNCHANGED <<narrow, skip, tx, draft, sent>>, Closing => due'[1] = due[1]
  PROVE  /\ Bare' /\ Filled' /\ Padded' /\ AsLongAsStated'
         /\ (Closing' <=> Closing) /\ Decided' = Decided /\ Got' = Got
<1>1. Closing' <=> Closing
  BY DEF Closing
<1>2. Bare' /\ Filled' /\ Padded' /\ AsLongAsStated'
  BY <1>1 DEF LInv, Bare, Filled, Padded, AsLongAsStated
<1>3. Decided' = Decided /\ Got' = Got
  BY <1>1 DEF Decided, Bit, Got
<1> QED
  BY <1>1, <1>2, <1>3

\* No word is taken in.
LEMMA SameQueue ==
  ASSUME EInv, LInv, UNCHANGED <<narrow, skip, tx, draft, sent, asked, due>>,
         Coming' = Coming, Took' = Took, Counted'
  PROVE  LInv'
<1>1. /\ Bare' /\ Filled' /\ Padded' /\ AsLongAsStated'
      /\ (Closing' <=> Closing) /\ Decided' = Decided /\ Got' = Got
  BY SameDraft
<1>2. ToCome'
  BY <1>1 DEF LInv, ToCome
<1>3. Fed'
  BY <1>1 DEF LInv, Fed, Bit
<1>4. Admitted'
  BY DEF LInv, Admitted
<1> QED
  BY <1>1, <1>2, <1>3, <1>4 DEF LInv

\* The frame being answered is one of those in the queue of return addresses.
LEMMA Answered ==
  ASSUME EInv
  PROVE  /\ asked \in Seq(Words) /\ due \in Seq(Frames) /\ Decided \in 0..Len(due)
         /\ narrow \in NarrowRec /\ draft \in DraftRec /\ tx \in TxRec /\ Got \in Int
         /\ Closing => 1 \in 1..Len(due) /\ due[1] \in Frames
         /\ narrow.cyc => /\ Bit(Closing) + 1 \in 1..Len(due)
                          /\ due[Bit(Closing) + 1] \in Frames
<1>1. /\ asked \in Seq(Words) /\ due \in Seq(Frames) /\ narrow \in NarrowRec
      /\ draft \in DraftRec /\ tx \in TxRec
  BY DEF EInv, Typed
<1>2. Decided \in 0..Len(due) /\ Len(due) \in Nat
  BY <1>1 DEF EInv, InOrder, Decided, Bit
<1>3. Got \in Int
  BY <1>1 DEF Got, NarrowRec, DraftRec
<1>4. Closing => 1 \in 1..Len(due)
  BY <1>2 DEF Decided, Bit
<1>5. narrow.cyc => Bit(Closing) + 1 \in 1..Len(due)
  BY <1>2 DEF Decided, Bit
<1> QED
  BY <1>1, <1>2, <1>3, <1>4, <1>5

LEMMA StartCounts ==
  ASSUME EInv, LInv, NEW f \in Frames, StartFrame(f)
  PROVE  LInv'
<1>1. /\ frame = NoFrame /\ frame' = f /\ left' = f.pieces
      /\ rx' = [rx EXCEPT !.state = IF f.ours THEN "ETHERNET" ELSE "DROP"]
      /\ UNCHANGED <<params, asked, half, begun, narrow, skip, tx, draft, sent, due>>
  BY DEF StartFrame, Goto, coreVars, txVars
<1>2. rx.state = "ETHERNET" /\ ~rx.pass /\ ~begun /\ rx \in RxRec
  BY <1>1 DEF EInv, Received, Typed
<1>3. rx'.state \in {"ETHERNET", "DROP"} /\ ~rx'.pass
  BY <1>1, <1>2 DEF RxRec
<1>4. Counted'
  BY <1>1, <1>2, <1>3 DEF Counted
<1>5. Coming' = Coming /\ Took' = Took
  BY <1>1, <1>2 DEF Coming, Took
<1> QED
  BY <1>1, <1>4, <1>5, SameQueue

\* The headers
LEMMA HeadersCount ==
  ASSUME WideEnough, EInv, LInv, ReceiveEthernet \/ ReceiveIp \/ ReceiveUdp
  PROVE  LInv'
<1>1. /\ rx.state \in {"ETHERNET", "IP", "UDP"} /\ frame # NoFrame
      /\ UNCHANGED <<frame, left, asked, half, begun, narrow, skip, tx, draft, sent, due>>
  BY DEF ReceiveEthernet, ReceiveIp, ReceiveUdp, ReceiveUdp_Early, coreVars, txVars, EInv, Received
<1>2. ~rx.pass /\ ~begun /\ rx \in RxRec /\ frame \in Frames /\ left = frame.pieces
  BY <1>1 DEF EInv, Received, Typed, LInv, Counted
<1>3. \/ rx'.state \in {"IP", "UDP", "DROP"} /\ ~rx'.pass
      \/ rx'.state = "WAIT" /\ rx'.next = "STB" /\ Acceptable(frame)
  <2>1. ASSUME NEW s \in {"IP", "UDP", "DROP"}, rx' = Goto(s)
        PROVE  rx'.state \in {"IP", "UDP", "DROP"} /\ ~rx'.pass
    BY <1>2, <2>1 DEF Goto, RxRec
  <2> QED
    BY <2>1 DEF ReceiveEthernet, ReceiveIp, ReceiveUdp, ReceiveUdp_Early
<1>4. Acceptable(frame) => Sound(frame)
  <2>1. frame.length \in Nat /\ frame.length # 2
    BY <1>2, FrameValues DEF WideEnough
  <2> QED
    BY <2>1 DEF Acceptable, Sound
<1>5. Came = 0 /\ Came' = Came
  BY <1>1, <1>2, FrameValues DEF Came
<1>6. Counted'
  BY <1>1, <1>2, <1>3, <1>4, <1>5 DEF Counted
<1>7. Coming' = Coming /\ Took' = Took
  BY <1>1, <1>2 DEF Coming, Took
<1> QED
  BY <1>1, <1>6, <1>7, SameQueue

LEMMA SmallIndex == ASSUME NEW i \in 0..IndexMod - 1 PROVE i % IndexMod = i
<1>1. IndexMod \in Nat \ {0}
  BY Values
<1> QED
  BY <1>1

LEMMA PieceCounts ==
  ASSUME EInv, ReceivePiece
  PROVE  /\ rx.state = "WAIT" => rx'.count = (rx.count - 1) % IndexMod
         /\ rx.state = "STB" => rx'.count = (frame.length - 3) % IndexMod
         /\ left \in Int /\ Came \in Int /\ Came' = Came + 1
<1>1. rx' = AfterPiece /\ left' = left - 1 /\ frame' = frame
  BY DEF ReceivePiece
<1>2. rx \in RxRec /\ left \in Int /\ frame \in Frames
  BY PieceIs DEF EInv, Typed
<1>3. Came \in Int /\ Came' = Came + 1
  BY <1>1, <1>2, FrameValues DEF Came
<1>4. ASSUME rx.state = "WAIT" PROVE rx'.count = (rx.count - 1) % IndexMod
  <2> DEFINE c == (rx.count - 1) % IndexMod
  <2>1. rx' = [rx EXCEPT !.state = IF rx.count = 1 THEN rx.next ELSE "WAIT", !.count = c]
    BY <1>1, <1>4 DEF AfterPiece, Count
  <2> HIDE DEF c
  <2>2. rx'.count = c
    BY <1>2, <2>1 DEF RxRec
  <2> QED
    BY <2>2 DEF c
<1>5. ASSUME rx.state = "STB" PROVE rx'.count = (frame.length - 3) % IndexMod
  <2> DEFINE c == (frame.length - 3) % IndexMod
  <2>1. rx' = [rx EXCEPT !.state = "WAIT", !.next = "DROP", !.count = c]
    BY <1>1, <1>5 DEF AfterPiece, Count
  <2> HIDE DEF c
  <2>2. rx'.count = c
    BY <1>2, <2>1 DEF RxRec
  <2> QED
    BY <2>2 DEF c
<1> QED
  BY <1>2, <1>3, <1>4, <1>5

LEMMA PieceMoves ==
  ASSUME EInv, ReceivePiece, rx.state = "WAIT"
  PROVE  /\ rx.count = 1 => rx'.state = rx.next
         /\ rx.count # 1 => rx'.state = "WAIT"
         /\ rx'.next = rx.next /\ (rx'.pass <=> rx.pass)
<1>1. /\ rx'.state = IF rx.count = 1 THEN rx.next ELSE "WAIT"
      /\ rx'.next = rx.next /\ rx'.pass = rx.pass
  BY PieceIs
<1> QED
  BY <1>1

\* The first word of a frame
LEMMA FirstCounts ==
  ASSUME WideEnough, EInv, LInv, ReceivePiece, rx.state = "STB"
  PROVE  LInv'
<1>1. rx.pass /\ half /\ ~begun /\ frame \in Frames
  BY PieceIs DEF EInv, Received
<1>2. /\ half' = FALSE /\ begun' = TRUE
      /\ asked' = Append(asked, Kind(frame)) /\ due' = Append(due, frame)
  BY <1>1 DEF ReceivePiece, CoreTakes, Kind
<1>3. /\ Sound(frame) /\ frame.length \in Nat /\ Came = 1
  BY <1>1, FrameValues DEF LInv, Counted
<1>4. Came' = 2 /\ frame' = frame /\ UNCHANGED <<narrow, skip, tx, draft, sent>>
  BY <1>3, PieceIs, PieceCounts
<1>5. Counted'
  <2>1. rx'.state = "WAIT" /\ rx'.next = "DROP"
    BY PieceIs
  <2>2. frame.length - 3 \in 1..IndexMod - 1
    BY <1>3, FrameValues, Values DEF Sound, WideEnough
  <2>3. rx'.count = frame.length - 3
    <3>1. frame.length - 3 \in 0..IndexMod - 1
      BY <2>2, Values
    <3> QED
      BY <3>1, PieceCounts, SmallIndex
  <2>4. Came' + rx'.count = frame.length - 1 /\ Came' % 2 = 0
    BY <1>3, <1>4, <2>3
  <2> QED
    BY <1>2, <1>3, <1>4, <2>1, <2>2, <2>3, <2>4 DEF Counted
<1>6. Coming' = frame /\ Took' = 2 /\ Coming \notin Frames
  <2>1. Whole(frame, 2) = 2
    BY <1>3 DEF Whole, Sound
  <2> QED
    BY <1>1, <1>2, <1>4, <2>1, FrameValues DEF Coming, Took
<1>7. /\ asked \in Seq(Words) /\ due \in Seq(Frames) /\ Decided \in 0..Len(due)
      /\ Kind(frame) \in Words
  BY Answered, KindIs DEF Words
<1>8. \A i \in 1..Len(due) : due'[i] = due[i]
  BY <1>1, <1>2, <1>7, AppendIs
<1>9. /\ Bare' /\ Filled' /\ Padded' /\ AsLongAsStated'
      /\ (Closing' <=> Closing) /\ Decided' = Decided /\ Got' = Got
  BY <1>4, <1>8, Answered, SameDraft
<1>10. ToCome'
  <2>1. Expected(Append(asked, Kind(frame)), Append(due, frame), Decided, frame, 2)
    BY <1>1, <1>6, <1>7, ExpectedFirst DEF LInv, ToCome
  <2> QED
    BY <1>2, <1>6, <1>9, <2>1 DEF ToCome
<1>11. Fed'
  <2>1. SUFFICES ASSUME narrow.cyc
                 PROVE  IF narrow.drop
                        THEN Got = Whole(due[Bit(Closing) + 1], due[Bit(Closing) + 1].pieces)
                        ELSE Supplied(asked', 0, due[Bit(Closing) + 1], Got, Coming', Took')
    <3>1. narrow.cyc => due'[Bit(Closing) + 1] = due[Bit(Closing) + 1]
      BY <1>8, Answered
    <3> QED
      BY <1>4, <1>9, <3>1 DEF Fed, Bit
  <2>2. CASE narrow.drop
    BY <2>1, <2>2 DEF LInv, Fed
  <2>3. CASE ~narrow.drop
    <3>1. /\ Supplied(asked, 0, due[Bit(Closing) + 1], Got, Coming, Took)
          /\ due[Bit(Closing) + 1] \in Frames
      BY <2>1, <2>3, Answered DEF LInv, Fed
    <3>2. 0 \in 0..Len(asked)
      BY <1>7
    <3>3. Supplied(Append(asked, Kind(frame)), 0, due[Bit(Closing) + 1], Got, frame, 2)
      BY <1>6, <1>7, <3>1, <3>2, SuppliedFirst
    <3> QED
      BY <1>2, <1>6, <2>3, <3>3
  <2> QED
    BY <2>2, <2>3
<1>12. Admitted'
  <2>1. /\ Len(due') = Len(due) + 1 /\ due'[Len(due) + 1] = frame /\ Len(due) \in Nat
    BY <1>1, <1>2, <1>7, AppendIs
  <2>2. \A i \in 1..Len(due') : i \in 1..Len(due) \/ i = Len(due) + 1
    BY <2>1
  <2> QED
    BY <1>3, <1>8, <2>1, <2>2 DEF LInv, Admitted
<1> QED
  BY <1>5, <1>9, <1>10, <1>11, <1>12 DEF LInv

\* A word is taken in, or the end of the frame: the one being answered may be this one.
LEMMA FedAppends ==
  ASSUME EInv, LInv, UNCHANGED <<narrow, skip, tx, draft, sent, due>>, Counted',
         \/ asked' = Append(asked, "word") /\ Coming' = Coming /\ Took' = Took + 2
         \/ asked' = Append(asked, "drop") /\ (Coming \in Frames => Took = Whole(Coming, Coming.pieces))
  PROVE  LInv'
<1>1. /\ asked \in Seq(Words) /\ due \in Seq(Frames) /\ Decided \in 0..Len(due) /\ Got \in Int
      /\ Took \in Int /\ 0 \in 0..Len(asked)
  BY Answered, TookIsInt
<1>2. /\ Bare' /\ Filled' /\ Padded' /\ AsLongAsStated'
      /\ (Closing' <=> Closing) /\ Decided' = Decided /\ Got' = Got
  BY SameDraft
<1>3. Admitted'
  BY DEF LInv, Admitted
<1>4. Expected(asked', due, Decided, Coming', Took')
  BY <1>1, ExpectedWord, ExpectedDrop DEF LInv, ToCome
<1>5. ToCome'
  BY <1>2, <1>4 DEF ToCome
<1>6. ASSUME NEW f \in Frames, Supplied(asked, 0, f, Got, Coming, Took)
      PROVE  Supplied(asked', 0, f, Got, Coming', Took')
  BY <1>1, <1>6, SuppliedWord, SuppliedDrop
<1>7. Fed'
  <2>1. narrow.cyc => due[Bit(Closing) + 1] \in Frames
    BY Answered
  <2> QED
    BY <1>2, <1>6, <2>1 DEF LInv, Fed, Bit
<1> QED
  BY <1>2, <1>3, <1>5, <1>7 DEF LInv

\* Another piece
LEMMA OtherCounts ==
  ASSUME WideEnough, EInv, LInv, ReceivePiece, rx.state # "STB"
  PROVE  LInv'
<1>1. /\ frame \in Frames /\ frame' = frame /\ UNCHANGED <<narrow, skip, tx, draft, sent>>
      /\ Came \in Int /\ Came' = Came + 1 /\ rx.state \in {"WAIT", "DROP"}
      /\ frame.length \in Nat
  BY PieceIs, PieceCounts, FrameValues
<1>2. CASE ~rx.pass
  <2>1. /\ rx.state = "DROP" /\ rx'.state = "DROP" /\ ~rx'.pass
        /\ UNCHANGED <<asked, half, begun, due>>
    BY <1>1, <1>2, PieceIs DEF ReceivePiece, EInv, Received
  <2>2. begun => Came >= frame.length /\ Came' >= frame.length
    BY <1>1, <1>2, <2>1 DEF LInv, Counted
  <2>3. Counted'
    BY <1>1, <2>1, <2>2 DEF Counted
  <2>4. Coming' = Coming /\ Took' = Took
    BY <1>1, <2>1, <2>2 DEF Coming, Took, Whole
  <2> QED
    BY <1>1, <2>1, <2>3, <2>4, SameQueue
<1>3. CASE rx.pass /\ rx.state = "WAIT" /\ rx.next = "STB"
  <2>1. ~half /\ ~begun /\ rx.count = 1 /\ Came = 0 /\ Sound(frame)
    BY <1>3 DEF EInv, Received, LInv, Counted
  <2>2. half' /\ UNCHANGED <<asked, begun, due>>
    BY <1>3, <2>1 DEF ReceivePiece, CoreTakes
  <2>3. rx'.state = "STB" /\ rx'.pass /\ Came' = 1
    BY <1>1, <1>3, <2>1, PieceMoves
  <2>4. Counted'
    BY <1>1, <2>1, <2>3 DEF Counted, Sound
  <2>5. Coming' = Coming /\ Took' = Took
    BY <1>1, <2>1, <2>2 DEF Coming, Took
  <2> QED
    BY <1>1, <2>2, <2>4, <2>5, SameQueue
<1>4. CASE rx.pass /\ ~(rx.state = "WAIT" /\ rx.next = "STB")
  <2>1. begun /\ Sound(frame) /\ (rx.state = "WAIT" => rx.next = "DROP")
    BY <1>1, <1>4 DEF EInv, Received, LInv, Counted
  <2>2. begun /\ Sound(frame) /\ Came + 1 <= frame.length /\ (half <=> Came % 2 = 1)
    <3>1. CASE rx.state = "WAIT"
      <4>1. rx.count \in 1..IndexMod - 1 /\ Came + rx.count = frame.length - 1 /\ (half <=> Came % 2 = 1)
        BY <1>4, <2>1, <3>1 DEF LInv, Counted
      <4> QED
        BY <1>1, <1>4, <2>1, <4>1, Values DEF LInv, Counted, EInv, Received
    <3>2. CASE rx.state = "DROP"
      <4>1. half /\ Came = frame.length - 1 /\ Sound(frame) /\ begun
        BY <1>4, <3>2 DEF LInv, Counted, EInv, Received
      <4>2. frame.length % 2 = 0
        BY <4>1 DEF Sound
      <4> QED
        BY <1>1, <4>1, <4>2
    <3> QED
      BY <1>1, <3>1, <3>2
  <2>3. CoreTakes
    BY <1>4 DEF ReceivePiece
  <2>4. begun' = begun /\ due' = due /\ half' = ~half /\ (IF half THEN asked' = Append(asked, "word") ELSE asked' = asked)
    BY <2>2, <2>3 DEF CoreTakes
  <2>5. Coming' = Coming /\ Took' = IF half THEN Took + 2 ELSE Took
    BY <1>1, <2>2, <2>4, WholeStep DEF Coming, Took
  <2>6. Counted'
    <3>1. CASE rx.state = "WAIT" /\ rx.count = 1
      <4>1. rx'.state = "DROP" /\ rx'.pass /\ Came' = frame.length - 1
        <5>1. rx'.state = "DROP" /\ rx'.pass
          BY <1>4, <2>1, <3>1, PieceMoves
        <5>2. Came + 1 = frame.length - 1
          BY <2>1, <3>1 DEF LInv, Counted
        <5> QED
          BY <1>1, <5>1, <5>2
      <4>2. half'
        <5>1. frame.length % 2 = 0 /\ Came = frame.length - 2
          BY <1>1, <2>2, <4>1 DEF Sound
        <5>2. Came % 2 # 1
          BY <1>1, <5>1
        <5> QED
          BY <2>2, <2>4, <5>2
      <4> QED
        BY <1>1, <2>2, <4>1, <4>2 DEF Counted, Sound
    <3>2. CASE rx.state = "WAIT" /\ rx.count # 1
      <4>1. /\ rx.count \in 1..IndexMod - 1 /\ Came + rx.count = frame.length - 1
            /\ rx'.state = "WAIT" /\ rx'.next = "DROP" /\ rx'.pass
            /\ rx'.count = (rx.count - 1) % IndexMod
        BY <1>4, <2>1, <3>2, PieceMoves, PieceCounts DEF LInv, Counted
      <4>2. rx.count - 1 \in 1..IndexMod - 1 /\ rx.count - 1 \in 0..IndexMod - 1
        BY <3>2, <4>1, Values
      <4>3. rx'.count = rx.count - 1
        BY <4>1, <4>2, SmallIndex
      <4>4. Came' + rx'.count = frame.length - 1
        BY <1>1, <4>1, <4>2, <4>3
      <4>5. half' <=> Came' % 2 = 1
        <5>1. Came % 2 = 1 <=> ~((Came + 1) % 2 = 1)
          BY <1>1
        <5> QED
          BY <1>1, <2>2, <2>4, <5>1
      <4> QED
        BY <1>1, <2>2, <4>1, <4>2, <4>3, <4>4, <4>5 DEF Counted, Sound
    <3>3. CASE rx.state = "DROP"
      <4>1. rx'.state = "DROP" /\ ~rx'.pass /\ Came' = frame.length
        BY <1>1, <1>4, <3>3, PieceIs DEF LInv, Counted
      <4> QED
        BY <1>1, <4>1 DEF Counted
    <3> QED
      BY <1>1, <3>1, <3>2, <3>3
  <2>7. CASE half
    BY <1>1, <2>4, <2>5, <2>6, <2>7, FedAppends
  <2>8. CASE ~half
    BY <1>1, <2>4, <2>5, <2>6, <2>8, SameQueue
  <2> QED
    BY <2>7, <2>8
<1> QED
  BY <1>1, <1>2, <1>3, <1>4

LEMMA EndCounts == ASSUME EInv, LInv, EndFrame PROVE LInv'
<1>1. /\ left = 0 /\ frame # NoFrame /\ frame' = NoFrame /\ half' = FALSE /\ begun' = FALSE
      /\ rx' = [rx EXCEPT !.state = "ETHERNET", !.pass = FALSE]
      /\ asked' = Append(asked, "drop")
      /\ UNCHANGED <<left, params, narrow, skip, tx, draft, sent, due>>
  BY DEF EndFrame, txVars
<1>2. rx \in RxRec /\ frame \in Frames
  BY <1>1 DEF EInv, Typed
<1>3. rx'.state = "ETHERNET" /\ ~rx'.pass
  BY <1>1, <1>2 DEF RxRec
<1>4. Counted'
  BY <1>1, <1>3 DEF Counted
<1>5. Coming \in Frames => Took = Whole(Coming, Coming.pieces)
  <2>1. Came = frame.pieces
    BY <1>1, <1>2, FrameValues DEF Came
  <2> QED
    BY <2>1, FrameValues DEF Coming, Took
<1> QED
  BY <1>1, <1>4, <1>5, FedAppends

-----------------------------------------------------------------------------
(* The steps of the core.                                                  *)

LEMMA CoreLeaves ==
  ASSUME EInv, LInv, NEW token, Answer(token)
  PROVE  /\ Counted' /\ Admitted' /\ Bare' /\ Filled' /\ Padded' /\ AsLongAsStated'
         /\ (Closing' <=> Closing) /\ Bit(Closing') = Bit(Closing)
         /\ Coming' = Coming /\ Took' = Took /\ due' = due /\ draft' = draft
<1>1. UNCHANGED <<frame, left, rx, params, half, begun, tx, draft, sent, due>>
  BY AnswerIs
<1>2. (Closing' <=> Closing) /\ Coming' = Coming /\ Took' = Took
  BY <1>1 DEF Closing, Coming, Took, Came
<1>3. Counted'
  BY <1>1 DEF LInv, Counted, Came
<1>4. Admitted' /\ Bare' /\ Filled' /\ Padded' /\ AsLongAsStated'
  BY <1>1, <1>2 DEF LInv, Admitted, Bare, Filled, Padded, AsLongAsStated
<1> QED
  BY <1>1, <1>2, <1>3, <1>4 DEF Bit

\* A decision: what was there of the frame being answered was all of it.
LEMMA DecisionCounts ==
  ASSUME EInv, LInv, CoreSkips \/ CoreBegins
  PROVE  LInv'
<1>1. PICK token \in Tokens : Answer(token)
  BY DEF CoreSkips, CoreBegins, Tokens
<1>2. /\ asked # <<>> /\ Head(asked) = token /\ ~skip /\ asked' = Tail(asked)
      /\ asked \in Seq(Words) /\ due \in Seq(Frames) /\ Decided \in 0..Len(due)
  BY <1>1, AnswerIs
<1>3. /\ Expected(asked', due, Decided + 1, Coming, Took)
      /\ ~due[Decided + 1].silent => Supplied(asked', 0, due[Decided + 1], 2, Coming, Took)
  BY <1>1, <1>2, ExpectedDecides DEF LInv, ToCome
<1>4. /\ Counted' /\ Admitted' /\ Bare' /\ Filled' /\ Padded' /\ AsLongAsStated'
      /\ (Closing' <=> Closing) /\ Bit(Closing') = Bit(Closing)
      /\ Coming' = Coming /\ Took' = Took /\ due' = due /\ draft' = draft
  BY <1>1, CoreLeaves
<1>5. CASE CoreSkips
  <2>1. skip' = TRUE /\ narrow' = narrow
    BY <1>5 DEF CoreSkips
  <2>2. Decided' = Decided + 1
    BY <1>2, <1>4, <2>1, Answered DEF Decided, Bit
  <2>3. narrow.cyc => narrow.drop
    BY <1>1, <1>2, Answered, SuppliedHead DEF LInv, Fed
  <2>4. Fed'
    BY <1>4, <2>1, <2>3 DEF LInv, Fed, Got
  <2>5. ToCome'
    BY <1>3, <1>4, <2>2 DEF ToCome
  <2> QED
    BY <1>4, <2>4, <2>5 DEF LInv
<1>6. CASE CoreBegins
  <2>1. /\ Answer("send") /\ ~narrow.cyc /\ skip' = skip
        /\ narrow' = [cyc |-> TRUE, pieces |-> 2, drop |-> FALSE]
    BY <1>6 DEF CoreBegins
  <2>2. Decided' = Decided + 1 /\ Decided = Bit(Closing)
    BY <1>2, <1>4, <2>1 DEF Decided, Bit
  <2>3. Got' = 2
    <3>1. ~Closing => draft.payload = 0
      BY <2>1 DEF LInv, Bare, EInv, TxWell
    <3> QED
      BY <1>4, <2>1, <3>1 DEF Got
  <2>4. ~due[Decided + 1].silent
    <3>1. "send" \in Tokens /\ Head(asked) = "send"
      BY <2>1 DEF Tokens, Answer
    <3>2. Kind(due[Decided + 1]) = "send"
      BY <1>2, <3>1, Decides DEF EInv, InOrder
    <3> QED
      BY <3>2 DEF Kind
  <2>5. Fed'
    BY <1>3, <1>4, <2>1, <2>2, <2>3, <2>4 DEF Fed
  <2>6. ToCome'
    BY <1>3, <1>4, <2>2 DEF ToCome
  <2> QED
    BY <1>4, <2>5, <2>6 DEF LInv
<1> QED
  BY <1>5, <1>6

\* A word that is handed out, or the end of a frame
LEMMA WordCounts ==
  ASSUME EInv, LInv, CoreAnswers \/ CoreEnds
  PROVE  LInv'
<1>1. PICK token \in {"word", "drop"} : Answer(token)
  BY DEF CoreAnswers, CoreEnds
<1>2. /\ asked # <<>> /\ Head(asked) = token /\ ~skip /\ asked' = Tail(asked)
      /\ asked \in Seq(Words) /\ due \in Seq(Frames) /\ Decided \in 0..Len(due)
      /\ token \notin Tokens /\ skip' = skip /\ narrow \in NarrowRec /\ Got \in Int
  BY <1>1, AnswerIs, Answered DEF Tokens, CoreAnswers, CoreEnds
<1>3. Expected(asked', due, Decided, Coming, Took)
  BY <1>2, ExpectedAnswers DEF LInv, ToCome
<1>4. /\ Counted' /\ Admitted' /\ Bare' /\ Filled' /\ Padded' /\ AsLongAsStated'
      /\ (Closing' <=> Closing) /\ Bit(Closing') = Bit(Closing)
      /\ Coming' = Coming /\ Took' = Took /\ due' = due /\ draft' = draft
  BY <1>1, CoreLeaves
<1>5. narrow' \in NarrowRec /\ narrow'.cyc = narrow.cyc /\ Fed'
  <2> DEFINE f == due[Bit(Closing) + 1]
  <2>1. CASE CoreAnswers
    <3>1. /\ Head(asked) = "word" /\ narrow.pieces = 0
          /\ narrow' = IF narrow.cyc /\ ~narrow.drop THEN [narrow EXCEPT !.pieces = 2] ELSE narrow
      BY <2>1 DEF CoreAnswers, Answer
    <3>2. CASE narrow.cyc /\ ~narrow.drop
      <4>1. /\ narrow' \in NarrowRec /\ narrow'.cyc = narrow.cyc /\ narrow'.pieces = 2
            /\ narrow'.drop = narrow.drop
        <5>1. narrow' = [narrow EXCEPT !.pieces = 2]
          BY <3>1, <3>2
        <5> QED
          BY <1>2, <5>1 DEF NarrowRec
      <4>2. Got' = Got + 2
        BY <1>2, <1>4, <3>1, <4>1, Answered DEF Got, DraftRec
      <4>3. Supplied(asked, 0, f, Got, Coming, Took)
        BY <3>2 DEF LInv, Fed
      <4>4. Supplied(asked', 0, f, Got + 2, Coming, Took)
        BY <1>2, <3>1, <4>3, SuppliedHead
      <4> QED
        BY <1>4, <3>2, <4>1, <4>2, <4>4 DEF Fed
    <3>3. CASE ~(narrow.cyc /\ ~narrow.drop)
      <4>1. narrow' = narrow
        BY <3>1, <3>3
      <4> QED
        BY <1>2, <1>4, <3>3, <4>1 DEF LInv, Fed, Got
    <3> QED
      BY <3>2, <3>3
  <2>2. CASE CoreEnds
    <3>1. Head(asked) = "drop" /\ narrow' = [narrow EXCEPT !.drop = narrow.drop \/ narrow.cyc]
      BY <2>2 DEF CoreEnds, Answer
    <3>2. /\ narrow' \in NarrowRec /\ narrow'.cyc = narrow.cyc /\ narrow'.pieces = narrow.pieces
          /\ narrow.cyc => narrow'.drop
      BY <1>2, <3>1 DEF NarrowRec
    <3>3. Got' = Got
      BY <1>4, <3>2 DEF Got
    <3>4. narrow.cyc => Got = Whole(f, f.pieces)
      BY <1>2, <3>1, SuppliedHead DEF LInv, Fed
    <3> QED
      BY <1>4, <3>2, <3>3, <3>4 DEF Fed
  <2> QED
    BY <2>1, <2>2
<1>6. Decided' = Decided
  BY <1>2, <1>4, <1>5 DEF Decided
<1>7. ToCome'
  BY <1>3, <1>4, <1>6 DEF ToCome
<1> QED
  BY <1>4, <1>5, <1>7 DEF LInv

-----------------------------------------------------------------------------
(* The steps of eb_eth_tx.                                                 *)

\* What the sender does leaves the words on their way.
LEMMA SameWords ==
  ASSUME EInv, LInv, UNCHANGED <<frame, left, rx, half, begun>>
  PROVE  Counted' /\ Coming' = Coming /\ Took' = Took
<1>1. Coming' = Coming /\ Took' = Took
  BY DEF Coming, Took, Came
<1> QED
  BY <1>1 DEF LInv, Counted, Came

\* A step that begins no packet and ends none
LEMMA SameAnswer ==
  ASSUME EInv, LInv, UNCHANGED <<frame, left, rx, asked, half, begun, skip, sent, due>>,
         narrow'.cyc = narrow.cyc, narrow'.drop = narrow.drop, Closing' <=> Closing, Got' = Got
  PROVE  Counted' /\ ToCome' /\ Fed' /\ Admitted' /\ AsLongAsStated'
<1>1. Counted' /\ Coming' = Coming /\ Took' = Took
  BY SameWords
<1>2. Decided' = Decided
  BY DEF Decided, Bit
<1>3. ToCome' /\ Fed'
  BY <1>1, <1>2 DEF LInv, ToCome, Fed, Bit
<1>4. Admitted' /\ AsLongAsStated'
  BY DEF LInv, Admitted, AsLongAsStated
<1> QED
  BY <1>1, <1>3, <1>4

\* Steps that take the return address, or write a header
LEMMA LatchCounts == ASSUME EInv, LInv, Latch PROVE LInv'
<1>1. /\ tx' = [tx EXCEPT !.ready = TRUE, !.mac = params.mac, !.ip = params.ip,
                          !.port = params.port, !.length = params.length]
      /\ UNCHANGED <<frame, left, rx, asked, half, begun, narrow, skip, draft, sent, due>>
  BY DEF Latch, coreVars
<1>2. tx \in TxRec
  BY Answered
<1>3. tx'.state = tx.state /\ tx'.next = tx.next /\ tx'.count = tx.count
  BY <1>1, <1>2 DEF TxRec
<1>4. (Closing' <=> Closing) /\ Got' = Got
  BY <1>1, <1>3 DEF Closing, Got
<1>5. Counted' /\ ToCome' /\ Fed' /\ Admitted' /\ AsLongAsStated'
  BY <1>1, <1>4, SameAnswer
<1>6. Bare' /\ Filled' /\ Padded'
  BY <1>1, <1>3, <1>4 DEF LInv, Bare, Filled, Padded
<1> QED
  BY <1>5, <1>6 DEF LInv

LEMMA DraftHeadersCounts == ASSUME EInv, LInv, DraftHeaders PROVE LInv'
<1>1. /\ tx.state = "WRF_STATUS"
      /\ tx' = [tx EXCEPT !.state = "ETHERNET"] /\ draft' = NoDraft
      /\ UNCHANGED <<frame, left, rx, asked, half, begun, narrow, skip, sent, due>>
  BY DEF DraftHeaders, TxOnly, rxVars, coreVars
<1>2. tx \in TxRec
  BY Answered
<1>3. tx'.state = "ETHERNET"
  BY <1>1, <1>2 DEF TxRec
<1>4. ~Closing /\ ~Closing' /\ draft.payload = 0 /\ draft'.payload = 0 /\ draft'.pad = 0
  BY <1>1, <1>3 DEF Closing, NoDraft, LInv, Bare
<1>5. Counted' /\ ToCome' /\ Fed' /\ Admitted' /\ AsLongAsStated'
  BY <1>1, <1>4, SameAnswer DEF Got
<1>6. Bare' /\ Filled' /\ Padded'
  BY <1>1, <1>3, <1>4 DEF Bare, Filled, Padded
<1> QED
  BY <1>5, <1>6 DEF LInv

\* A header: it has no payload and no padding.
LEMMA HeaderCounts ==
  ASSUME EInv, LInv, PushEthernet \/ PushIp \/ PushUdp
  PROVE  LInv'
<1>1. /\ tx.state \in {"ETHERNET", "IP", "UDP"}
      /\ tx'.state = "PUSH" /\ tx'.next \in {"IP", "UDP", "DONE"}
      /\ draft'.payload = draft.payload /\ draft'.pad = draft.pad
      /\ UNCHANGED <<frame, left, rx, asked, half, begun, narrow, skip, sent, due>>
  <2>1. tx \in TxRec /\ draft \in DraftRec
    BY Answered
  <2>2. /\ tx.state \in {"ETHERNET", "IP", "UDP"}
        /\ \E next \in {"IP", "UDP", "DONE"} : \E c :
              tx' = [tx EXCEPT !.state = "PUSH", !.next = next, !.count = c]
        /\ UNCHANGED <<frame, left, rx, asked, half, begun, narrow, skip, sent, due>>
    BY DEF PushEthernet, PushIp, PushUdp, Header, TxOnly, rxVars, coreVars
  <2>3. tx'.state = "PUSH" /\ tx'.next \in {"IP", "UDP", "DONE"}
    BY <2>1, <2>2 DEF TxRec
  <2>4. draft'.payload = draft.payload /\ draft'.pad = draft.pad
    <3> DEFINE w == draft.words + 1
    <3>1. \/ draft' = [draft EXCEPT !.words = w, !.mac = tx.mac]
          \/ draft' = [draft EXCEPT !.words = w, !.ip = tx.ip]
          \/ draft' = [draft EXCEPT !.words = w, !.port = tx.port, !.length = tx.length]
      BY DEF PushEthernet, PushIp, PushUdp, Header
    <3> HIDE DEF w
    <3> QED
      BY <2>1, <3>1 DEF DraftRec
  <2> QED
    BY <2>2, <2>3, <2>4
<1>2. ~Closing /\ ~Closing'
  BY <1>1 DEF Closing
<1>3. Counted' /\ ToCome' /\ Fed' /\ Admitted' /\ AsLongAsStated'
  BY <1>1, <1>2, SameAnswer DEF Got
<1>4. Bare' /\ Filled' /\ Padded'
  BY <1>1, <1>2 DEF LInv, Bare, Filled, Padded
<1> QED
  BY <1>3, <1>4 DEF LInv

\* The first word of padding
LEMMA PushRuntCounts == ASSUME EInv, LInv, PushRunt PROVE LInv'
<1> DEFINE w == draft.words + 1
           d == draft.pad + 1
           c == (tx.count + 1) - 1
<1>1. /\ tx.state = "RUNT"
      /\ tx' = [tx EXCEPT !.state = "PUSH", !.next = "LOWER", !.count = c]
      /\ draft' = [draft EXCEPT !.words = w, !.pad = d]
      /\ UNCHANGED <<frame, left, rx, asked, half, begun, narrow, skip, sent, due>>
  BY DEF PushRunt, Header, TxOnly, rxVars, coreVars
<1>2. tx \in TxRec /\ draft \in DraftRec /\ tx.count \in Int /\ draft.length \in Int
  <2>1. tx \in TxRec /\ draft \in DraftRec
    BY Answered
  <2> QED
    BY <2>1, Values DEF TxRec, DraftRec, Lengths
<1>3. c = tx.count
  BY <1>2
<1> HIDE DEF w, c
<1>4. tx'.state = "PUSH" /\ tx'.next = "LOWER" /\ tx'.count = tx.count
  BY <1>1, <1>2, <1>3 DEF TxRec
<1>5. draft'.payload = draft.payload /\ draft'.length = draft.length /\ draft'.pad = d
  BY <1>1, <1>2 DEF DraftRec
<1>6. /\ draft.pad = 0 /\ tx.count \in 0..CountMod
      /\ draft.length + tx.count + 1 >= RuntPieces
  BY <1>1 DEF LInv, Padded
<1>7. draft'.length + draft'.pad + tx'.count >= RuntPieces
  BY <1>2, <1>4, <1>5, <1>6, Values
<1>8. Closing /\ Closing'
  BY <1>1, <1>4 DEF Closing
<1>9. Counted' /\ ToCome' /\ Fed' /\ Admitted' /\ AsLongAsStated'
  BY <1>1, <1>8, SameAnswer DEF Got
<1>10. Bare' /\ Filled' /\ Padded'
  BY <1>1, <1>4, <1>5, <1>6, <1>7, <1>8 DEF LInv, Bare, Filled, Padded
<1> QED
  BY <1>9, <1>10 DEF LInv

LEMMA PushCounts == ASSUME EInv, LInv, Push PROVE LInv'
<1> DEFINE w == draft.words + 1
           d == IF tx.next = "LOWER" THEN draft.pad + 1 ELSE draft.pad
           c == (tx.count - 1) % CountMod
<1>1. /\ tx.state = "PUSH"
      /\ tx' = [tx EXCEPT !.state = IF tx.count = 1 THEN tx.next ELSE "PUSH", !.count = c]
      /\ draft' = [draft EXCEPT !.words = w, !.pad = d]
      /\ UNCHANGED <<frame, left, rx, asked, half, begun, narrow, skip, sent, due>>
  BY DEF Push, TxOnly, rxVars, coreVars
<1>2. /\ tx \in TxRec /\ draft \in DraftRec /\ tx.count \in Int /\ draft.length \in Int
      /\ draft.pad \in Int /\ tx.next \in {"IP", "UDP", "DONE", "LOWER"}
  <2>1. tx \in TxRec /\ draft \in DraftRec /\ tx.next \in {"IP", "UDP", "DONE", "LOWER"}
    BY <1>1, Answered DEF EInv, TxWell
  <2> QED
    BY <2>1, Values DEF TxRec, DraftRec, Lengths
<1> HIDE DEF w, d, c
<1>3. /\ tx.count = 1 => tx'.state = tx.next
      /\ tx.count # 1 => tx'.state = "PUSH"
      /\ tx'.next = tx.next /\ tx'.count = c
  BY <1>1, <1>2 DEF TxRec
<1>4. draft'.payload = draft.payload /\ draft'.length = draft.length /\ draft'.pad = d
  BY <1>1, <1>2 DEF DraftRec
<1>5. Closing' <=> Closing
  BY <1>1, <1>2, <1>3 DEF Closing
<1>6. Counted' /\ ToCome' /\ Fed' /\ Admitted' /\ AsLongAsStated'
  BY <1>1, <1>4, <1>5, SameAnswer DEF Got
<1>7. Filled'
  BY <1>1, <1>4, <1>5 DEF LInv, Filled
<1>8. CASE tx.next = "LOWER"
  <2>1. d = draft.pad + 1 /\ Closing
    BY <1>1, <1>8 DEF d, Closing
  <2>2. tx.count \in 0..CountMod /\ draft.length + draft.pad + tx.count >= RuntPieces
    BY <1>1, <1>8 DEF LInv, Padded
  <2>3. c \in 0..CountMod /\ c >= tx.count - 1
    <3>1. CountMod \in Nat \ {0}
      BY Values
    <3>2. CASE tx.count = 0
      BY <3>1, <3>2 DEF c
    <3>3. CASE tx.count # 0
      <4>1. tx.count - 1 \in 0..CountMod - 1
        BY <2>2, <3>1, <3>3
      <4> QED
        BY <3>1, <4>1 DEF c
    <3> QED
      BY <3>2, <3>3
  <2>4. draft'.length + draft'.pad + tx'.count >= RuntPieces
    BY <1>2, <1>3, <1>4, <2>1, <2>2, <2>3, Values
  <2>5. tx.count = 1 => draft'.length + draft'.pad >= RuntPieces
    BY <1>2, <1>4, <2>1, <2>2, Values
  <2>6. Bare'
    BY <1>5, <2>1 DEF Bare
  <2>7. Padded'
    BY <1>3, <1>8, <2>3, <2>4, <2>5 DEF Padded
  <2> QED
    BY <1>6, <1>7, <2>6, <2>7 DEF LInv
<1>9. CASE tx.next # "LOWER"
  <2>1. d = draft.pad /\ ~Closing
    BY <1>1, <1>9 DEF d, Closing
  <2>2. Bare'
    BY <1>1, <1>4, <1>5, <2>1 DEF LInv, Bare
  <2>3. Padded'
    BY <1>2, <1>3, <1>9 DEF Padded
  <2> QED
    BY <1>6, <1>7, <2>2, <2>3 DEF LInv
<1> QED
  BY <1>8, <1>9

\* The padding is settled from the stated length.
LEMMA DoneCounts == ASSUME EInv, LInv, Done PROVE LInv'
<1> DEFINE next == IF tx.length < RuntPieces THEN "RUNT" ELSE "LOWER"
           c == IF tx.length < RuntPieces THEN RuntPieces - tx.length - 1 ELSE 0
           w == draft.words + 1
<1>1. /\ tx.state = "DONE"
      /\ tx' = [tx EXCEPT !.ready = FALSE, !.state = Proceed, !.next = next, !.count = c]
      /\ draft' = [draft EXCEPT !.words = w]
      /\ UNCHANGED <<frame, left, rx, asked, half, begun, narrow, skip, sent, due>>
  BY DEF Done, TxOnly, rxVars, coreVars
<1>2. tx \in TxRec /\ draft \in DraftRec /\ draft.length = tx.length
  BY <1>1, Answered DEF EInv, Headed, Past
<1> HIDE DEF next, c, w
<1>3. /\ tx'.state = Proceed /\ tx'.next = next /\ tx'.count = c
      /\ Proceed \in {"PAYLOAD", "SKIP", "WAIT"}
  BY <1>1, <1>2 DEF TxRec, Proceed
<1>4. draft'.payload = draft.payload /\ draft'.length = draft.length /\ draft'.pad = draft.pad
  BY <1>1, <1>2 DEF DraftRec
<1>5. ~Closing /\ ~Closing'
  BY <1>1, <1>3 DEF Closing
<1>6. Counted' /\ ToCome' /\ Fed' /\ Admitted' /\ AsLongAsStated'
  BY <1>1, <1>4, <1>5, SameAnswer DEF Got
<1>7. Bare' /\ Filled'
  BY <1>1, <1>4, <1>5 DEF LInv, Bare, Filled
<1>8. Padded'
  BY <1>2, <1>3, <1>4 DEF Padded, next, c
<1> QED
  BY <1>6, <1>7, <1>8 DEF LInv

LEMMA WaitCounts == ASSUME EInv, LInv, Wait PROVE LInv'
<1>1. /\ tx.state = "WAIT" /\ Proceed # "WAIT" /\ draft' = draft
      /\ tx' = [tx EXCEPT !.state = Proceed]
      /\ UNCHANGED <<frame, left, rx, asked, half, begun, narrow, skip, sent, due>>
  BY DEF Wait, TxOnly, rxVars, coreVars
<1>2. tx \in TxRec
  BY Answered
<1>3. tx'.state \in {"PAYLOAD", "SKIP"} /\ tx'.next = tx.next /\ tx'.count = tx.count
  BY <1>1, <1>2 DEF TxRec, Proceed
<1>4. ~Closing /\ ~Closing'
  BY <1>1, <1>3 DEF Closing
<1>5. Counted' /\ ToCome' /\ Fed' /\ Admitted' /\ AsLongAsStated'
  BY <1>1, <1>4, SameAnswer DEF Got
<1>6. Bare' /\ Filled' /\ Padded'
  BY <1>1, <1>3, <1>4 DEF LInv, Bare, Filled, Padded
<1> QED
  BY <1>5, <1>6 DEF LInv

\* A piece goes from eb_stream_narrow into the packet.
LEMMA TakePieceCounts == ASSUME EInv, LInv, TakePiece PROVE LInv'
<1> DEFINE q == narrow.pieces - 1
           w == draft.words + 1
           l == draft.payload + 1
<1>1. /\ tx.state = "PAYLOAD"
      /\ narrow' = [narrow EXCEPT !.pieces = q]
      /\ draft' = [draft EXCEPT !.words = w, !.payload = l]
      /\ UNCHANGED <<frame, left, rx, asked, half, begun, skip, tx, sent, due>>
  BY DEF TakePiece, rxVars
<1>2. draft \in DraftRec /\ narrow \in NarrowRec /\ draft.payload \in Int /\ narrow.pieces \in Int
  BY Answered DEF DraftRec, NarrowRec
<1> HIDE DEF q, w, l
<1>3. narrow'.cyc = narrow.cyc /\ narrow'.drop = narrow.drop /\ narrow'.pieces = q
  BY <1>1, <1>2 DEF NarrowRec
<1>4. draft'.payload = l /\ draft'.length = draft.length /\ draft'.pad = draft.pad
  BY <1>1, <1>2 DEF DraftRec
<1>5. ~Closing /\ ~Closing'
  BY <1>1 DEF Closing
<1>6. Got' = Got
  BY <1>2, <1>3, <1>4, <1>5 DEF Got, q, l
<1>7. Counted' /\ ToCome' /\ Fed' /\ Admitted' /\ AsLongAsStated'
  BY <1>1, <1>3, <1>5, <1>6, SameAnswer
<1>8. Bare' /\ Filled' /\ Padded'
  BY <1>1, <1>4, <1>5 DEF LInv, Bare, Filled, Padded
<1> QED
  BY <1>7, <1>8 DEF LInv

\* The payload is complete.
LEMMA PayloadEndsCounts == ASSUME WideEnough, EInv, LInv, PayloadEnds PROVE LInv'
<1>1. /\ tx.state = "PAYLOAD" /\ narrow.drop /\ narrow.pieces = 0
      /\ narrow' = [narrow EXCEPT !.cyc = FALSE, !.drop = FALSE]
      /\ tx' = [tx EXCEPT !.state = tx.next]
      /\ UNCHANGED <<frame, left, rx, asked, half, begun, skip, draft, sent, due>>
  BY DEF PayloadEnds, rxVars
<1>2. /\ tx \in TxRec /\ draft \in DraftRec /\ narrow \in NarrowRec
      /\ tx.next \in {"RUNT", "LOWER"} /\ narrow.cyc
  BY <1>1, Answered DEF EInv, TxWell
<1>3. tx'.state = tx.next /\ tx'.next = tx.next /\ tx'.count = tx.count /\ ~narrow'.cyc
  BY <1>1, <1>2 DEF TxRec, NarrowRec
<1>4. ~Closing /\ Closing'
  BY <1>1, <1>2, <1>3 DEF Closing
<1>5. Counted' /\ Coming' = Coming /\ Took' = Took
  BY <1>1, SameWords
<1>6. Decided' = Decided
  BY <1>1, <1>2, <1>3, <1>4, Answered DEF Decided, Bit
<1>7. ToCome' /\ Fed' /\ Admitted' /\ AsLongAsStated' /\ Bare'
  BY <1>1, <1>3, <1>4, <1>5, <1>6
     DEF LInv, ToCome, Fed, Admitted, AsLongAsStated, Bare
<1>8. Bit(Closing) + 1 = 1 /\ due[1] \in Frames /\ 1 \in 1..Len(due)
  <2>1. Bit(Closing) + 1 = 1
    BY <1>4 DEF Bit
  <2> QED
    BY <1>2, <2>1, Answered
<1>9. Filled'
  <2>1. Got = draft.payload
    BY <1>1, <1>2, <1>4 DEF Got, DraftRec
  <2> QED
    BY <1>1, <1>2, <1>8, <2>1 DEF LInv, Fed, Filled
<1>10. Padded'
  <2>1. draft.length = due[1].length /\ Sound(due[1]) /\ due[1].length \in Nat
    BY <1>1, <1>8, FrameValues DEF EInv, Headed, Drafted, Fits, LInv, Admitted
  <2>2. draft.length >= 4 /\ draft.length \in Nat
    BY <2>1 DEF Sound
  <2>3. draft.pad = 0 /\ IF draft.length < RuntPieces
                         THEN tx.next = "RUNT" /\ tx.count = RuntPieces - draft.length - 1
                         ELSE tx.next = "LOWER"
    BY <1>1, <1>4 DEF LInv, Bare, Padded
  <2>4. RuntPieces - 4 <= CountMod /\ RuntPieces \in Nat /\ CountMod \in Nat
    BY Values DEF WideEnough
  <2>5. CASE draft.length < RuntPieces
    <3>1. tx.count \in 0..CountMod /\ draft.length + tx.count + 1 >= RuntPieces
      BY <2>2, <2>3, <2>4, <2>5
    <3> QED
      BY <1>1, <1>3, <2>3, <2>5, <3>1 DEF Padded
  <2>6. CASE ~(draft.length < RuntPieces)
    <3>1. draft.length + draft.pad >= RuntPieces
      BY <2>2, <2>3, <2>4, <2>6
    <3> QED
      BY <1>1, <1>3, <2>3, <2>6, <3>1 DEF Padded
  <2> QED
    BY <2>5, <2>6
<1> QED
  BY <1>5, <1>7, <1>9, <1>10 DEF LInv

\* The oldest frame is done with, answered or skipped.
LEMMA DueTail ==
  ASSUME EInv, LInv, due # <<>>, due' = Tail(due)
  PROVE  /\ Admitted' /\ Len(due) \in Nat \ {0}
         /\ \A i \in 1..Len(due) - 1 : due'[i] = due[i + 1]
<1>1. due \in Seq(Frames)
  BY Answered
<1>2. /\ Len(due') = Len(due) - 1 /\ Len(due) \in Nat \ {0}
      /\ \A i \in 1..Len(due) - 1 : due'[i] = due[i + 1]
  BY <1>1, TailIs
<1>3. \A i \in 1..Len(due') : i + 1 \in 1..Len(due) /\ due'[i] = due[i + 1]
  BY <1>2
<1> QED
  BY <1>2, <1>3 DEF LInv, Admitted

LEMMA SkipCounts == ASSUME EInv, LInv, Skip PROVE LInv'
<1>1. /\ tx.state = "SKIP" /\ tx' = [tx EXCEPT !.state = "WRF_STATUS"] /\ skip' = FALSE
      /\ draft' = NoDraft /\ due' = Tail(due)
      /\ UNCHANGED <<frame, left, rx, asked, half, begun, narrow, sent>>
  BY DEF Skip, rxVars
<1>2. tx \in TxRec /\ skip /\ ~narrow.cyc
  BY <1>1, Answered DEF EInv, TxWell
<1>3. tx'.state = "WRF_STATUS"
  BY <1>1, <1>2 DEF TxRec
<1>4. ~Closing /\ ~Closing' /\ draft'.payload = 0 /\ draft'.pad = 0
  BY <1>1, <1>3 DEF Closing, NoDraft
<1>5. Decided = 1 /\ Decided' = 0 /\ Decided \in 1..Len(due) /\ due # <<>>
  BY <1>1, <1>2, <1>4, Answered DEF Decided, Bit
<1>6. Counted' /\ Coming' = Coming /\ Took' = Took
  BY <1>1, SameWords
<1>7. ToCome'
  <2>1. Expected(asked, Tail(due), Decided - 1, Coming, Took)
    BY <1>5, Answered, ExpectedFinishes DEF LInv, ToCome
  <2> QED
    BY <1>1, <1>5, <1>6, <2>1 DEF ToCome
<1>8. Admitted'
  BY <1>1, <1>5, DueTail
<1>9. Fed' /\ AsLongAsStated' /\ Bare' /\ Filled' /\ Padded'
  BY <1>1, <1>2, <1>3, <1>4 DEF LInv, Fed, AsLongAsStated, Bare, Filled, Padded
<1> QED
  BY <1>6, <1>7, <1>8, <1>9 DEF LInv

\* What is committed has the length it states, and is no runt.
Long(p) ==
  /\ p.payload = IF p.asked.pieces >= p.length THEN p.length
                 ELSE p.asked.pieces - (p.asked.pieces % 2)
  /\ p.asked.pieces >= p.length => p.payload + p.pad >= RuntPieces

LEMMA PacketLong ==
  ASSUME EInv, LInv, tx.state = "LOWER", NEW n \in Int, NEW e \in BOOLEAN
  PROVE  Long(Packet(n, e))
<1>1. Closing /\ draft \in DraftRec
  BY Answered DEF Closing
<1>2. Head(due) = due[1] /\ due[1] \in Frames
  BY <1>1, Answered
<1>3. /\ Packet(n, e).asked = due[1] /\ Packet(n, e).length = draft.length
      /\ Packet(n, e).payload = draft.payload /\ Packet(n, e).pad = draft.pad
  BY <1>2 DEF Packet
<1>4. draft.length = due[1].length /\ draft.payload = Whole(due[1], due[1].pieces)
  BY <1>1 DEF EInv, Headed, Drafted, Fits, LInv, Filled
<1>5. draft.length + draft.pad >= RuntPieces
  BY DEF LInv, Padded
<1> QED
  BY <1>3, <1>4, <1>5 DEF Long, Whole

LEMMA CommitFullCounts == ASSUME EInv, LInv, CommitFull PROVE LInv'
<1> DEFINE p == Packet(draft.words, FALSE)
<1>1. /\ tx.state = "LOWER" /\ sent' = Append(sent, p)
      /\ draft' = [draft EXCEPT !.words = 0]
      /\ UNCHANGED <<frame, left, rx, asked, half, begun, narrow, skip, tx, due>>
  BY DEF CommitFull, rxVars, coreVars
<1>2. draft \in DraftRec /\ draft.words \in Int /\ sent \in Seq(PacketRec) /\ Closing
  BY <1>1, Answered DEF EInv, Typed, DraftRec, Closing
<1>3. p \in PacketRec /\ Long(p)
  BY <1>1, <1>2, PacketIs, PacketLong
<1> HIDE DEF p
<1>4. /\ Len(sent') = Len(sent) + 1 /\ Len(sent) \in Nat
      /\ (\A i \in 1..Len(sent) : sent'[i] = sent[i]) /\ sent'[Len(sent) + 1] = p
  BY <1>1, <1>2, <1>3, AppendIs
<1>5. AsLongAsStated'
  BY <1>3, <1>4 DEF LInv, AsLongAsStated, Long
<1>6. draft'.payload = draft.payload /\ draft'.length = draft.length /\ draft'.pad = draft.pad
  BY <1>1, <1>2 DEF DraftRec
<1>7. (Closing' <=> Closing) /\ Got' = Got /\ Decided' = Decided
  BY <1>1, <1>6 DEF Closing, Got, Decided
<1>8. Counted' /\ Coming' = Coming /\ Took' = Took
  BY <1>1, SameWords
<1>9. ToCome' /\ Fed' /\ Admitted'
  BY <1>1, <1>7, <1>8 DEF LInv, ToCome, Fed, Admitted, Bit
<1>10. Bare' /\ Filled' /\ Padded'
  BY <1>1, <1>6, <1>7 DEF LInv, Bare, Filled, Padded
<1> QED
  BY <1>5, <1>8, <1>9, <1>10 DEF LInv

LEMMA AlikeLong ==
  ASSUME EInv, LInv, Alike(sent, sent')
  PROVE  AsLongAsStated'
BY DEF LInv, EInv, Typed, Alike, AsLongAsStated

\* The answer is complete.
LEMMA LowerCounts == ASSUME EInv, LInv, Lower PROVE LInv'
<1>1. /\ tx.state = "LOWER" /\ tx' = [tx EXCEPT !.state = "WRF_STATUS"]
      /\ draft' = NoDraft /\ due' = Tail(due)
      /\ UNCHANGED <<frame, left, rx, asked, half, begun, narrow, skip>>
  BY DEF Lower, rxVars, coreVars
<1>2. /\ tx \in TxRec /\ draft \in DraftRec /\ draft.words + 1 \in Int
      /\ sent \in Seq(PacketRec) /\ Len(due) \in Nat
  BY Answered DEF EInv, Typed, DraftRec
<1>3. tx'.state = "WRF_STATUS"
  BY <1>1, <1>2 DEF TxRec
<1>4. Closing /\ ~Closing' /\ draft'.payload = 0 /\ draft'.pad = 0
  BY <1>1, <1>3 DEF Closing, NoDraft
<1>5. Decided' = Decided - 1 /\ Decided \in 1..Len(due) /\ due # <<>>
  BY <1>1, <1>2, <1>4, Answered DEF Decided, Bit
<1>6. Counted' /\ Coming' = Coming /\ Took' = Took
  BY <1>1, SameWords
<1>7. ToCome'
  <2>1. Expected(asked, Tail(due), Decided - 1, Coming, Took)
    BY <1>5, Answered, ExpectedFinishes DEF LInv, ToCome
  <2> QED
    BY <1>1, <1>5, <1>6, <2>1 DEF ToCome
<1>8. Admitted' /\ \A i \in 1..Len(due) - 1 : due'[i] = due[i + 1]
  BY <1>1, <1>5, DueTail
<1>9. Fed'
  <2>1. Got' = Got
    BY <1>1, <1>2, <1>4, Answered DEF Got, NarrowRec
  <2>2. narrow.cyc => due'[Bit(Closing') + 1] = due[Bit(Closing) + 1]
    <3>1. narrow.cyc => 1 \in 1..Len(due) - 1
      BY <1>2, <1>4, Answered DEF Bit
    <3> QED
      BY <1>4, <1>8, <3>1 DEF Bit
  <2> QED
    BY <1>1, <1>6, <2>1, <2>2 DEF LInv, Fed
<1>10. Bare' /\ Filled' /\ Padded'
  BY <1>3, <1>4 DEF Bare, Filled, Padded
<1>11. AsLongAsStated'
  <2>1. CASE draft.words > 0
    <3> DEFINE p == Packet(draft.words + 1, TRUE)
    <3>1. sent' = Append(sent, p)
      BY <2>1 DEF Lower
    <3>2. p \in PacketRec /\ Long(p)
      BY <1>1, <1>2, <1>4, PacketIs, PacketLong
    <3> HIDE DEF p
    <3>3. /\ Len(sent') = Len(sent) + 1 /\ Len(sent) \in Nat
          /\ (\A i \in 1..Len(sent) : sent'[i] = sent[i]) /\ sent'[Len(sent) + 1] = p
      BY <1>2, <3>1, <3>2, AppendIs
    <3> QED
      BY <3>2, <3>3 DEF LInv, AsLongAsStated, Long
  <2>2. CASE ~(draft.words > 0)
    BY <2>2, LastChanges, AlikeLong
  <2> QED
    BY <2>1, <2>2
<1> QED
  BY <1>6, <1>7, <1>8, <1>9, <1>10, <1>11 DEF LInv

\* The fabric takes a word.
LEMMA SendCounts == ASSUME EInv, LInv, Send PROVE LInv'
<1>1. /\ sent # <<>>
      /\ sent' \in {Tail(sent), [sent EXCEPT ![1].left = sent[1].left - 1]}
      /\ UNCHANGED <<frame, left, rx, asked, half, begun, narrow, skip, tx, draft, due>>
  BY DEF Send, rxVars, coreVars
<1>2. AsLongAsStated'
  <2>1. CASE sent' = Tail(sent)
    <3>1. /\ Len(sent') = Len(sent) - 1 /\ Len(sent) \in Nat
          /\ \A i \in 1..Len(sent) - 1 : sent'[i] = sent[i + 1]
      BY <1>1, <2>1, TailIs DEF EInv, Typed
    <3> QED
      BY <3>1 DEF LInv, AsLongAsStated
  <2>2. CASE sent' = [sent EXCEPT ![1].left = sent[1].left - 1]
    BY <1>1, <2>2, FirstChanges, AlikeLong
  <2> QED
    BY <1>1, <2>1, <2>2
<1>3. Counted' /\ Coming' = Coming /\ Took' = Took
  BY <1>1, SameWords
<1>4. (Closing' <=> Closing) /\ Got' = Got /\ Decided' = Decided
  BY <1>1 DEF Closing, Got, Decided
<1>5. ToCome' /\ Fed' /\ Admitted'
  BY <1>1, <1>3, <1>4 DEF LInv, ToCome, Fed, Admitted, Bit
<1>6. Bare' /\ Filled' /\ Padded'
  BY <1>1, <1>4 DEF LInv, Bare, Filled, Padded
<1> QED
  BY <1>2, <1>3, <1>5, <1>6 DEF LInv

-----------------------------------------------------------------------------
(* The second theorem.                                                     *)

LEMMA LengthsKeep == ASSUME WideEnough, EInv, LInv, [Next]_vars PROVE LInv'
<1>1. ASSUME NEW f \in Frames, StartFrame(f) PROVE LInv'
  BY <1>1, StartCounts
<1>2. CASE Receive
  <2>1. ASSUME ReceivePiece PROVE LInv'
    BY <2>1, FirstCounts, OtherCounts
  <2> QED
    BY <1>2, <2>1, HeadersCount, EndCounts DEF Receive
<1>3. CASE Core
  BY <1>3, DecisionCounts, WordCounts DEF Core
<1>4. CASE Transmit
  BY <1>4, LatchCounts, DraftHeadersCounts, HeaderCounts, PushRuntCounts, PushCounts, DoneCounts,
     WaitCounts, TakePieceCounts, PayloadEndsCounts, SkipCounts, CommitFullCounts, LowerCounts
     DEF Transmit
<1>5. CASE UNCHANGED vars
  <2>1. UNCHANGED <<frame, left, rx, asked, half, begun, narrow, skip, tx, draft, sent, due>>
    BY <1>5 DEF vars, rxVars, coreVars, txVars
  <2>2. Counted' /\ Coming' = Coming /\ Took' = Took
    BY <2>1, SameWords
  <2> QED
    BY <2>1, <2>2, SameQueue
<1> QED
  BY <1>1, <1>2, <1>3, <1>4, <1>5, SendCounts DEF Next

\* The payload of a packet is as long as the length that its headers were given before a word
\* of it had come, or as the whole words of a request that was cut short, and no packet of a
\* complete request is shorter than the shortest frame (r_count of eb_eth_rx and of
\* eb_eth_tx, S_PAYLOAD and S_RUNT): padding of the request is not answered, nothing of a
\* skipped request is left over.
THEOREM AnswersAreAsLongAsStated ==
  ASSUME Mixed = FALSE, WideEnough
  PROVE  Spec => []AsLongAsStated
<1>1. Init => EInv /\ LInv
  BY Starts, LStarts
<1>2. EInv /\ LInv /\ [Next]_vars => EInv' /\ LInv'
  BY Keeps, LengthsKeep
<1>3. LInv => AsLongAsStated
  BY DEF LInv
<1> QED
  BY <1>1, <1>2, <1>3, PTL DEF Spec
=============================================================================
