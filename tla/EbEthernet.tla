----------------------------- MODULE EbEthernet ----------------------------
(***************************************************************************)
(* The Etherbone slave behind an Ethernet port                             *)
(* (hdl/eb_slave_core/eb_ethernet_slave.vhd).  eb_eth_rx takes frames from *)
(* the White Rabbit fabric, hands their payload to the core and, beside    *)
(* it, the return address to eb_eth_tx.  eb_eth_tx drafts the headers of   *)
(* an answer before it knows whether there will be one; then it takes the  *)
(* words of the answer, or throws the draft away.                          *)
(*                                                                         *)
(* The core (eb_stream_widen, eb_slave_top) does here what EbSlaveCore     *)
(* shows: it answers word for word, in order, after any delay.  Nothing    *)
(* but handshakes ties the processes together, so a step is a clock edge   *)
(* of one of them.  A header is received in one step, with its last word:  *)
(* the others only fill r_shift.  Lengths count pieces of 16 bits.         *)
(***************************************************************************)
EXTENDS Integers, Sequences, SequencesExt

CONSTANTS
    Frames,      \* what the fabric may bring
    MaxPieces,   \* the longest payload that g_mtu allows
    RuntPieces,  \* the payload of the shortest frame (c_runt_min)
    EthWords, IpWords, UdpWords,  \* lengths of the headers
    IndexMod,    \* values of r_count of eb_eth_rx
    CountMod,    \* values of r_count of eb_eth_tx
    CoreDepth,   \* words that the core holds
    BufWords,    \* entries of the eb_commit_fifo of eb_eth_tx
    Mixed        \* TRUE: frames of two hosts may follow each other at once

NoFrame == [host |-> "none", port |-> "none", ours |-> FALSE, udp |-> FALSE,
            length |-> 0, pieces |-> 0, silent |-> FALSE]

(* A frame: tagged by the fabric as ours or not, UDP over IP or not, the   *)
(* length its UDP header states and the pieces that follow that header     *)
(* (more when padded, fewer when cut), and whether the core will skip it.  *)
IsFrame(f) ==
    /\ DOMAIN f = DOMAIN NoFrame /\ f # NoFrame
    /\ {f.ours, f.udp, f.silent} \subseteq BOOLEAN
    /\ f.length \in Nat /\ f.pieces \in 1..IndexMod-1

ASSUME EthernetAssumption ==
    /\ \A f \in Frames : IsFrame(f)
    /\ {MaxPieces, RuntPieces, IndexMod, CountMod, CoreDepth} \subseteq Nat \ {0}
    /\ \A n \in {EthWords, IpWords, UdpWords} : n \in 2..CountMod
    /\ \A n \in {MaxPieces, RuntPieces + CountMod} :
          BufWords >= 1 + EthWords + IpWords + UdpWords + n
    /\ Mixed \in BOOLEAN

VARIABLES
    frame, left, \* the frame coming in and what is to come of its payload
    rx,          \* registers of eb_eth_rx
    params,      \* r_mac, r_ip, r_port and r_length of eb_eth_rx, and r_stb
    asked,       \* what the core has taken in and not answered
    half, begun, \* the core: half a word taken; a word of this frame taken
    narrow,      \* registers of eb_stream_narrow
    skip,        \* r_skip of eb_tx_mux
    tx,          \* registers of eb_eth_tx
    draft, sent, \* the commit FIFO: the packet being written, those committed
    due          \* frames whose first word the core has, not yet done with

rxVars   == <<frame, left, rx, params>>
coreVars == <<asked, half, begun, narrow, skip>>
txVars   == <<tx, draft, sent, due>>
vars     == <<rxVars, coreVars, txVars>>

NoDraft == [words |-> 0, mac |-> "none", ip |-> "none", port |-> "none",
            length |-> 0, payload |-> 0, pad |-> 0]

Init ==
    /\ frame = NoFrame /\ left = 0
    /\ rx = [state |-> "ETHERNET", next |-> "DROP", count |-> 0, pass |-> FALSE]
    /\ params = [mac |-> "none", ip |-> "none", port |-> "none", length |-> 0,
                 stb |-> FALSE]
    /\ asked = <<>> /\ half = FALSE /\ begun = FALSE
    /\ narrow = [cyc |-> FALSE, pieces |-> 0, drop |-> FALSE] /\ skip = FALSE
    /\ tx = [state |-> "WRF_STATUS", next |-> "WRF_STATUS", count |-> 0,
             ready |-> FALSE, mac |-> "none", ip |-> "none", port |-> "none",
             length |-> 0]
    /\ draft = NoDraft /\ sent = <<>> /\ due = <<>>

----------------------------------------------------------------------------
(* eb_eth_rx                                                               *)

Goto(state) == [rx EXCEPT !.state = state]

(* The cycle line of the fabric rises; the status word comes first.        *)
StartFrame(f) ==
    /\ frame = NoFrame
    /\ Mixed \/ f.host = params.mac \/ ~params.stb
    /\ frame' = f /\ left' = f.pieces
    /\ rx' = Goto(IF f.ours THEN "ETHERNET" ELSE "DROP")
    /\ UNCHANGED <<params, coreVars, txVars>>

(* S_ETHERNET and S_IP overwrite the address though r_stb may be high.     *)
ReceiveEthernet ==
    /\ frame # NoFrame /\ rx.state = "ETHERNET"
    /\ params' = [params EXCEPT !.mac = frame.host]
    /\ rx' = Goto("IP")
    /\ UNCHANGED <<frame, left, coreVars, txVars>>

ReceiveIp ==
    /\ rx.state = "IP"
    /\ params' = [params EXCEPT !.ip = frame.host]
    /\ rx' = Goto(IF frame.udp THEN "UDP" ELSE "DROP")
    /\ UNCHANGED <<frame, left, coreVars, txVars>>

(* "Enforce MTU and 4-byte alignment"                                      *)
Acceptable(f) == f.length >= 2 /\ f.length <= MaxPieces /\ f.length % 2 = 0

ReceiveUdp_Early ==
    /\ rx.state = "UDP"
    /\ params' = [params EXCEPT !.port = frame.port, !.length = frame.length]
    /\ rx' = IF Acceptable(frame)
             THEN [state |-> "WAIT", next |-> "STB", count |-> 1, pass |-> TRUE]
             ELSE Goto("DROP")
    /\ UNCHANGED <<frame, left, coreVars, txVars>>

ReceiveUdp == ~params.stb /\ ReceiveUdp_Early

(* The core takes a piece; every second one completes a word.  The first   *)
(* word is the Etherbone header, on which the core decides to answer.      *)
CoreTakes ==
    /\ Len(asked) < CoreDepth
    /\ half' = ~half
    /\ IF ~half THEN UNCHANGED <<asked, begun, due>>
       ELSE /\ asked' = Append(asked, IF begun THEN "word"
                                      ELSE IF frame.silent THEN "skip" ELSE "send")
            /\ begun' = TRUE
            /\ due' = IF begun THEN due ELSE Append(due, frame)

(* A piece of the payload, or of the padding behind it.                    *)
Count(n) == n % IndexMod

AfterPiece_Early ==
    CASE rx.state = "WAIT" ->
           [rx EXCEPT !.state = IF rx.count = 1 THEN rx.next ELSE "WAIT",
                      !.count = Count(@ - 1)]
      [] rx.state = "STB" ->
           [rx EXCEPT !.state = "WAIT", !.next = "DROP", !.count = Count(frame.length - 4)]
      [] OTHER -> [rx EXCEPT !.pass = FALSE]

AfterPiece ==
    CASE rx.state = "WAIT" ->
           [rx EXCEPT !.state = IF rx.count = 1 THEN rx.next ELSE "WAIT",
                      !.count = Count(@ - 1)]
      [] rx.state = "STB" ->
           [rx EXCEPT !.state = "WAIT", !.next = "DROP", !.count = Count(frame.length - 3)]
      [] OTHER -> [rx EXCEPT !.pass = FALSE]

ReceivePiece ==
    /\ left > 0 /\ rx.state \in {"WAIT", "STB", "DROP"}
    /\ IF rx.pass THEN CoreTakes ELSE UNCHANGED <<asked, half, begun, due>>
    /\ left' = left - 1
    /\ rx' = AfterPiece
    /\ params' = [params EXCEPT !.stb = @ \/ rx.state = "STB"]
    /\ UNCHANGED <<frame, narrow, skip, tx, draft, sent>>

(* The cycle line falls, which the core is told of even when nothing of    *)
(* the frame was for it.                                                   *)
EndFrame ==
    /\ frame # NoFrame /\ Len(asked) < CoreDepth
    /\ left = 0 /\ rx.state \notin {"ETHERNET", "IP", "UDP"}
    /\ frame' = NoFrame
    /\ rx' = [rx EXCEPT !.state = "ETHERNET", !.pass = FALSE]
    /\ asked' = Append(asked, "drop") /\ half' = FALSE /\ begun' = FALSE
    /\ UNCHANGED <<left, params, narrow, skip, txVars>>

----------------------------------------------------------------------------
(* The core gives its answers to eb_stream_narrow, which hands out two     *)
(* pieces for a word and shows a fall of the cycle line after the last.    *)

Answer(token) ==
    /\ asked # <<>> /\ Head(asked) = token /\ ~skip
    /\ asked' = Tail(asked)
    /\ UNCHANGED <<rxVars, half, begun, txVars>>

CoreSkips == Answer("skip") /\ skip' = TRUE /\ UNCHANGED narrow

CoreBegins ==
    /\ Answer("send") /\ ~narrow.cyc
    /\ narrow' = [cyc |-> TRUE, pieces |-> 2, drop |-> FALSE]
    /\ UNCHANGED skip

(* Words of a skipped request leave the mux with its cycle line low.       *)
CoreAnswers ==
    /\ Answer("word") /\ narrow.pieces = 0
    /\ narrow' = IF narrow.cyc /\ ~narrow.drop THEN [narrow EXCEPT !.pieces = 2] ELSE narrow
    /\ UNCHANGED skip

CoreEnds ==
    /\ Answer("drop")
    /\ narrow' = [narrow EXCEPT !.drop = @ \/ narrow.cyc]
    /\ UNCHANGED skip

----------------------------------------------------------------------------
(* eb_eth_tx                                                               *)

Occupied == draft.words + FoldLeft(LAMBDA n, p : n + p.left, 0, sent)
Full == Occupied >= BufWords

(* r_ready low: the registers are free for the next return address.        *)
Latch ==
    /\ params.stb /\ ~tx.ready
    /\ tx' = [tx EXCEPT !.ready = TRUE, !.mac = params.mac, !.ip = params.ip,
                        !.port = params.port, !.length = params.length]
    /\ params' = [params EXCEPT !.stb = FALSE]
    /\ UNCHANGED <<frame, left, rx, coreVars, draft, sent, due>>

TxOnly == UNCHANGED <<rxVars, coreVars, sent, due>>

DraftHeaders ==
    /\ tx.state = "WRF_STATUS" /\ tx.ready
    /\ tx' = [tx EXCEPT !.state = "ETHERNET"]
    /\ draft' = NoDraft /\ TxOnly

(* A header is loaded into r_shift in the period that pushes the last word *)
(* of the one before; S_PUSH pushes the others.                            *)
Header(state, words, next, filled) ==
    /\ tx.state = state /\ ~Full
    /\ tx' = [tx EXCEPT !.state = "PUSH", !.next = next, !.count = words - 1]
    /\ draft' = filled /\ TxOnly

PushEthernet == Header("ETHERNET", EthWords, "IP",
                       [draft EXCEPT !.words = @ + 1, !.mac = tx.mac])
PushIp == Header("IP", IpWords, "UDP",
                 [draft EXCEPT !.words = @ + 1, !.ip = tx.ip])
PushUdp == Header("UDP", UdpWords, "DONE",
                  [draft EXCEPT !.words = @ + 1, !.port = tx.port, !.length = tx.length])
PushRunt == Header("RUNT", tx.count + 1, "LOWER",
                   [draft EXCEPT !.words = @ + 1, !.pad = @ + 1])

Push ==
    /\ tx.state = "PUSH" /\ ~Full
    /\ tx' = [tx EXCEPT !.state = IF tx.count = 1 THEN tx.next ELSE "PUSH",
                        !.count = (@ - 1) % CountMod]
    /\ draft' = [draft EXCEPT !.words = @ + 1,
                              !.pad = IF tx.next = "LOWER" THEN @ + 1 ELSE @]
    /\ TxOnly

(* "Make sure we don't skip the payload!"                                  *)
Proceed == IF narrow.cyc THEN "PAYLOAD" ELSE IF skip THEN "SKIP" ELSE "WAIT"

(* The headers are complete: what to do after the payload is settled here, *)
(* from the length register, which may be loaded again from now on.        *)
Done ==
    /\ tx.state = "DONE" /\ ~Full
    /\ tx' = [tx EXCEPT !.ready = FALSE,
                        !.state = Proceed,
                        !.next  = IF tx.length < RuntPieces THEN "RUNT" ELSE "LOWER",
                        !.count = IF tx.length < RuntPieces
                                  THEN RuntPieces - tx.length - 1 ELSE 0]
    /\ draft' = [draft EXCEPT !.words = @ + 1] /\ TxOnly

Wait ==
    /\ tx.state = "WAIT" /\ Proceed # "WAIT"
    /\ tx' = [tx EXCEPT !.state = Proceed]
    /\ UNCHANGED draft /\ TxOnly

TakePiece ==
    /\ tx.state = "PAYLOAD" /\ narrow.pieces > 0 /\ ~Full
    /\ narrow' = [narrow EXCEPT !.pieces = @ - 1]
    /\ draft' = [draft EXCEPT !.words = @ + 1, !.payload = @ + 1]
    /\ UNCHANGED <<rxVars, asked, half, begun, skip, tx, sent, due>>

(* The cycle line is seen low in S_PAYLOAD.                                *)
PayloadEnds ==
    /\ tx.state = "PAYLOAD" /\ narrow.drop /\ narrow.pieces = 0
    /\ narrow' = [narrow EXCEPT !.cyc = FALSE, !.drop = FALSE]
    /\ tx' = [tx EXCEPT !.state = tx.next]
    /\ UNCHANGED <<rxVars, asked, half, begun, skip, draft, sent, due>>

(* S_SKIP lasts one period, in which skip_stall_o is low.                  *)
Skip ==
    /\ tx.state = "SKIP"
    /\ tx' = [tx EXCEPT !.state = "WRF_STATUS"]
    /\ skip' = FALSE
    /\ draft' = NoDraft /\ due' = Tail(due)
    /\ UNCHANGED <<rxVars, asked, half, begun, narrow, sent>>

(* S_LOWER commits in every period it lasts, so a full FIFO is drained     *)
(* before the word that lowers the cycle line of the fabric is pushed.     *)
Packet(left_, ended) ==
    [to |-> [mac |-> draft.mac, ip |-> draft.ip, port |-> draft.port],
     length |-> draft.length, payload |-> draft.payload, pad |-> draft.pad,
     asked |-> Head(due), left |-> left_, ended |-> ended]

CommitFull_Never == FALSE /\ UNCHANGED vars
CommitFull ==
    /\ tx.state = "LOWER" /\ Full /\ draft.words > 0
    /\ sent' = Append(sent, Packet(draft.words, FALSE))
    /\ draft' = [draft EXCEPT !.words = 0]
    /\ UNCHANGED <<rxVars, coreVars, tx, due>>

Lower ==
    /\ tx.state = "LOWER" /\ ~Full
    /\ tx' = [tx EXCEPT !.state = "WRF_STATUS"]
    /\ sent' = IF draft.words > 0 THEN Append(sent, Packet(draft.words + 1, TRUE))
               ELSE [sent EXCEPT ![Len(sent)].left = @ + 1, ![Len(sent)].ended = TRUE]
    /\ draft' = NoDraft /\ due' = Tail(due)
    /\ UNCHANGED <<rxVars, coreVars>>

(* The fabric takes a committed word.                                      *)
Send ==
    /\ sent # <<>> /\ sent[1].left > 0
    /\ sent' = IF sent[1].left = 1 /\ sent[1].ended THEN Tail(sent)
               ELSE [sent EXCEPT ![1].left = @ - 1]
    /\ UNCHANGED <<rxVars, coreVars, tx, draft, due>>

----------------------------------------------------------------------------
Receive == ReceiveEthernet \/ ReceiveIp \/ ReceiveUdp \/ ReceivePiece \/ EndFrame
Core == CoreSkips \/ CoreBegins \/ CoreAnswers \/ CoreEnds
Transmit ==
    \/ Latch \/ DraftHeaders \/ PushEthernet \/ PushIp \/ PushUdp \/ PushRunt \/ Push
    \/ Done \/ Wait \/ TakePiece \/ PayloadEnds \/ Skip \/ CommitFull \/ Lower

Next == (\E f \in Frames : StartFrame(f)) \/ Receive \/ Core \/ Transmit \/ Send

(* The clock runs for every process; the fabric takes words now and then   *)
(* and delivers the rest of a frame it has begun.                          *)
Fairness == WF_vars(Receive) /\ WF_vars(Core) /\ WF_vars(Transmit) /\ WF_vars(Send)

Spec == Init /\ [][Next]_vars /\ Fairness

----------------------------------------------------------------------------
(* "... it fills the IP+UDP headers with fields appropriate to respond to  *)
(* the origin device" (spec.tex): MAC, IP, port and length of a packet are *)
(* those of the frame whose words it answers, although they were received, *)
(* handed over and drafted before the answer began and beside the words.   *)
AnswersTheAsker ==
    \A i \in 1..Len(sent) :
        LET p == sent[i]
        IN  /\ p.to = [mac |-> p.asked.host, ip |-> p.asked.host, port |-> p.asked.port]
            /\ p.length = p.asked.length /\ ~p.asked.silent

(* The payload is as long as the length that was drafted before, when the  *)
(* request was complete, and a packet is never shorter than a frame must   *)
(* be: padding of the request is not answered, a skipped request leaves    *)
(* nothing in the packet of the next.                                      *)
AsLongAsStated ==
    \A i \in 1..Len(sent) :
        LET p == sent[i]
        IN  /\ p.payload = IF p.asked.pieces >= p.length THEN p.length
                           ELSE p.asked.pieces - (p.asked.pieces % 2)
            /\ p.asked.pieces >= p.length => p.payload + p.pad >= RuntPieces

(* Whatever the core has begun to take is answered or skipped: headers     *)
(* waiting for the payload, the payload waiting for the headers, and frames*)
(* waiting for both never wait for each other.                             *)
EveryRequestEnds ==
    /\ due # <<>> ~> tx.state \in {"LOWER", "SKIP"}
    /\ tx.state \in {"LOWER", "SKIP"} ~> tx.state = "WRF_STATUS"
============================================================================
