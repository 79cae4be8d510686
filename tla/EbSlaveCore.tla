---------------------------- MODULE EbSlaveCore ----------------------------
(***************************************************************************)
(* The Etherbone slave in gateware (hdl/eb_slave_core/eb_slave_top.vhd) as *)
(* it is fed by eb_stream_widen: the request parser eb_slave_fsm, the four *)
(* FIFOs behind it (tag, pass, cfg, wbm) and eb_tx_mux, which puts the     *)
(* answer together.  Every step is one clock period of the whole circuit:  *)
(* each process of the source is an action on its own registers, Next is   *)
(* their conjunction for some input of the outside, and the wires between  *)
(* them are operators on the registers and on that input.                  *)
(*                                                                         *)
(* Data is reduced to what the answer depends on: a word of the answer     *)
(* says what it is, an operation on the bus has an even or an odd number.   *)
(***************************************************************************)
EXTENDS Integers, EbQueue

CONSTANTS
    Parts,        \* g_master_width / g_slave_width of the stream
    Depth,        \* c_queue_depth, entries of each FIFO, a power of two
    Timeout,      \* g_timeout_cycles, periods the bus has to acknowledge
    RecordHeaders,\* the record headers that requests hold
    CarefulEnd    \* TRUE: a request ends only while the tag FIFO has room

ASSUME SlaveAssumption ==
    /\ Parts \in Nat \ {0, 1}
    /\ Depth \in {2, 4, 8, 16, 32}
    /\ Timeout \in Nat \ {0, 1}
    /\ CarefulEnd \in BOOLEAN
    /\ RecordHeaders \subseteq
         [writes : 0..255, reads : 0..255, writeConfig : BOOLEAN,
          readConfig : BOOLEAN, last : BOOLEAN]

VARIABLES
    wide,    \* registers of eb_stream_widen: cyc, drop, stb, idx
    state,   \* r_state
    record,  \* r_rx_rec_hdr, its counters count down
    rxCyc,   \* r_rx_cyc
    tagOut,  \* r_tag_stb_o and r_tag_dat_o: a sequence of at most one tag
    passOut, \* r_pass_stb_o and r_pass_dat_o, likewise
    cfgOut,  \* r_cfg_stb_o: a sequence of at most one request
    wbmOut,  \* r_wbm_stb_o
    cycle,   \* r_master_cyc_o
    strobe,  \* r_master_stb_o: a sequence of at most one operation
    tags, passes, configs, answers,  \* the four FIFOs
    cached,  \* r_cache_empty and r_cache_adr of eb_cfg_fifo
    wbm,     \* counters of eb_wbm_fifo
    mux,     \* registers of eb_tx_mux
    tx,      \* the output registers r_skip, r_tx_cyc, r_tx_stb
    onBus,   \* operations the bus has accepted and not acknowledged
    number,  \* of the next operation on the bus, only whether it is odd
    owed,    \* what the answer still has to hold, in the order of the request
    last     \* what the mux put out in the last period

widenVars == <<wide>>
fsmVars   == <<state, record, rxCyc, tagOut, passOut, cfgOut, wbmOut, cycle, strobe, number>>
queueVars == <<tags, passes, configs, cached, answers, wbm>>
muxVars   == <<mux, tx, last>>
vars      == <<widenVars, fsmVars, queueVars, muxVars, onBus, owed>>

----------------------------------------------------------------------------
(* Tags and words.                                                         *)

Tags == {"drop_tx", "skip_tx", "pass_tx", "pass_on", "cfg_req", "cfg_ign",
         "wbm_req", "wbm_ign"}

Words == {"header", "probe id", "zero", "record", "address"}

States == {"EB_HDR", "PROBE_DROP", "PROBE_ID", "CYC_HDR", "WR_ADR", "WRITE",
           "RD_ADR", "READ", "DROP"}

(* The EB headers a request may begin with, as f_parse_eb tells them apart.*)
EbHeaders ==
    [known : BOOLEAN, silent : BOOLEAN, probe : BOOLEAN,
     addresses : BOOLEAN, data : BOOLEAN]

NoRecord == [writes |-> 0, reads |-> 0, writeConfig |-> FALSE,
             readConfig |-> FALSE, last |-> FALSE]

Numbers == {"even", "odd"}
Other(n) == IF n = "even" THEN "odd" ELSE "even"

(* A sequence of one when the condition holds: a strobe with its data.     *)
When(condition, item) == IF condition THEN <<item>> ELSE <<>>

----------------------------------------------------------------------------
(* Wires.                                                                  *)

(* s_wbm_busy: with the strobe that has not been counted yet.              *)
Busy == wbm.busy \/ wbmOut

(* master_o.cyc                                                            *)
MasterCyc == cycle \/ Busy

(* s_stall of eb_slave_fsm.                                                *)
Stall_Untagged(in) ==
    \/ IsFull(passes, Depth) \/ IsFull(configs, Depth) \/ wbm.full
    \/ (strobe # <<>> /\ in.busStall)
    \/ (~cycle /\ Busy)
Stall(in) ==
    \/ IsFull(tags, Depth) \/ IsFull(passes, Depth) \/ IsFull(configs, Depth)
    \/ wbm.full
    \/ (strobe # <<>> /\ in.busStall)
    \/ (~cycle /\ Busy)

(* s_stall of eb_stream_widen.                                             *)
WidenStall(in) == (wide.stb /\ Stall(in)) \/ wide.drop

(* The parser takes a word in this period.                                 *)
Taken(in) == wide.cyc /\ wide.stb /\ ~Stall(in)

(* s_wb_i_rdy                                                              *)
Ready(in) == in.ack \/ wbm.killAck

(* s_can_tx                                                                *)
CanSend(in) == ~((tx.cyc /\ tx.stb /\ in.txStall) \/ (tx.skip /\ in.skipStall))

(* s_tag_mux: some FIFO the tag names has nothing to show yet.             *)
Missing_Read ==
    \/ (mux.tag \in {"pass_tx", "pass_on", "cfg_ign", "wbm_ign", "wbm_req"} /\ passes.empty)
    \/ (mux.tag \in {"cfg_req", "cfg_ign"} /\ cached.empty)
    \/ (mux.tag \in {"wbm_req", "wbm_ign"} /\ answers.empty)
Missing ==
    \/ (mux.tag \in {"pass_tx", "pass_on", "cfg_ign", "wbm_ign"} /\ passes.empty)
    \/ (mux.tag \in {"cfg_req", "cfg_ign"} /\ cached.empty)
    \/ (mux.tag \in {"wbm_req", "wbm_ign"} /\ answers.empty)

(* s_tag_pop, tag_pop_o, pass_pop_o, cfg_pop_o and wbm_pop_o               *)
TagDone(in) == CanSend(in) /\ mux.valid /\ ~Missing
PopTag(in)  == ~tags.empty /\ (TagDone(in) \/ ~mux.valid)
PopPass_Kept(in) == TagDone(in) /\ mux.tag \in {"pass_tx", "pass_on"}
PopPass(in) == TagDone(in) /\ mux.tag \in {"pass_tx", "pass_on", "cfg_ign", "wbm_ign"}
PopCfg(in)  == TagDone(in) /\ mux.tag \in {"cfg_req", "cfg_ign"}
PopWbm(in)  == TagDone(in) /\ mux.tag \in {"wbm_req", "wbm_ign"}

(* s_dat_mux, beside the two tags that carry no word.                      *)
Selected ==
    CASE mux.tag = "cfg_req" -> "config"
      [] mux.tag = "wbm_req" -> Front(answers)
      [] mux.tag \in {"drop_tx", "skip_tx"} -> mux.tag
      [] OTHER -> Front(passes)

----------------------------------------------------------------------------
(* The outside: pieces of words from the transport, stalls of whatever     *)
(* takes the answer, stalls and acknowledgements of the bus.               *)

Inputs == [cyc : BOOLEAN, stb : BOOLEAN, txStall : BOOLEAN, skipStall : BOOLEAN,
           busStall : BOOLEAN, ack : BOOLEAN]

(* A bus that acknowledges what it accepted, and that accepts a strobe     *)
(* before its time is over.                                                *)
BusConforms(in) ==
    /\ in.ack => onBus # <<>> \/ (strobe # <<>> /\ ~in.busStall)
    /\ wbm.timeout = 1 /\ onBus = <<>> => ~in.busStall
    /\ strobe = <<>> => ~in.busStall

(* The tag FIFO has room for the tag of the end, with those on their way.  *)
RoomToEnd == Len(tags.items) + Len(tagOut) + (IF wide.stb THEN 1 ELSE 0) < Depth

(* A transport with its cycle line low has no data.  Stalls that nobody    *)
(* looks at are not distinguished.                                         *)
SourceConforms(in) ==
    /\ in.stb => in.cyc
    /\ in.txStall => tx.cyc /\ tx.stb
    /\ in.skipStall => tx.skip
    /\ CarefulEnd /\ wide.cyc /\ ~wide.drop /\ ~in.cyc => RoomToEnd

----------------------------------------------------------------------------
Init ==
    /\ wide = [cyc |-> FALSE, drop |-> FALSE, stb |-> FALSE, idx |-> Parts - 1]
    /\ state = "EB_HDR" /\ record = NoRecord /\ rxCyc = FALSE
    /\ tagOut = <<>> /\ passOut = <<>> /\ cfgOut = <<>> /\ wbmOut = FALSE
    /\ cycle = FALSE /\ strobe = <<>>
    /\ tags = NewQueue /\ passes = NewQueue /\ configs = NewQueue /\ answers = NewQueue
    /\ cached = [empty |-> TRUE]
    /\ wbm = [inflight |-> 0, busy |-> FALSE, queued |-> 0, full |-> FALSE,
              timeout |-> Timeout, killAck |-> FALSE]
    /\ mux = [valid |-> FALSE, tag |-> "drop_tx"]
    /\ tx = [skip |-> FALSE, cyc |-> FALSE, stb |-> FALSE]
    /\ onBus = <<>> /\ number = "even" /\ owed = <<>> /\ last = <<>>

----------------------------------------------------------------------------
(* eb_stream_widen: Parts pieces make a word, and a fall of the cycle line   *)
(* is shown for a period at least, after the word that is on its way.      *)
Widen(in) ==
    LET push == in.cyc /\ in.stb /\ ~WidenStall(in)
    IN  wide' =
          [cyc  |-> IF wide.drop THEN wide.stb ELSE wide.stb \/ in.cyc,
           drop |-> wide.stb /\ (wide.drop \/ ~in.cyc),
           stb  |-> (wide.stb /\ Stall(in)) \/ (push /\ wide.idx = 0),
           idx  |-> IF ~in.cyc THEN Parts - 1
                    ELSE IF push THEN (wide.idx - 1) % Parts ELSE wide.idx]

----------------------------------------------------------------------------
(* eb_slave_fsm.  What a state writes is given by Emit, what the bus is    *)
(* asked by Issue; every state that takes a word answers it with one.      *)

Emit(tag, words) == tagOut' = <<tag>> /\ passOut' = words

NoRequest == cfgOut' = <<>> /\ wbmOut' = FALSE

(* r_master_stb_o <= r_master_stb_o and master_stall_i                     *)
KeepStrobe(in) == strobe' = IF in.busStall THEN strobe ELSE <<>>

Owe(what) == owed' = (IF last # <<>> THEN Tail(owed) ELSE owed) \o what

(* r_master_cyc_o after an operation; with the last of a record it is      *)
(* assigned a second time, from its value of before.                       *)
CycleAfter_Falls(config, ends) == ~ends /\ (cycle \/ ~config)
CycleAfter(config, ends) ==
    IF ends THEN cycle /\ ~record.last ELSE cycle \/ ~config

(* An operation for the configuration space or for the bus.                *)
Issue(in, config, ends) ==
    /\ cfgOut' = When(config, "request")
    /\ wbmOut' = ~config
    /\ IF config THEN KeepStrobe(in) /\ UNCHANGED number
                 ELSE strobe' = <<number>> /\ number' = Other(number)
    /\ cycle' = CycleAfter(config, ends)

EbHeader(in) ==
    /\ state = "EB_HDR"
    /\ \E h \in EbHeaders :
          /\ Emit(IF h.known /\ ~h.silent THEN "pass_tx" ELSE "skip_tx",
                  When(h.known /\ ~h.silent, "header"))
          /\ Owe(<<IF h.known /\ ~h.silent THEN "header" ELSE "skip_tx">>)
          /\ state' = IF ~h.known THEN "DROP"
                      ELSE IF h.probe
                      THEN IF h.addresses /\ h.data THEN "PROBE_ID" ELSE "PROBE_DROP"
                      ELSE IF h.addresses \/ h.data THEN "CYC_HDR" ELSE "DROP"
    /\ NoRequest /\ KeepStrobe(in)
    /\ UNCHANGED <<record, cycle, number>>

(* PROBE_DROP, PROBE_ID, WR_ADR, RD_ADR and DROP: one word of the request  *)
(* gives one word of the answer and the parser moves on.                   *)
Copy(in, from, word, to) ==
    /\ state = from
    /\ Emit("pass_on", <<word>>) /\ Owe(<<word>>)
    /\ state' = to
    /\ NoRequest /\ KeepStrobe(in)
    /\ UNCHANGED <<record, cycle, number>>

RecordHeader(in) ==
    /\ state = "CYC_HDR"
    /\ \E h \in RecordHeaders :
          LET word == IF h.writes # 0 THEN "zero" ELSE "record"
          IN  /\ record' = h
              /\ Emit("pass_on", <<word>>) /\ Owe(<<word>>)
              /\ state' = IF h.writes # 0 THEN "WR_ADR"
                          ELSE IF h.reads # 0 THEN "RD_ADR" ELSE "CYC_HDR"
              /\ cycle' = (cycle /\ ~(h.writes = 0 /\ h.reads = 0 /\ h.last))
    /\ NoRequest /\ KeepStrobe(in)
    /\ UNCHANGED number

Write(in) ==
    LET final == record.writes = 1
        word  == IF final THEN "record" ELSE "zero"
    IN  /\ state = "WRITE"
        /\ Emit(IF record.writeConfig THEN "cfg_ign" ELSE "wbm_ign", <<word>>)
        /\ Owe(<<word>>)
        /\ Issue(in, record.writeConfig, final /\ record.reads = 0)
        /\ state' = IF ~final THEN "WRITE"
                    ELSE IF record.reads # 0 THEN "RD_ADR" ELSE "CYC_HDR"
        /\ record' = [record EXCEPT !.writes = @ - 1]

Read(in) ==
    LET final == record.reads = 1
    IN  /\ state = "READ"
        /\ Emit(IF record.readConfig THEN "cfg_req" ELSE "wbm_req", <<>>)
        /\ Owe(<<IF record.readConfig THEN "config" ELSE number>>)
        /\ Issue(in, record.readConfig, final)
        /\ state' = IF final THEN "CYC_HDR" ELSE "READ"
        /\ record' = [record EXCEPT !.reads = @ - 1]

(* The cycle line of the request is low: the next word is a new header,    *)
(* and the fall is handed on as a tag, whether or not the FIFO has room.   *)
Idle(in) ==
    /\ ~wide.cyc
    /\ state' = "EB_HDR" /\ cycle' = FALSE
    /\ tagOut' = When(rxCyc, "drop_tx") /\ passOut' = <<>>
    /\ Owe(When(rxCyc, "drop_tx"))
    /\ NoRequest /\ KeepStrobe(in)
    /\ UNCHANGED <<record, number>>

Waiting(in) ==
    /\ wide.cyc /\ ~Taken(in)
    /\ tagOut' = <<>> /\ passOut' = <<>>
    /\ Owe(<<>>)
    /\ NoRequest /\ KeepStrobe(in)
    /\ UNCHANGED <<state, record, cycle, number>>

Fsm(in) ==
    /\ rxCyc' = wide.cyc
    /\ \/ Idle(in)
       \/ Waiting(in)
       \/ /\ Taken(in)
          /\ \/ EbHeader(in) \/ RecordHeader(in) \/ Write(in) \/ Read(in)
             \/ Copy(in, "PROBE_DROP", "probe id", "DROP")
             \/ Copy(in, "PROBE_ID", "probe id", "CYC_HDR")
             \/ Copy(in, "WR_ADR", "zero", "WRITE")
             \/ Copy(in, "RD_ADR", "address", "READ")
             \/ Copy(in, "DROP", "zero", "DROP")

----------------------------------------------------------------------------
(* eb_tag_fifo, eb_pass_fifo and eb_cfg_fifo.  The last has a register     *)
(* between the FIFO and the mux.                                           *)
TagFifo(in)  == tags' = Clocked(tags, tagOut, PopTag(in))
PassFifo(in) == passes' = Clocked(passes, passOut, PopPass(in))

CfgFifo(in) ==
    /\ configs' = Clocked(configs, cfgOut,
                          ~configs.empty /\ (cached.empty \/ PopCfg(in)))
    /\ cached' = IF cached.empty \/ PopCfg(in) THEN [empty |-> configs.empty] ELSE cached

(* eb_wbm_fifo: operations not acknowledged (r_inflight, r_busy), not      *)
(* taken by the mux (r_queued, r_full), the time left for the next         *)
(* acknowledgement, and the FIFO of results.  Counters have log2(Depth)    *)
(* bits, so that both 0 and Depth operations are counted as 0.             *)
Counted(count, up, down) ==
    (count + (IF up THEN 1 ELSE 0) - (IF down THEN 1 ELSE 0)) % Depth

StillBusy(push, done) ==
    \/ push /\ ~done
    \/ wbm.busy /\ ~(~push /\ done /\ wbm.inflight = 1)

TimeLeft_Runs(done) == IF done THEN Timeout ELSE wbm.timeout - 1
TimeLeft(done) == IF done \/ ~wbm.busy THEN Timeout ELSE wbm.timeout - 1

WbmFifo(in) ==
    LET push == wbmOut
        done == Ready(in)
        pop  == PopWbm(in)
    IN  /\ wbm' =
             [inflight |-> Counted(wbm.inflight, push, done),
              busy     |-> StillBusy(push, done),
              queued   |-> Counted(wbm.queued, push, pop),
              full     |-> IF push /\ ~pop THEN wbm.full \/ wbm.queued = Depth - 1
                           ELSE IF ~push /\ pop THEN FALSE ELSE wbm.full,
              killAck  |-> ~done /\ wbm.busy /\ wbm.timeout = 1,
              timeout  |-> TimeLeft(done)]
        /\ answers' = Clocked(answers, When(done, Head(onBus \o strobe)), pop)

(* The bus: takes the strobe unless it stalls, forgets the oldest          *)
(* operation when it acknowledges it or when the slave has given it up.    *)
Bus(in) ==
    LET accepted == IF in.busStall THEN onBus ELSE onBus \o strobe
    IN  onBus' = IF Ready(in) THEN Tail(accepted) ELSE accepted

----------------------------------------------------------------------------
(* eb_tx_mux: tag_in and tx_out.                                           *)
TagIn(in) ==
    mux' = IF TagDone(in) \/ ~mux.valid
           THEN [valid |-> ~tags.empty,
                 tag |-> IF tags.empty THEN mux.tag ELSE Front(tags)]
           ELSE mux

TxOut(in) ==
    /\ tx' = IF ~CanSend(in) THEN tx
             ELSE [skip |-> mux.valid /\ mux.tag = "skip_tx",
                   stb  |-> mux.valid /\ ~Missing,
                   cyc  |-> IF mux.valid /\ mux.tag = "drop_tx" THEN FALSE
                            ELSE tx.cyc \/ (mux.valid /\ mux.tag = "pass_tx")]
    /\ last' = When(TagDone(in), Selected)

----------------------------------------------------------------------------
Clock(in) ==
    /\ BusConforms(in) /\ SourceConforms(in)
    /\ Widen(in) /\ Fsm(in)
    /\ TagFifo(in) /\ PassFifo(in) /\ CfgFifo(in) /\ WbmFifo(in) /\ Bus(in)
    /\ TagIn(in) /\ TxOut(in)

Next == \E in \in Inputs : Clock(in)

(* The circuit moves by itself, though transport and bus do nothing new.   *)
Moves ==
    ENABLED <<\E in \in Inputs : /\ in.cyc = wide.cyc /\ ~in.stb /\ ~in.ack
                                /\ ~in.txStall /\ ~in.skipStall
                                /\ Clock(in)>>_vars

(* The clock runs, and whoever takes the answer takes a word now and then; *)
(* of the bus and of the transport nothing is expected.                    *)
Fairness == WF_vars(Moves /\ \E in \in Inputs : ~in.txStall /\ ~in.skipStall /\ Clock(in))

Spec == Init /\ [][Next]_vars /\ Fairness

----------------------------------------------------------------------------
(* Types.                                                                  *)
AtMost(S, n) == UNION {[1..k -> S] : k \in 0..n}
Answers == Words \cup Numbers \cup {"config", "drop_tx", "skip_tx"}

TypeOK ==
    /\ wide \in [cyc : BOOLEAN, drop : BOOLEAN, stb : BOOLEAN, idx : 0..Parts-1]
    /\ state \in States /\ rxCyc \in BOOLEAN
    /\ record \in [writes : 0..255, reads : 0..255, writeConfig : BOOLEAN,
                   readConfig : BOOLEAN, last : BOOLEAN]
    /\ tagOut \in AtMost(Tags, 1) /\ passOut \in AtMost(Words, 1)
    /\ cfgOut \in AtMost({"request"}, 1) /\ wbmOut \in BOOLEAN
    /\ cycle \in BOOLEAN /\ strobe \in AtMost(Numbers, 1) /\ number \in Numbers
    /\ tags \in QueueOf(Tags) /\ passes \in QueueOf(Words)
    /\ configs \in QueueOf({"request"}) /\ answers \in QueueOf(Numbers)
    /\ cached \in [empty : BOOLEAN]
    /\ wbm \in [inflight : 0..Depth-1, busy : BOOLEAN, queued : 0..Depth-1,
                full : BOOLEAN, timeout : 0..Timeout, killAck : BOOLEAN]
    /\ mux \in [valid : BOOLEAN, tag : Tags]
    /\ tx \in [skip : BOOLEAN, cyc : BOOLEAN, stb : BOOLEAN]
    /\ onBus \in Seq(Numbers)
    /\ owed \in Seq(Answers) /\ last \in AtMost(Answers, 1)

(* Whatever the mux takes next is what the request asked for at that       *)
(* place: tag, pass, cfg and wbm FIFO never get out of step, though they   *)
(* are filled by different processes at different times (eb_tx_mux,        *)
(* "Combines output streams into a packet").                               *)
AnswersMatch == last # <<>> => owed # <<>> /\ Head(owed) = Head(last)

(* No FIFO is pushed beyond its size, although the parser learns of a full *)
(* FIFO two periods after the word that fills it.                          *)
QueuesFit ==
    /\ Len(tags.items) <= Depth /\ Len(passes.items) <= Depth
    /\ Len(configs.items) <= Depth /\ Len(answers.items) <= Depth

(* r_busy is high just while the bus has something to acknowledge, across  *)
(* the wrap of r_inflight and the acknowledgements made up on timeout.     *)
BusyExact ==
    wbm.busy <=> Len(onBus) + Len(strobe) > (IF wbmOut THEN 1 ELSE 0)

(* "A receiving EB device should hold the cycle line high till it          *)
(* encounters this flag" (spec/spec.tex): the line falls only after the    *)
(* last record of a cycle, or with the end of the request.                 *)
HeldUntilDropped ==
    [][MasterCyc /\ ~MasterCyc' =>
        \/ state' = "EB_HDR"
        \/ record'.last /\ record'.writes = 0 /\ record'.reads = 0]_vars

(* What a request asked for is answered, though the bus never acknowledges *)
(* and every FIFO may be full: neither the parser waiting for the bus      *)
(* (s_stall) nor the mux waiting for a FIFO (s_tag_mux) stays so.          *)
AnswerComes == owed # <<>> ~> last # <<>>

====================================================================================
