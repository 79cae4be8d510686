---------------------------- MODULE EbMasterCore ---------------------------
(***************************************************************************)
(* The Etherbone master in gateware: operations of a local bus cycle       *)
(* become records (hdl/eb_master_core/eb_record_gen.vhd), and records and  *)
(* operations a packet (eb_framer.vhd).  The operations go two ways: their *)
(* kind and address through the small FIFO of the record generator, their  *)
(* word through the operation FIFO of the framer, where a flush queues     *)
(* behind them; the two meet again when the framer writes a record.        *)
(*                                                                         *)
(* One step is one clock period of both.  Lengths are counted in words.    *)
(***************************************************************************)
EXTENDS Integers, Sequences

CONSTANTS
    Ops,        \* the operations a local master may do
    AdrMod,     \* addresses, in words
    CountMod,   \* values of wr_cnt and rd_cnt of a record header
    GenDepth, OpDepth, RecDepth, \* the three FIFOs: 32, 256 and 16 entries
    Length,     \* mtu_o of the control registers, in words
    Careful,    \* TRUE: a cycle ends only while wb_fifo has room
    Patient,    \* TRUE: a flush comes only while a packet is being written
    Consecutive, \* TRUE: reads behind a write have consecutive return addresses
    Uniform     \* TRUE: byte enables change only between cycles

(* A write is of dat to adr; a read is of adr, its answer goes to dat.     *)
OpShape == [we : BOOLEAN, adr : 0..AdrMod-1, dat : 0..AdrMod-1, sel : 0..15]

ASSUME MasterAssumption ==
    /\ {AdrMod, CountMod, GenDepth, OpDepth, RecDepth, Length} \subseteq Nat \ {0}
    /\ Ops \subseteq OpShape
    /\ {Careful, Patient, Consecutive, Uniform} \subseteq BOOLEAN

VARIABLES
    cycIn,    \* r_cyc_in
    gen,      \* r_hdr_state, r_wait_return, r_mode and r_wb_pop
    prev,     \* r_adr and r_dat
    header,   \* r_rec_hdr with r_adr_wr and r_adr_rd, without its counters
    counts,   \* the counters of r_rec_hdr
    recOut,   \* rec_hdr_o with rec_adr_wr_o and rec_adr_rd_o
    genFifo,  \* wb_fifo: operations, and ends of cycles among them
    opFifo,   \* op_fifo: words, and flushes among them
    recFifo,  \* record_fifo
    framer,   \* r_state, r_ops_cnt, r_byte_cnt and r_tx_send_now
    base,     \* the address a receiver of the packet has come to
    asked,    \* the operation accepted last in this cycle, and whether it has writes
    owed,     \* operations accepted and ends of cycles, not yet told
    told,     \* what the words of the last period said, at most one entry
    flush     \* 0, or one more than the entries of owed a flush has to send

genVars    == <<cycIn, gen, prev, header, counts, recOut, genFifo>>
framerVars == <<opFifo, recFifo, framer>>
ghostVars  == <<base, asked, owed, told, flush>>
masterVars == <<genVars, framerVars, ghostVars>>

(* Entries of wb_fifo: operations, and the end of a cycle, whose other     *)
(* fields nobody looks at.                                                 *)
Operation(op) == [cyc |-> TRUE, op |-> op]
End == [cyc |-> FALSE, op |-> [we |-> FALSE, adr |-> 0, dat |-> 0, sel |-> 0]]

NoFlags == [wrFifo |-> FALSE, rdFifo |-> FALSE, sel |-> 0, drop |-> FALSE,
            adrWr |-> 0, adrRd |-> 0]

When(condition, item) == IF condition THEN <<item>> ELSE <<>>

(* generic_sync_fifo: a push to a full FIFO is ignored.                    *)
Queue(queue, pushed, popped, depth) ==
    (IF popped THEN Tail(queue) ELSE queue)
    \o (IF Len(queue) < depth THEN pushed ELSE <<>>)

----------------------------------------------------------------------------
(* Wires.                                                                  *)

(* s_space_sufficient                                                      *)
SpaceSufficient == framer.count <= Length

(* s_slave_stall                                                           *)
SlaveStall ==
    Len(opFifo) = OpDepth \/ ~SpaceSufficient \/ Len(genFifo) = GenDepth

Accepted(in) == in.stb /\ ~SlaveStall

(* s_cyc_f_edge                                                            *)
Falls(in) == cycIn /\ ~in.cyc

(* tx_cyc, and s_tx_push while tx_stb is high                              *)
Talking == {"EB", "REC", "WA", "WRITE", "RA", "READ"}
TxCyc == framer.state \in Talking \cup {"LOAD", "NEXT"}
TxPush(in) == framer.state \in Talking /\ ~in.stall

(* send_now: a flush has come to the front, all words before it are out.   *)
SendNow == opFifo # <<>> /\ opFifo[1].send

(* s_tx_send_now, and its push, which is done only with a packet to send   *)
SendRequest(in) == framer.send \/ in.send
QueueSend(in) == SendRequest(in) /\ framer.state # "IDLE"

(* op_fifo_pop with r_pop_cmd                                              *)
OpPop(in) ==
    /\ opFifo # <<>>
    /\ \/ (TxPush(in) \/ SendNow) /\ framer.state \in {"WRITE", "READ"}
       \/ SendNow /\ framer.state \in {"NEXT", "SEND"}

(* rec_ack_i                                                               *)
RecAck == Len(recFifo) < RecDepth

----------------------------------------------------------------------------
(* The outside: a local bus whose cycles have an operation, a flush from   *)
(* the control registers between cycles, and stalls of whatever takes the  *)
(* words (eb_stream_narrow).                                               *)
AnOp == CHOOSE o \in Ops : TRUE
Inputs == [cyc : BOOLEAN, stb : BOOLEAN, op : Ops, send : BOOLEAN, stall : BOOLEAN]

Conforms(in) ==
    /\ in.stb => in.cyc
    /\ ~in.stb => in.op = AnOp
    /\ in.cyc /\ ~cycIn => in.stb
    /\ Falls(in) => asked # <<>>
    /\ in.send => ~in.cyc /\ flush = 0
    /\ in.stall => framer.state \in Talking

Increments(new, old) == new = (old + 1) % AdrMod

(* What a user would have to know of the registers to be served well.      *)
Considerate(in) ==
    /\ Careful /\ Falls(in) => Len(genFifo) < GenDepth
    /\ Patient /\ in.send => TxCyc /\ Len(opFifo) < OpDepth
    /\ Consecutive /\ in.stb /\ ~in.op.we /\ asked # <<>> =>
          ~asked[1].wrote \/ asked[1].op.we \/ Increments(in.op.dat, asked[1].op.dat)
    /\ Uniform /\ in.stb /\ asked # <<>> => in.op.sel = asked[1].op.sel

MasterInit ==
    /\ cycIn = FALSE
    /\ gen = [state |-> "START", next |-> "START", mode |-> "UNKNOWN", pop |-> FALSE]
    /\ prev = [adr |-> 0, dat |-> 0]
    /\ header = NoFlags /\ counts = [wr |-> 0, rd |-> 0]
    /\ recOut = [flags |-> NoFlags, wr |-> 0, rd |-> 0]
    /\ genFifo = <<>> /\ opFifo = <<>> /\ recFifo = <<>>
    /\ framer = [state |-> "INIT", ops |-> 0, count |-> 0, send |-> FALSE]
    /\ base = 0 /\ asked = <<>> /\ owed = <<>> /\ told = <<>> /\ flush = 0

----------------------------------------------------------------------------
(* eb_record_gen: the parser.                                              *)

(* Where it goes: at once, after a period, or after a period in which      *)
(* wb_fifo is popped (wait_n_goto(1, ...)).                                *)
Go(state)        == [gen EXCEPT !.state = state, !.pop = FALSE]
WaitAndGo(state) == [gen EXCEPT !.state = "WAIT", !.next = state, !.pop = FALSE]
PopAndGo(state)  == [gen EXCEPT !.state = "WAIT", !.next = state, !.pop = TRUE]

(* Byte enables that differ from the record's end it, whatever else was    *)
(* decided: the operation is popped or not as it had been decided.         *)
Unless(op, g) == IF op.sel # header.sel THEN [g EXCEPT !.state = "WAIT", !.next = "OUTP"] ELSE g

WriteModes == [fifo |-> "WR_FIFO", norm |-> "WR_NORM", split |-> "WR_SPLIT"]
ReadModes  == [fifo |-> "RD_FIFO", norm |-> "RD_NORM", split |-> "RD_SPLIT"]

(* The mode, once known, stays; else it comes from two addresses.          *)
Mode(same, incr, modes) ==
    IF gen.mode # "UNKNOWN" THEN gen.mode
    ELSE IF same THEN modes.fifo ELSE IF incr THEN modes.norm ELSE modes.split

(* s_START: the first operation gives the record its address.  The end of  *)
(* a cycle is left where it is.                                            *)
Start ==
    /\ gen.state = "START"
    /\ IF genFifo # <<>> /\ genFifo[1].cyc
       THEN LET op == genFifo[1].op
            IN  /\ header' = [NoFlags EXCEPT !.sel = op.sel,
                                 !.adrWr = IF op.we THEN op.adr ELSE header.adrWr,
                                 !.adrRd = IF op.we THEN header.adrRd ELSE op.dat]
                /\ gen' = [WaitAndGo(IF op.we THEN "WRITE" ELSE "READ")
                             EXCEPT !.mode = "UNKNOWN"]
       ELSE /\ header' = [NoFlags EXCEPT !.adrWr = header.adrWr, !.adrRd = header.adrRd]
            /\ gen' = [Go("START") EXCEPT !.mode = "UNKNOWN"]

(* The cycle is over: the record that closes it says so.                   *)
LastOfCycle == header' = [header EXCEPT !.drop = TRUE] /\ gen' = PopAndGo("OUTP")

(* Another write for the record: its address is compared with that of the  *)
(* entry before, which for the first one of the record is its own.         *)
WriteOp(op) ==
    LET same == op.adr = prev.adr
        incr == Increments(op.adr, prev.adr)
        mode == Mode(same, incr, WriteModes)
        fits == (mode = "WR_FIFO" /\ same) \/ (mode = "WR_NORM" /\ incr)
    IN  /\ header' = [header EXCEPT !.wrFifo = @ \/ mode = "WR_FIFO"]
        /\ gen' = Unless(op, IF fits THEN [PopAndGo("WRITE") EXCEPT !.mode = mode]
                             ELSE [WaitAndGo("OUTP") EXCEPT !.mode = "WR_SPLIT"])

(* A read after the writes goes into the same record.                      *)
FirstRead(op) ==
    /\ header' = [header EXCEPT !.adrRd = op.dat]
    /\ gen' = Unless(op, Go("READ"))

(* Another read: only the modes of reads are asked whether it fits, so     *)
(* that after a write any return address does.                             *)
ReadOp(op) ==
    LET same == op.dat = prev.dat
        incr == Increments(op.dat, prev.dat)
        mode == Mode(same, incr, ReadModes)
        fits == /\ mode = "RD_FIFO" => same
                /\ mode = "RD_NORM" => incr
                /\ mode # "RD_SPLIT"
    IN  /\ header' = [header EXCEPT !.rdFifo = @ \/ mode = "RD_FIFO"]
        /\ gen' = Unless(op, IF fits THEN [PopAndGo("READ") EXCEPT !.mode = mode]
                             ELSE [Go("OUTP") EXCEPT !.mode = "RD_SPLIT"])

(* A write after reads begins a new record.                                *)
WriteAfterRead_Joined(op) == UNCHANGED header /\ gen' = Unless(op, PopAndGo("READ"))
WriteAfterRead(op) == UNCHANGED header /\ gen' = Unless(op, Go("OUTP"))

(* s_WRITE and s_READ: an empty FIFO is waited for.                        *)
Collect ==
    /\ gen.state \in {"WRITE", "READ"}
    /\ IF genFifo = <<>> THEN UNCHANGED header /\ gen' = Go(gen.state)
       ELSE LET op == genFifo[1].op
            IN  \/ ~genFifo[1].cyc /\ LastOfCycle
                \/ /\ genFifo[1].cyc
                   /\ \/ gen.state = "WRITE" /\ op.we /\ WriteOp(op)
                      \/ gen.state = "WRITE" /\ ~op.we /\ FirstRead(op)
                      \/ gen.state = "READ" /\ ~op.we /\ ReadOp(op)
                      \/ gen.state = "READ" /\ op.we /\ WriteAfterRead(op)

(* s_WAIT, s_OUTP and s_WACK: the last until the FIFO of records has room. *)
Deliver ==
    /\ UNCHANGED header
    /\ \/ gen.state = "WAIT" /\ gen' = Go(gen.next)
       \/ gen.state = "OUTP" /\ gen' = Go("WACK")
       \/ gen.state = "WACK" /\ gen' = Go(IF RecAck THEN "START" ELSE "WACK")

GenPop == gen.pop /\ genFifo # <<>>

(* p_register_io and p_cnt: an operation is counted when it is popped.     *)
Registers ==
    /\ prev' = IF genFifo # <<>> THEN [adr |-> genFifo[1].op.adr, dat |-> genFifo[1].op.dat]
               ELSE prev
    /\ IF gen.state = "OUTP"
       THEN /\ recOut' = [flags |-> header, wr |-> counts.wr, rd |-> counts.rd]
            /\ counts' = [wr |-> 0, rd |-> 0]
       ELSE /\ UNCHANGED recOut
            /\ counts' =
                 IF ~GenPop \/ ~genFifo[1].cyc THEN counts
                 ELSE IF genFifo[1].op.we THEN [counts EXCEPT !.wr = (@ + 1) % CountMod]
                 ELSE [counts EXCEPT !.rd = (@ + 1) % CountMod]

RecordGen(in) ==
    /\ cycIn' = in.cyc
    /\ Start \/ Collect \/ Deliver
    /\ Registers
    /\ genFifo' = Queue(genFifo,
                        When(Accepted(in), Operation(in.op)) \o When(Falls(in), End),
                        GenPop, GenDepth)

----------------------------------------------------------------------------
(* eb_framer                                                               *)

(* The record being written.                                               *)
Rec == recFifo[1]

(* s_word_cnt                                                              *)
RecWords ==
    1 + Rec.wr + Rec.rd + (IF Rec.wr # 0 THEN 1 ELSE 0) + (IF Rec.rd # 0 THEN 1 ELSE 0)

(* op_fifo_d: a flush that falls together with an operation shares its     *)
(* entry.                                                                  *)
OpFifo(in) ==
    opFifo' = Queue(opFifo,
                    When(Accepted(in) \/ QueueSend(in),
                         [word |-> IF in.op.we THEN in.op.dat ELSE in.op.adr,
                          send |-> SendRequest(in)]),
                    OpPop(in), OpDepth)

RecFifo ==
    recFifo' = Queue(recFifo, When(gen.state = "WACK", recOut),
                     framer.state = "LOAD", RecDepth)

(* Where s_REC goes with a record.                                         *)
Body == IF Rec.wr # 0 THEN "WA" ELSE IF Rec.rd # 0 THEN "RA" ELSE "NEXT"

(* Where s_NEXT goes: a packet ends on a flush, or when it is long enough. *)
AfterRecord_RecordsFirst ==
    IF recFifo # <<>> THEN "REC"
    ELSE IF SendNow \/ ~SpaceSufficient THEN "SEND" ELSE "NEXT"
AfterRecord ==
    IF SendNow \/ ~SpaceSufficient THEN "SEND"
    ELSE IF recFifo # <<>> THEN "REC" ELSE "NEXT"

(* r_ops_cnt has a sign; it is two less than the words that are left.      *)
LastWord == framer.ops < 0

NextState(in) ==
    IF framer.state \in Talking /\ in.stall THEN framer.state
    ELSE CASE framer.state = "INIT"  -> "IDLE"
           [] framer.state = "IDLE"  -> IF recFifo # <<>> THEN "EB" ELSE "IDLE"
           [] framer.state = "EB"    -> "REC"
           [] framer.state = "REC"   -> IF recFifo # <<>> THEN Body ELSE "REC"
           [] framer.state = "WA"    -> "WRITE"
           [] framer.state = "WRITE" -> IF ~LastWord THEN "WRITE"
                                        ELSE IF Rec.rd # 0 THEN "RA" ELSE "LOAD"
           [] framer.state = "RA"    -> "READ"
           [] framer.state = "READ"  -> IF LastWord THEN "LOAD" ELSE "READ"
           [] framer.state = "LOAD"  -> "NEXT"
           [] framer.state = "NEXT"  -> AfterRecord
           [] framer.state = "SEND"  -> "IDLE"

(* A record is counted when its header goes out and again when it is done. *)
NextCount(in) ==
    CASE framer.state \in {"INIT", "IDLE"}                      -> 0
      [] framer.state = "EB" /\ TxPush(in)                      -> framer.count + 1
      [] framer.state = "REC" /\ TxPush(in) /\ recFifo # <<>>   -> framer.count + RecWords
      [] framer.state = "LOAD"                                  -> framer.count + RecWords
      [] OTHER                                                  -> framer.count

NextOps(in) ==
    CASE framer.state \in {"INIT", "IDLE"}                      -> 0
      [] framer.state = "WA" /\ TxPush(in)                      -> Rec.wr - 2
      [] framer.state = "RA" /\ TxPush(in)                      -> Rec.rd - 2
      [] framer.state \in {"WRITE", "READ"} /\ TxPush(in)       -> framer.ops - 1
      [] OTHER                                                  -> framer.ops

Framer(in) ==
    /\ framer' = [state |-> NextState(in), ops |-> NextOps(in), count |-> NextCount(in),
                  send |-> SendRequest(in) /\ Len(opFifo) = OpDepth]
    /\ OpFifo(in)
    /\ RecFifo

----------------------------------------------------------------------------
(* What a receiver of the packet makes of it (spec/spec.tex, records), and *)
(* what the local master asked for.                                        *)

(* master_o.dat in s_WRITE and s_READ; an empty FIFO shows an old word.    *)
FrontWord == IF opFifo # <<>> /\ ~opFifo[1].send THEN opFifo[1].word ELSE AdrMod

Reading(in) ==
    CASE framer.state = "WRITE" /\ TxPush(in) ->
            <<Operation([we |-> TRUE, adr |-> base, dat |-> FrontWord, sel |-> Rec.flags.sel])>>
      [] framer.state = "READ" /\ TxPush(in) ->
            <<Operation([we |-> FALSE, adr |-> FrontWord, dat |-> base, sel |-> Rec.flags.sel])>>
      [] framer.state = "LOAD" /\ Rec.flags.drop -> <<End>>
      [] OTHER -> <<>>

Ghosts(in) ==
    /\ base' = CASE framer.state = "WA"    -> Rec.flags.adrWr
                 [] framer.state = "RA"    -> Rec.flags.adrRd
                 [] framer.state = "WRITE" /\ TxPush(in) /\ ~Rec.flags.wrFifo -> (base + 1) % AdrMod
                 [] framer.state = "READ" /\ TxPush(in) /\ ~Rec.flags.rdFifo -> (base + 1) % AdrMod
                 [] OTHER -> base
    /\ asked' = IF ~in.cyc THEN <<>> 
                ELSE IF ~Accepted(in) THEN asked
                ELSE <<[op |-> in.op, wrote |-> in.op.we \/ (asked # <<>> /\ asked[1].wrote)]>>
    /\ told' = Reading(in)
    /\ owed' = (IF told # <<>> THEN Tail(owed) ELSE owed)
               \o When(Accepted(in), Operation(in.op)) \o When(Falls(in), End)
    /\ flush' = CASE in.send -> Len(owed') - Len(told') + 1
                  [] flush = 1 /\ framer.state = "SEND" -> 0
                  [] flush > 1 /\ told' # <<>> -> flush - 1
                  [] OTHER -> flush

----------------------------------------------------------------------------
MasterClock(in) ==
    /\ Conforms(in) /\ Considerate(in)
    /\ RecordGen(in) /\ Framer(in) /\ Ghosts(in)

MasterNext == \E in \in Inputs : MasterClock(in)

(* The circuit moves by itself, though the local master does nothing new.  *)
Moves ==
    ENABLED <<\E in \in Inputs : /\ in.cyc = cycIn /\ ~in.stb /\ ~in.send /\ ~in.stall
                                /\ MasterClock(in)>>_masterVars

(* The clock runs, and whoever takes the words takes one now and then; of  *)
(* the local master nothing is expected.                                   *)
Fairness == WF_masterVars(Moves /\ \E in \in Inputs : ~in.stall /\ MasterClock(in))

MasterSpec == MasterInit /\ [][MasterNext]_masterVars /\ Fairness

----------------------------------------------------------------------------
(* A receiver that reads the packets gets just the operations of the local *)
(* master, in their order and with their addresses, and the ends of its    *)
(* cycles between them ("drop_cyc").  Words and headers take different     *)
(* ways of different lengths, and nothing but their order joins them.      *)
RecordsSayWhatWasAsked == told # <<>> => owed # <<>> /\ Head(owed) = Head(told)

(* Types.  A FIFO never holds more than it has room for.                   *)
Flags == [wrFifo : BOOLEAN, rdFifo : BOOLEAN, sel : 0..15, drop : BOOLEAN,
          adrWr : 0..AdrMod-1, adrRd : 0..AdrMod-1]
Records == [flags : Flags, wr : 0..CountMod-1, rd : 0..CountMod-1]
FifoEntries == [cyc : BOOLEAN, op : OpShape]
GenStates == {"START", "WRITE", "READ", "OUTP", "WAIT", "WACK"}

MasterTypeOK ==
    /\ cycIn \in BOOLEAN
    /\ gen \in [state : GenStates, next : GenStates, pop : BOOLEAN,
               mode : {"UNKNOWN", "WR_FIFO", "WR_NORM", "WR_SPLIT",
                       "RD_FIFO", "RD_NORM", "RD_SPLIT"}]
    /\ prev \in [adr : 0..AdrMod-1, dat : 0..AdrMod-1]
    /\ header \in Flags /\ recOut \in Records
    /\ counts \in [wr : 0..CountMod-1, rd : 0..CountMod-1]
    /\ genFifo \in Seq(FifoEntries) /\ Len(genFifo) <= GenDepth
    /\ opFifo \in Seq([word : 0..AdrMod-1, send : BOOLEAN]) /\ Len(opFifo) <= OpDepth
    /\ recFifo \in Seq(Records) /\ Len(recFifo) <= RecDepth
    /\ framer \in [state : Talking \cup {"INIT", "IDLE", "LOAD", "NEXT", "SEND"},
                  ops : Int, count : Nat, send : BOOLEAN]
    /\ base \in 0..AdrMod-1 /\ flush \in Nat
    /\ asked \in Seq([op : OpShape, wrote : BOOLEAN]) /\ owed \in Seq(FifoEntries)

(* "Send stored data as an EB packet" (ebm.xml): what was accepted before  *)
(* a flush is sent, however full the FIFOs are and whatever else comes.    *)
FlushSends == flush # 0 ~> flush = 0
============================================================================
