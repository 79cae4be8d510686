-------------------------- MODULE EbSlaveCore_proofs --------------------------
(***************************************************************************)
(* The slave core, for FIFOs of any size, any width of the stream and any  *)
(* stalls: no FIFO is pushed beyond its size (NoOverflow), the busy        *)
(* register is exact across the wrap of the counters and the               *)
(* acknowledgements made up on timeout (BusyIsExact), the cycle line falls *)
(* only where it may (LineHeld), and the four FIFOs that carry the answer  *)
(* stay in step (InStep).                                                  *)
(*                                                                         *)
(* A word of the request takes two periods at least, so that what the      *)
(* parser put out for one has been counted before it takes the next        *)
(* (Paced): this is the only reason why two periods between a push and the *)
(* full flag do no harm.                                                   *)
(***************************************************************************)
EXTENDS EbSlaveCore, TLAPS

-----------------------------------------------------------------------------
(* The invariant.                                                          *)

Bit(b) == IF b THEN 1 ELSE 0
Short(S) == {s \in Seq(S) : Len(s) <= 1}

Typed ==
  /\ wide \in [cyc : BOOLEAN, drop : BOOLEAN, stb : BOOLEAN, idx : Int]
  /\ rxCyc \in BOOLEAN /\ wbmOut \in BOOLEAN /\ cycle \in BOOLEAN
  /\ tagOut \in Short(Tags) /\ passOut \in Short(Words) /\ cfgOut \in Short({"request"})
  /\ strobe \in Short(Numbers) /\ number \in Numbers /\ onBus \in Seq(Numbers)
  /\ tags.items \in Seq(Tags) /\ passes.items \in Seq(Words)
  /\ configs.items \in Seq({"request"}) /\ answers.items \in Seq(Numbers)

\* What a FIFO shows it has.
Showing ==
  /\ ~tags.empty => tags.items # <<>>
  /\ ~passes.empty => passes.items # <<>>
  /\ ~configs.empty => configs.items # <<>>
  /\ ~answers.empty => answers.items # <<>>

\* What the parser puts out for a word is counted before it has the next one.
Paced ==
  /\ wide.stb \/ wide.drop => wide.cyc
  /\ wide.stb \/ wide.drop \/ ~wide.cyc => wide.idx = Parts - 1
  /\ tagOut # <<>> => ~wide.stb
  /\ passOut # <<>> \/ cfgOut # <<>> \/ wbmOut => tagOut # <<>>

\* The end of a request is on its way to the tag FIFO.
Ending == wide.drop \/ (~wide.cyc /\ rxCyc)

TagsFit ==
  /\ Len(tags.items) + Len(tagOut) <= Depth
  /\ Ending => Len(tags.items) + Len(tagOut) + Bit(wide.stb) < Depth

OthersFit ==
  /\ Len(passes.items) + Len(passOut) <= Depth
  /\ Len(configs.items) + Len(cfgOut) <= Depth

\* Operations counted and not acknowledged, and those not taken by the mux
InFlight == Len(onBus) + Len(strobe) - Bit(wbmOut)
Queued == InFlight + Len(answers.items)

Counts ==
  /\ InFlight \in 0..Depth /\ Queued + Bit(wbmOut) <= Depth
  /\ wbm.inflight = InFlight % Depth /\ (wbm.busy <=> InFlight > 0)
  /\ wbm.queued = Queued % Depth /\ (wbm.full <=> Queued = Depth)
  /\ wbm.killAck => onBus # <<>>

CInv ==
  /\ Typed /\ Showing /\ Paced /\ OthersFit /\ Counts
  /\ CarefulEnd => TagsFit

-----------------------------------------------------------------------------
(* Arithmetic and queues.                                                  *)

LEMMA Wraps ==
  ASSUME NEW n \in Nat \ {0}
  PROVE  /\ \A k \in 0..n - 1 : k % n = k
         /\ n % n = 0 /\ (0 - 1) % n = n - 1
  OBVIOUS

LEMMA DepthType == Depth \in Nat /\ Depth >= 2
  BY SlaveAssumption

\* One period of a FIFO
LEMMA QueueStep ==
  ASSUME NEW S, NEW q, NEW pushed \in Short(S), NEW popped \in BOOLEAN,
         q.items \in Seq(S), popped => q.items # <<>>
  PROVE  /\ Clocked(q, pushed, popped).items \in Seq(S)
         /\ Len(Clocked(q, pushed, popped).items) = Len(q.items) - Bit(popped) + Len(pushed)
         /\ Len(Clocked(q, pushed, popped).items) <= Len(q.items) + Len(pushed)
         /\ ~Clocked(q, pushed, popped).empty => Clocked(q, pushed, popped).items # <<>>
<1> DEFINE rest == IF popped THEN Tail(q.items) ELSE q.items
<1>1. rest \in Seq(S) /\ Len(rest) = Len(q.items) - Bit(popped)
  BY DEF Bit
<1>2. pushed \in Seq(S)
  BY DEF Short
<1> HIDE DEF rest
<1>3. rest \o pushed \in Seq(S) /\ Len(rest \o pushed) = Len(rest) + Len(pushed)
  BY <1>1, <1>2
<1>4. rest # <<>> => rest \o pushed # <<>>
  BY <1>1, <1>2
<1>5. Clocked(q, pushed, popped) = [items |-> rest \o pushed, empty |-> rest = <<>>]
  BY DEF Clocked, rest
<1> HIDE DEF rest
<1>6. /\ Len(rest \o pushed) = Len(q.items) - Bit(popped) + Len(pushed)
      /\ Len(rest \o pushed) <= Len(q.items) + Len(pushed)
  <2>1. Len(q.items) \in Nat /\ Len(pushed) \in Nat /\ Bit(popped) \in {0, 1}
    BY <1>2 DEF Bit
  <2>2. Len(rest \o pushed) = Len(q.items) - Bit(popped) + Len(pushed)
    BY <1>1, <1>3
  <2> QED
    BY ONLY <2>1, <2>2
<1>7. /\ Clocked(q, pushed, popped).items = rest \o pushed
      /\ Clocked(q, pushed, popped).empty = (rest = <<>>)
  BY <1>5
<1> QED
  BY ONLY <1>3, <1>4, <1>6, <1>7

LEMMA WhenShort ==
  ASSUME NEW S, NEW x \in S, NEW c \in BOOLEAN
  PROVE  When(c, x) \in Short(S) /\ Len(When(c, x)) = Bit(c)
  BY DEF When, Short, Bit

LEMMA NoneShort == ASSUME NEW S PROVE <<>> \in Short(S) /\ Len(<<>>) = 0
  BY DEF Short

LEMMA OneShort == ASSUME NEW S, NEW x \in S PROVE <<x>> \in Short(S) /\ Len(<<x>>) = 1
  BY DEF Short

-----------------------------------------------------------------------------
(* What the parser puts out.                                               *)

\* With a word it puts out a tag, without one at most the tag of the end; an operation
\* for the bus comes with its strobe.
Puts(in) ==
  /\ tagOut' \in Short(Tags) /\ passOut' \in Short(Words) /\ cfgOut' \in Short({"request"})
  /\ wbmOut' \in BOOLEAN /\ cycle' \in BOOLEAN /\ strobe' \in Short(Numbers)
  /\ number' \in Numbers
  /\ Taken(in) => Len(tagOut') = 1
  /\ ~Taken(in) => /\ Len(tagOut') = Bit(~wide.cyc /\ rxCyc)
                   /\ passOut' = <<>> /\ cfgOut' = <<>> /\ ~wbmOut'
  /\ wbmOut' => Len(strobe') = 1
  /\ ~wbmOut' => Len(strobe') = IF in.busStall THEN Len(strobe) ELSE 0

LEMMA KeepStrobeIs ==
  ASSUME Typed, NEW in \in Inputs, KeepStrobe(in)
  PROVE  /\ strobe' \in Short(Numbers)
         /\ Len(strobe') = IF in.busStall THEN Len(strobe) ELSE 0
  BY NoneShort DEF KeepStrobe, Typed

LEMMA NoRequestIs ==
  ASSUME NoRequest
  PROVE  cfgOut' = <<>> /\ cfgOut' \in Short({"request"}) /\ ~wbmOut' /\ wbmOut' \in BOOLEAN
  BY NoneShort DEF NoRequest

LEMMA EmitIs ==
  ASSUME NEW tag \in Tags, NEW words \in Short(Words), Emit(tag, words)
  PROVE  tagOut' \in Short(Tags) /\ Len(tagOut') = 1 /\ passOut' \in Short(Words)
  BY OneShort DEF Emit

LEMMA IssueIs ==
  ASSUME Typed, NEW in \in Inputs, NEW config, NEW ends, Issue(in, config, ends)
  PROVE  /\ cfgOut' \in Short({"request"}) /\ wbmOut' \in BOOLEAN /\ cycle' \in BOOLEAN
         /\ strobe' \in Short(Numbers) /\ number' \in Numbers
         /\ wbmOut' => Len(strobe') = 1
         /\ ~wbmOut' => Len(strobe') = IF in.busStall THEN Len(strobe) ELSE 0
<1>1. cfgOut' \in Short({"request"}) /\ wbmOut' \in BOOLEAN /\ cycle' \in BOOLEAN
  BY NoneShort, OneShort DEF Issue, When, CycleAfter, Typed
<1>2. CASE config
  <2>1. KeepStrobe(in) /\ number' = number /\ ~wbmOut'
    BY <1>2 DEF Issue
  <2> QED
    BY <1>1, <2>1, KeepStrobeIs DEF Typed
<1>3. CASE ~config
  <2>1. strobe' = <<number>> /\ number' = Other(number) /\ wbmOut'
    BY <1>3 DEF Issue
  <2>2. strobe' \in Short(Numbers) /\ Len(strobe') = 1
    BY <2>1, OneShort DEF Typed
  <2>3. number' \in Numbers
    BY <2>1 DEF Other, Numbers
  <2> QED
    BY <1>1, <2>1, <2>2, <2>3
<1> QED
  BY <1>2, <1>3

\* A word that asks nothing of the bus
LEMMA PassesWord ==
  ASSUME Typed, NEW in \in Inputs, Taken(in), NEW tag \in Tags, NEW words \in Short(Words),
         Emit(tag, words), NoRequest, KeepStrobe(in), number' = number, cycle' \in BOOLEAN
  PROVE  Puts(in)
  BY EmitIs, NoRequestIs, KeepStrobeIs DEF Puts, Typed

LEMMA FsmPuts ==
  ASSUME Typed, NEW in \in Inputs, Fsm(in)
  PROVE  Puts(in)
<1>1. cycle \in BOOLEAN /\ number \in Numbers /\ rxCyc \in BOOLEAN
  BY DEF Typed
<1>2. CASE Idle(in)
  <2>1. /\ tagOut' = When(rxCyc, "drop_tx") /\ passOut' = <<>> /\ NoRequest /\ KeepStrobe(in)
        /\ number' = number /\ ~wide.cyc /\ cycle' = FALSE
    BY <1>2 DEF Idle
  <2>2. tagOut' \in Short(Tags) /\ Len(tagOut') = Bit(rxCyc)
    BY <1>1, <2>1, WhenShort DEF Tags
  <2>3. ~Taken(in) /\ Bit(~wide.cyc /\ rxCyc) = Bit(rxCyc)
    BY <2>1 DEF Taken, Bit
  <2> QED
    BY <1>1, <2>1, <2>2, <2>3, NoRequestIs, KeepStrobeIs, NoneShort DEF Puts
<1>3. CASE Waiting(in)
  <2>1. /\ tagOut' = <<>> /\ passOut' = <<>> /\ NoRequest /\ KeepStrobe(in)
        /\ number' = number /\ wide.cyc /\ cycle' = cycle /\ ~Taken(in)
    BY <1>3 DEF Waiting
  <2>2. Bit(~wide.cyc /\ rxCyc) = 0
    BY <2>1 DEF Bit
  <2> QED
    BY <1>1, <2>1, <2>2, NoRequestIs, KeepStrobeIs, NoneShort DEF Puts
<1>4. CASE Taken(in) /\ EbHeader(in)
  <2>1. PICK h \in EbHeaders :
          Emit(IF h.known /\ ~h.silent THEN "pass_tx" ELSE "skip_tx",
               When(h.known /\ ~h.silent, "header"))
    BY <1>4 DEF EbHeader
  <2>2. When(h.known /\ ~h.silent, "header") \in Short(Words)
    BY WhenShort DEF Words
  <2>3. (IF h.known /\ ~h.silent THEN "pass_tx" ELSE "skip_tx") \in Tags
    BY DEF Tags
  <2>4. NoRequest /\ KeepStrobe(in) /\ number' = number /\ cycle' = cycle
    BY <1>4 DEF EbHeader
  <2> QED
    BY <1>1, <1>4, <2>1, <2>2, <2>3, <2>4, PassesWord
<1>5. CASE Taken(in) /\ RecordHeader(in)
  <2>1. PICK h \in RecordHeaders :
          /\ Emit("pass_on", <<IF h.writes # 0 THEN "zero" ELSE "record">>)
          /\ cycle' = (cycle /\ ~(h.writes = 0 /\ h.reads = 0 /\ h.last))
    BY <1>5 DEF RecordHeader
  <2>2. <<IF h.writes # 0 THEN "zero" ELSE "record">> \in Short(Words) /\ "pass_on" \in Tags
    BY OneShort DEF Words, Tags
  <2>3. NoRequest /\ KeepStrobe(in) /\ number' = number
    BY <1>5 DEF RecordHeader
  <2> QED
    BY <1>5, <2>1, <2>2, <2>3, PassesWord
<1>6. CASE Taken(in) /\ \E from, word, to : word \in Words /\ Copy(in, from, word, to)
  <2>1. PICK from, word, to : word \in Words /\ Copy(in, from, word, to)
    BY <1>6
  <2>2. <<word>> \in Short(Words) /\ "pass_on" \in Tags
    BY <2>1, OneShort DEF Tags
  <2>3. /\ Emit("pass_on", <<word>>) /\ NoRequest /\ KeepStrobe(in) /\ number' = number
        /\ cycle' = cycle
    BY <2>1 DEF Copy
  <2> QED
    BY <1>1, <1>6, <2>2, <2>3, PassesWord
<1>7. CASE Taken(in) /\ Write(in)
  <2> DEFINE tag == IF record.writeConfig THEN "cfg_ign" ELSE "wbm_ign"
             word == IF record.writes = 1 THEN "record" ELSE "zero"
             ends == record.writes = 1 /\ record.reads = 0
  <2>1. Emit(tag, <<word>>) /\ Issue(in, record.writeConfig, ends)
    BY <1>7 DEF Write
  <2>2. tag \in Tags /\ <<word>> \in Short(Words)
    BY OneShort DEF Tags, Words
  <2> HIDE DEF tag, word, ends
  <2> QED
    BY <1>7, <2>1, <2>2, EmitIs, IssueIs DEF Puts
<1>8. CASE Taken(in) /\ Read(in)
  <2> DEFINE tag == IF record.readConfig THEN "cfg_req" ELSE "wbm_req"
             ends == record.reads = 1
  <2>1. Emit(tag, <<>>) /\ Issue(in, record.readConfig, ends)
    BY <1>8 DEF Read
  <2>2. tag \in Tags /\ <<>> \in Short(Words)
    BY NoneShort DEF Tags
  <2> HIDE DEF tag, ends
  <2> QED
    BY <1>8, <2>1, <2>2, EmitIs, IssueIs DEF Puts
<1>9. {"probe id", "zero", "address"} \subseteq Words
  BY DEF Words
<1> QED
  BY <1>2, <1>3, <1>4, <1>5, <1>6, <1>7, <1>8, <1>9 DEF Fsm

-----------------------------------------------------------------------------
(* The pace of words.                                                      *)

LEMMA Pace ==
  ASSUME Typed, Paced, NEW in \in Inputs, Puts(in), Widen(in)
  PROVE  /\ wide' \in [cyc : BOOLEAN, drop : BOOLEAN, stb : BOOLEAN, idx : Int]
         /\ Paced'
         /\ Taken(in) => ~wide'.stb
         /\ wide.stb /\ ~Taken(in) => wide'.stb
         /\ wide'.drop => wide.stb /\ (wide.drop \/ ~in.cyc)
         /\ ~wide'.cyc => ~wide.stb /\ (wide.drop \/ ~in.cyc)
         /\ wide'.stb /\ ~wide.stb => ~wide.drop /\ in.cyc
<1> DEFINE push == in.cyc /\ in.stb /\ ~WidenStall(in)
<1>1. /\ wide'.cyc = IF wide.drop THEN wide.stb ELSE wide.stb \/ in.cyc
      /\ wide'.drop = (wide.stb /\ (wide.drop \/ ~in.cyc))
      /\ wide'.stb = ((wide.stb /\ Stall(in)) \/ (push /\ wide.idx = 0))
      /\ wide'.idx = IF ~in.cyc THEN Parts - 1
                     ELSE IF push THEN (wide.idx - 1) % Parts ELSE wide.idx
      /\ DOMAIN wide' = {"cyc", "drop", "stb", "idx"}
  BY DEF Widen
<1>2. /\ {wide.cyc, wide.drop, wide.stb, in.cyc, in.stb} \subseteq BOOLEAN /\ wide.idx \in Int
      /\ Parts \in Nat /\ Parts >= 2 /\ (0 - 1) % Parts = Parts - 1
  <2>1. Parts \in Nat \ {0} /\ Parts >= 2
    BY SlaveAssumption
  <2>2. (0 - 1) % Parts = Parts - 1
    BY <2>1, Wraps
  <2>3. wide \in [cyc : BOOLEAN, drop : BOOLEAN, stb : BOOLEAN, idx : Int]
    BY DEF Typed
  <2> QED
    BY <2>1, <2>2, <2>3 DEF Inputs
<1>3. push => in.cyc /\ ~wide.drop /\ ~(wide.stb /\ Stall(in))
  BY <1>2 DEF WidenStall
<1>4. Taken(in) <=> wide.cyc /\ wide.stb /\ ~Stall(in)
  BY <1>2 DEF Taken
<1> HIDE DEF push
<1>5. /\ wide'.stb => wide'.cyc
      /\ wide'.drop => wide'.cyc
  BY <1>1, <1>2, <1>3
<1>6. wide.stb \/ wide.drop \/ ~wide.cyc => wide.idx = Parts - 1 /\ wide.idx # 0
  BY <1>2 DEF Paced
<1>7. wide'.stb => wide'.idx = Parts - 1
  <2>1. CASE push /\ wide.idx = 0
    BY <1>1, <1>2, <1>3, <2>1
  <2>2. CASE wide.stb /\ Stall(in)
    BY <1>1, <1>3, <1>6, <2>2
  <2> QED
    BY <1>1, <2>1, <2>2
<1>8. wide'.drop => wide'.idx = Parts - 1
  BY <1>1, <1>2, <1>3, <1>6
<1>9. ~wide'.cyc => wide'.idx = Parts - 1
  BY <1>1, <1>2, <1>3, <1>6
<1>10. Taken(in) => ~wide'.stb
  BY <1>1, <1>4, <1>6
<1>11. tagOut' # <<>> => ~wide'.stb
  <2>1. CASE Taken(in)
    BY <1>10, <2>1
  <2>2. CASE ~Taken(in) /\ wide.cyc
    <3>1. Len(tagOut') = 0 /\ tagOut' \in Seq(Tags)
      BY <2>2 DEF Puts, Bit, Short
    <3> QED
      BY <3>1
  <2>3. CASE ~wide.cyc
    BY <1>1, <1>6, <2>3 DEF Paced
  <2> QED
    BY <2>1, <2>2, <2>3
<1>12. passOut' # <<>> \/ cfgOut' # <<>> \/ wbmOut' => tagOut' # <<>>
  <2>1. Taken(in) => tagOut' # <<>>
    BY SMTT(30) DEF Puts
  <2> QED
    BY <2>1 DEF Puts
<1>13. Paced'
  BY <1>5, <1>7, <1>8, <1>9, <1>11, <1>12 DEF Paced
<1>14. wide.stb /\ ~Taken(in) => wide'.stb
  BY <1>1, <1>4 DEF Paced
<1>15. wide' \in [cyc : BOOLEAN, drop : BOOLEAN, stb : BOOLEAN, idx : Int]
  <2>1. wide'.idx \in Int
    BY <1>1, <1>2
  <2>2. wide'.cyc \in BOOLEAN /\ wide'.drop \in BOOLEAN /\ wide'.stb \in BOOLEAN
    BY <1>1, <1>2
  <2>3. wide' = [cyc |-> wide'.cyc, drop |-> wide'.drop, stb |-> wide'.stb, idx |-> wide'.idx]
    BY DEF Widen
  <2> QED
    BY <2>1, <2>2, <2>3
<1>16. wide'.stb /\ ~wide.stb => ~wide.drop /\ in.cyc
  BY <1>1, <1>3
<1>17. ~wide'.cyc => ~wide.stb /\ (wide.drop \/ ~in.cyc)
  BY <1>1, <1>2
<1>18. wide'.drop => wide.stb /\ (wide.drop \/ ~in.cyc)
  BY <1>1
<1> QED
  BY <1>10, <1>13, <1>14, <1>15, <1>16, <1>17, <1>18

-----------------------------------------------------------------------------
(* The FIFOs of the parser.                                                *)

LEMMA TagFifoStep ==
  ASSUME Typed, Showing, NEW in \in Inputs, TagFifo(in)
  PROVE  /\ tags'.items \in Seq(Tags) /\ (~tags'.empty => tags'.items # <<>>)
         /\ Len(tags'.items) <= Len(tags.items) + Len(tagOut)
<1> DEFINE pop == PopTag(in)
<1>1. pop \in BOOLEAN /\ (pop => tags.items # <<>>)
  BY DEF PopTag, Showing
<1>2. tags' = Clocked(tags, tagOut, pop)
  BY DEF TagFifo
<1> HIDE DEF pop
<1>3. tagOut \in Short(Tags) /\ tags.items \in Seq(Tags)
  BY DEF Typed
<1>4. /\ tags'.items \in Seq(Tags) /\ (~tags'.empty => tags'.items # <<>>)
      /\ Len(tags'.items) <= Len(tags.items) + Len(tagOut)
  BY ONLY <1>1, <1>2, <1>3, QueueStep
<1> QED
  BY <1>4

LEMMA PassFifoStep ==
  ASSUME Typed, Showing, NEW in \in Inputs, PassFifo(in)
  PROVE  /\ passes'.items \in Seq(Words) /\ (~passes'.empty => passes'.items # <<>>)
         /\ Len(passes'.items) <= Len(passes.items) + Len(passOut)
<1> DEFINE pop == PopPass(in)
<1>1. pop \in BOOLEAN
  BY DEF PopPass
<1>2. pop => passes.items # <<>>
  BY DEF PopPass, TagDone, Missing, Showing
<1>3. passes' = Clocked(passes, passOut, pop)
  BY DEF PassFifo
<1> HIDE DEF pop
<1>4. passOut \in Short(Words) /\ passes.items \in Seq(Words)
  BY DEF Typed
<1>5. /\ passes'.items \in Seq(Words) /\ (~passes'.empty => passes'.items # <<>>)
      /\ Len(passes'.items) <= Len(passes.items) + Len(passOut)
  BY ONLY <1>1, <1>2, <1>3, <1>4, QueueStep
<1> QED
  BY <1>5

LEMMA CfgFifoStep ==
  ASSUME Typed, Showing, NEW in \in Inputs, CfgFifo(in)
  PROVE  /\ configs'.items \in Seq({"request"}) /\ (~configs'.empty => configs'.items # <<>>)
         /\ Len(configs'.items) <= Len(configs.items) + Len(cfgOut)
<1> DEFINE pop == ~configs.empty /\ (cached.empty \/ PopCfg(in))
<1>1. pop \in BOOLEAN /\ (pop => configs.items # <<>>)
  BY DEF Showing
<1>2. configs' = Clocked(configs, cfgOut, pop)
  BY DEF CfgFifo
<1> DEFINE S == {"request"}
<1> HIDE DEF pop
<1>3. cfgOut \in Short(S) /\ configs.items \in Seq(S)
  BY DEF Typed
<1> HIDE DEF S
<1>4. /\ configs'.items \in Seq(S) /\ (~configs'.empty => configs'.items # <<>>)
      /\ Len(configs'.items) <= Len(configs.items) + Len(cfgOut)
  BY ONLY <1>1, <1>2, <1>3, QueueStep
<1> QED
  BY <1>4 DEF S

\* What has been counted leaves room for what a word puts out.
LEMMA RoomForWord ==
  ASSUME Typed, Paced, OthersFit, NEW in \in Inputs, Taken(in)
  PROVE  /\ tagOut = <<>> /\ passOut = <<>> /\ cfgOut = <<>> /\ ~wbmOut
         /\ (TagsFit => Len(tags.items) < Depth)
         /\ Len(passes.items) < Depth /\ Len(configs.items) < Depth
         /\ ~wbm.full /\ (cycle \/ ~Busy) /\ ~(strobe # <<>> /\ in.busStall)
<1>1. tagOut = <<>> /\ passOut = <<>> /\ cfgOut = <<>> /\ ~wbmOut
  BY DEF Taken, Paced
<1>2. /\ Len(tags.items) # Depth /\ Len(passes.items) # Depth /\ Len(configs.items) # Depth
      /\ ~wbm.full /\ (cycle \/ ~Busy) /\ ~(strobe # <<>> /\ in.busStall)
  BY DEF Taken, Stall, IsFull
<1>3. /\ Len(tags.items) \in Nat /\ Len(passes.items) \in Nat /\ Len(configs.items) \in Nat
      /\ Len(tagOut) = 0 /\ Len(passOut) = 0 /\ Len(cfgOut) = 0
  BY <1>1 DEF Typed
<1> QED
  BY <1>1, <1>2, <1>3, DepthType DEF TagsFit, OthersFit

LEMMA TagsStillFit ==
  ASSUME Typed, Showing, Paced, TagsFit, OthersFit, CarefulEnd, NEW in \in Inputs,
         SourceConforms(in), Puts(in), Widen(in), rxCyc' = wide.cyc, TagFifo(in)
  PROVE  TagsFit'
<1>1. /\ tags.items \in Seq(Tags) /\ tagOut \in Short(Tags) /\ tagOut' \in Short(Tags)
      /\ tags'.items \in Seq(Tags) /\ Len(tags'.items) <= Len(tags.items) + Len(tagOut)
      /\ wide.stb \in BOOLEAN /\ wide.cyc \in BOOLEAN /\ wide.drop \in BOOLEAN
      /\ in.cyc \in BOOLEAN /\ rxCyc \in BOOLEAN
  BY TagFifoStep DEF Typed, Puts, Inputs
<1> DEFINE n == Len(tags.items)
           m == Len(tagOut)
           n2 == Len(tags'.items)
           m2 == Len(tagOut')
<1>2. n \in Nat /\ m \in Nat /\ n2 \in Nat /\ m2 \in Nat /\ n2 <= n + m /\ Depth \in Nat
  BY <1>1, DepthType DEF Short
<1>3. n + m <= Depth /\ (Ending => n + m + Bit(wide.stb) < Depth)
  BY DEF TagsFit
<1>4. wide.cyc /\ ~wide.drop /\ ~in.cyc => n + m + Bit(wide.stb) < Depth
  BY DEF SourceConforms, RoomToEnd, Bit
<1>5. CASE Taken(in)
  <2>1. m = 0 /\ n < Depth /\ m2 = 1 /\ wide.stb /\ ~wide'.stb
    BY <1>5, RoomForWord, Pace DEF Puts, Taken
  <2>2. n2 + m2 <= Depth
    BY <1>2, <2>1
  <2>3. Ending' => Ending \/ (wide.cyc /\ ~wide.drop /\ ~in.cyc)
    BY <1>1, <1>5, Pace DEF Ending, Taken
  <2>4. Ending' => n2 + m2 + Bit(wide'.stb) < Depth
    BY <1>2, <1>3, <1>4, <2>1, <2>3 DEF Bit
  <2> QED
    BY <2>2, <2>4 DEF TagsFit
<1>6. CASE ~Taken(in) /\ wide.cyc
  <2>1. m2 = 0
    BY <1>6 DEF Puts, Bit
  <2>2. n2 + m2 <= Depth
    BY <1>2, <1>3, <2>1
  <2>3. Ending' => Ending \/ (wide.cyc /\ ~wide.drop /\ ~in.cyc)
    BY <1>1, <1>6, Pace DEF Ending
  <2>4. Ending' => (wide'.stb => wide.stb)
    BY <1>1, Pace DEF Ending, Paced
  <2>5. Ending' => n2 + m2 + Bit(wide'.stb) < Depth
    <3>1. /\ Bit(wide.stb) \in {0, 1} /\ Bit(wide'.stb) \in {0, 1}
          /\ Ending' => Bit(wide'.stb) <= Bit(wide.stb)
      BY <1>1, <2>4 DEF Bit
    <3>2. Ending' => n + m + Bit(wide.stb) < Depth
      BY <1>3, <1>4, <2>3
    <3> HIDE DEF n, m, n2, m2
    <3> QED
      BY ONLY <1>2, <2>1, <3>1, <3>2
  <2> QED
    BY <2>2, <2>5 DEF TagsFit
<1>7. CASE ~wide.cyc
  <2>1. ~Taken(in) /\ ~wide.stb /\ ~wide.drop
    BY <1>1, <1>7 DEF Taken, Paced
  <2>2. m2 = Bit(rxCyc)
    BY <1>7, <2>1 DEF Puts, Bit
  <2>3. n2 + m2 <= Depth
    <3>1. CASE rxCyc
      <4>1. m2 = 1 /\ n + m < Depth
        BY <1>1, <1>2, <1>3, <1>7, <2>1, <2>2, <3>1 DEF Bit, Ending
      <4> HIDE DEF n, m, n2, m2
      <4> QED
        BY ONLY <1>2, <4>1
    <3>2. CASE ~rxCyc
      <4>1. m2 = 0
        BY <2>2, <3>2 DEF Bit
      <4> HIDE DEF n, m, n2, m2
      <4> QED
        BY ONLY <1>2, <1>3, <4>1
    <3> QED
      BY <3>1, <3>2
  <2>4. ~Ending'
    BY <1>1, <1>7, <2>1, Pace DEF Ending
  <2> QED
    BY <2>3, <2>4 DEF TagsFit
<1> QED
  BY <1>5, <1>6, <1>7

LEMMA OthersStillFit ==
  ASSUME Typed, Showing, Paced, OthersFit, NEW in \in Inputs,
         Puts(in), PassFifo(in), CfgFifo(in)
  PROVE  OthersFit'
<1>1. /\ passes.items \in Seq(Words) /\ passOut \in Short(Words) /\ passOut' \in Short(Words)
      /\ passes'.items \in Seq(Words) /\ Len(passes'.items) <= Len(passes.items) + Len(passOut)
      /\ configs.items \in Seq({"request"}) /\ cfgOut \in Short({"request"})
      /\ cfgOut' \in Short({"request"}) /\ configs'.items \in Seq({"request"})
      /\ Len(configs'.items) <= Len(configs.items) + Len(cfgOut)
  BY PassFifoStep, CfgFifoStep DEF Typed, Puts
<1> DEFINE a == Len(passes.items)
           b == Len(passOut)
           a2 == Len(passes'.items)
           b2 == Len(passOut')
           c == Len(configs.items)
           d == Len(cfgOut)
           c2 == Len(configs'.items)
           d2 == Len(cfgOut')
<1>2. /\ {a, b, a2, b2, c, d, c2, d2} \subseteq Nat /\ a2 <= a + b /\ b2 <= 1
      /\ c2 <= c + d /\ d2 <= 1 /\ Depth \in Nat
  BY <1>1, DepthType, SMTT(40) DEF Short
<1>3. CASE Taken(in)
  <2>1. b = 0 /\ a < Depth /\ d = 0 /\ c < Depth
    BY <1>3, RoomForWord
  <2> QED
    BY <1>2, <2>1 DEF OthersFit
<1>4. CASE ~Taken(in)
  <2>1. b2 = 0 /\ d2 = 0
    BY <1>4 DEF Puts
  <2> QED
    BY <1>2, <2>1 DEF OthersFit
<1> QED
  BY <1>3, <1>4

-----------------------------------------------------------------------------
(* The counters of the bus.                                                *)

\* A counter of as many values as the FIFO has entries follows the count.
LEMMA CountStep ==
  ASSUME NEW n \in 0..Depth, NEW up \in BOOLEAN, NEW down \in BOOLEAN,
         n + Bit(up) - Bit(down) \in 0..Depth
  PROVE  Counted(n % Depth, up, down) = (n + Bit(up) - Bit(down)) % Depth
<1>1. /\ Depth \in Nat \ {0} /\ Depth >= 2 /\ Depth % Depth = 0
      /\ (0 - 1) % Depth = Depth - 1 /\ \A k \in 0..Depth - 1 : k % Depth = k
  <2>1. Depth \in Nat \ {0}
    BY DepthType
  <2> QED
    BY <2>1, DepthType, Wraps
<1>2. Counted(n % Depth, up, down) = ((n % Depth) + Bit(up) - Bit(down)) % Depth
  BY DEF Counted, Bit
<1>3. CASE n \in 0..Depth - 1
  BY <1>1, <1>2, <1>3
<1>4. CASE n = Depth /\ (up <=> down)
  <2>1. n % Depth = 0 /\ Bit(up) = Bit(down) /\ Bit(up) \in {0, 1}
    BY <1>1, <1>4 DEF Bit
  <2>2. (n % Depth) + Bit(up) - Bit(down) = 0 /\ n + Bit(up) - Bit(down) = Depth
    BY <1>1, <1>4, <2>1
  <2>3. 0 % Depth = 0
    BY <1>1
  <2> QED
    BY <1>1, <1>2, <2>2, <2>3
<1>5. CASE n = Depth /\ ~up /\ down
  <2>1. n % Depth = 0 /\ Bit(up) = 0 /\ Bit(down) = 1
    BY <1>1, <1>5 DEF Bit
  <2>2. (n % Depth) + Bit(up) - Bit(down) = 0 - 1 /\ n + Bit(up) - Bit(down) = Depth - 1
    <3>1. (n % Depth) + Bit(up) - Bit(down) = 0 - 1
      BY ONLY <2>1
    <3>2. n + Bit(up) - Bit(down) = Depth - 1
      <4>1. n = Depth /\ Depth \in Nat /\ Bit(up) = 0 /\ Bit(down) = 1
        BY <1>1, <1>5, <2>1
      <4> QED
        BY ONLY <4>1
    <3> QED
      BY ONLY <3>1, <3>2
  <2>3. (Depth - 1) % Depth = Depth - 1
    BY <1>1
  <2> QED
    BY <1>1, <1>2, <2>2, <2>3
<1>6. ~(n = Depth /\ up /\ ~down)
  BY <1>1 DEF Bit
<1> QED
  BY <1>1, <1>3, <1>4, <1>5, <1>6

\* The bus has what it is made to acknowledge.
LEMMA Acknowledges ==
  ASSUME Typed, Counts, NEW in \in Inputs, BusConforms(in), Ready(in)
  PROVE  /\ onBus \o strobe # <<>>
         /\ (IF in.busStall THEN onBus ELSE onBus \o strobe) # <<>>
<1>1. onBus \in Seq(Numbers) /\ strobe \in Seq(Numbers)
  BY DEF Typed, Short
<1>2. onBus # <<>> \/ (strobe # <<>> /\ ~in.busStall)
  BY DEF Counts, Ready, BusConforms
<1> QED
  BY <1>1, <1>2

LEMMA BusStep ==
  ASSUME Typed, Paced, OthersFit, Counts, NEW in \in Inputs, BusConforms(in),
         Puts(in), Bus(in)
  PROVE  /\ onBus' \in Seq(Numbers)
         /\ InFlight' = InFlight + Bit(wbmOut) - Bit(Ready(in)) /\ InFlight' >= 0
<1> DEFINE accepted == IF in.busStall THEN onBus ELSE onBus \o strobe
<1>1. /\ onBus \in Seq(Numbers) /\ strobe \in Seq(Numbers) /\ strobe' \in Seq(Numbers)
      /\ in.busStall \in BOOLEAN /\ Len(strobe) \in Nat /\ Len(onBus) \in Nat
      /\ wbmOut \in BOOLEAN /\ wbmOut' \in BOOLEAN
  BY DEF Typed, Short, Puts, Inputs
<1>2. /\ accepted \in Seq(Numbers)
      /\ Len(accepted) = Len(onBus) + (IF in.busStall THEN 0 ELSE Len(strobe))
  BY <1>1
<1>3. Ready(in) => accepted # <<>>
  BY Acknowledges
<1>4. onBus' = IF Ready(in) THEN Tail(accepted) ELSE accepted
  BY DEF Bus
<1> HIDE DEF accepted
<1>5. /\ onBus' \in Seq(Numbers) /\ Len(onBus') = Len(accepted) - Bit(Ready(in))
      /\ Len(onBus') \in Nat
  <2>1. CASE Ready(in)
    BY <1>2, <1>3, <1>4, <2>1 DEF Bit
  <2>2. CASE ~Ready(in)
    BY <1>2, <1>4, <2>2 DEF Bit
  <2> QED
    BY <2>1, <2>2
<1>6. Bit(Ready(in)) \in {0, 1}
  BY DEF Bit
<1>7. CASE wbmOut'
  <2>1. Taken(in)
    BY <1>7 DEF Puts
  <2>2. ~in.busStall /\ Len(strobe') = 1
    BY <1>7, <2>1, RoomForWord DEF BusConforms, Puts
  <2>3. Bit(wbmOut') = 1
    BY <1>7 DEF Bit
  <2>4. InFlight' = Len(onBus') + 1 - 1
    BY <2>2, <2>3 DEF InFlight
  <2>5. InFlight = Len(onBus) + Len(strobe) - Bit(wbmOut) /\ Bit(wbmOut) \in {0, 1}
    BY DEF InFlight, Bit
  <2> QED
    BY <1>1, <1>2, <1>5, <1>6, <2>2, <2>4, <2>5
<1>8. CASE ~wbmOut'
  <2>1. Len(strobe') = IF in.busStall THEN Len(strobe) ELSE 0
    BY <1>8 DEF Puts
  <2>2. Bit(wbmOut') = 0
    BY <1>8 DEF Bit
  <2>3. InFlight' = Len(onBus') + Len(strobe')
    BY <1>1, <1>5, <2>1, <2>2 DEF InFlight
  <2>4. InFlight = Len(onBus) + Len(strobe) - Bit(wbmOut) /\ Bit(wbmOut) \in {0, 1}
    BY DEF InFlight, Bit
  <2>5. CASE in.busStall
    BY <1>1, <1>2, <1>5, <1>6, <2>1, <2>3, <2>4, <2>5
  <2>6. CASE ~in.busStall
    BY <1>1, <1>2, <1>5, <1>6, <2>1, <2>3, <2>4, <2>6
  <2> QED
    BY <2>5, <2>6
<1> QED
  BY <1>1, <1>5, <1>7, <1>8

LEMMA AnswersStep ==
  ASSUME Typed, Showing, Counts, NEW in \in Inputs, BusConforms(in), WbmFifo(in)
  PROVE  /\ answers'.items \in Seq(Numbers) /\ (~answers'.empty => answers'.items # <<>>)
         /\ Len(answers'.items) = Len(answers.items) - Bit(PopWbm(in)) + Bit(Ready(in))
         /\ PopWbm(in) \in BOOLEAN
<1> DEFINE pop == PopWbm(in)
           pushed == When(Ready(in), Head(onBus \o strobe))
<1>1. pop \in BOOLEAN /\ (pop => answers.items # <<>>)
  BY DEF PopWbm, TagDone, Missing, Showing
<1>2. pushed \in Short(Numbers) /\ Len(pushed) = Bit(Ready(in))
  <2>1. CASE Ready(in)
    <3>1. onBus \o strobe # <<>> /\ onBus \o strobe \in Seq(Numbers)
      BY <2>1, Acknowledges DEF Typed, Short
    <3>2. Head(onBus \o strobe) \in Numbers
      BY <3>1
    <3> QED
      BY <2>1, <3>2, OneShort DEF When, Bit
  <2>2. CASE ~Ready(in)
    BY <2>2, NoneShort DEF When, Bit
  <2> QED
    BY <2>1, <2>2
<1>3. answers' = Clocked(answers, pushed, pop) /\ answers.items \in Seq(Numbers)
  BY DEF WbmFifo, Typed
<1> HIDE DEF pop, pushed
<1>4. /\ answers'.items \in Seq(Numbers) /\ (~answers'.empty => answers'.items # <<>>)
      /\ Len(answers'.items) = Len(answers.items) - Bit(pop) + Len(pushed)
  BY ONLY <1>1, <1>2, <1>3, QueueStep
<1> QED
  BY <1>1, <1>2, <1>4 DEF pop

LEMMA CountsStill ==
  ASSUME Typed, Showing, Paced, OthersFit, Counts, NEW in \in Inputs,
         BusConforms(in), Puts(in), Bus(in), WbmFifo(in)
  PROVE  Counts'
<1> DEFINE k == InFlight
           q == Queued
           w == Bit(wbmOut)
           d == Bit(Ready(in))
           p == Bit(PopWbm(in))
           a == Len(answers.items)
           w2 == Bit(wbmOut')
<1>1. /\ wbmOut \in BOOLEAN /\ Ready(in) \in BOOLEAN /\ PopWbm(in) \in BOOLEAN
      /\ {w, d, p, w2} \subseteq {0, 1} /\ a \in Nat /\ Depth \in Nat /\ Depth >= 2
      /\ Len(answers'.items) \in Nat
  <2>1. PopWbm(in) \in BOOLEAN /\ answers'.items \in Seq(Numbers)
    BY AnswersStep
  <2>2. wbmOut \in BOOLEAN /\ answers.items \in Seq(Numbers)
    BY DEF Typed
  <2>3. Ready(in) \in BOOLEAN
    BY DEF Ready
  <2>4. {w, d, p, w2} \subseteq {0, 1}
    BY DEF Bit
  <2> QED
    BY <2>1, <2>2, <2>3, <2>4, DepthType
<1>2. k \in 0..Depth /\ q = k + a /\ q + w <= Depth
  BY DEF Counts, Queued
<1>3. InFlight' = k + w - d /\ InFlight' >= 0
  BY BusStep
<1>4. Queued' = q + w - p
  <2>1. Len(answers'.items) = a - p + d
    BY AnswersStep
  <2>2. Queued' = InFlight' + Len(answers'.items)
    BY DEF Queued
  <2> HIDE DEF k, q, w, d, p, a
  <2> QED
    BY ONLY <1>1, <1>2, <1>3, <2>1, <2>2, SMTT(30)
<1>5. Queued' = InFlight' + Len(answers'.items)
  BY DEF Queued
<1>6. Queued' + w2 <= Depth
  <2>1. CASE wbmOut'
    <3>1. Taken(in)
      BY <2>1 DEF Puts
    <3>2. w = 0 /\ ~wbm.full
      BY <3>1, RoomForWord DEF Bit
    <3>3. q # Depth
      BY <3>2 DEF Counts
    <3> HIDE DEF k, q, w, d, p, a, w2
    <3> QED
      BY ONLY <1>1, <1>2, <1>4, <3>2, <3>3
  <2>2. CASE ~wbmOut'
    <3>1. w2 = 0
      BY <2>2 DEF Bit
    <3> HIDE DEF k, q, w, d, p, a, w2
    <3> QED
      BY ONLY <1>1, <1>2, <1>4, <3>1
  <2> QED
    BY <2>1, <2>2
<1> HIDE DEF k, q, w, d, p, a, w2
<1>7. InFlight' \in 0..Depth /\ Queued' \in 0..Depth /\ q \in 0..Depth
      /\ k + w - d \in 0..Depth /\ q + w - p \in 0..Depth
  BY ONLY <1>1, <1>2, <1>3, <1>4, <1>5, <1>6
<1>8. wbm'.inflight = InFlight' % Depth
  <2>1. wbm'.inflight = Counted(k % Depth, wbmOut, Ready(in))
    BY DEF WbmFifo, Counts, k
  <2>2. Counted(k % Depth, wbmOut, Ready(in)) = (k + w - d) % Depth
    BY <1>1, <1>2, <1>7, CountStep DEF w, d
  <2> QED
    BY ONLY <1>3, <2>1, <2>2
<1>9. wbm'.queued = Queued' % Depth
  <2>1. wbm'.queued = Counted(q % Depth, wbmOut, PopWbm(in))
    BY DEF WbmFifo, Counts, q
  <2>2. Counted(q % Depth, wbmOut, PopWbm(in)) = (q + w - p) % Depth
    BY <1>1, <1>2, <1>7, CountStep DEF w, p
  <2> QED
    BY ONLY <1>4, <2>1, <2>2
<1>10. wbm'.busy <=> InFlight' > 0
  <2>1. /\ wbm'.busy = StillBusy(wbmOut, Ready(in)) /\ (wbm.busy <=> k > 0)
        /\ wbm.inflight = k % Depth
    BY DEF WbmFifo, Counts, k
  <2>2. wbm.inflight = 1 <=> k = 1
    <3>1. Depth \in Nat \ {0}
      BY <1>1
    <3>2. Depth % Depth = 0 /\ \A n \in 0..Depth - 1 : n % Depth = n
      BY <3>1, Wraps
    <3>3. CASE k = Depth
      BY <1>1, <2>1, <3>2, <3>3
    <3>4. CASE k \in 0..Depth - 1
      BY <2>1, <3>2, <3>4
    <3> QED
      BY <1>1, <1>2, <3>3, <3>4
  <2>3. wbm'.busy <=> \/ wbmOut /\ ~Ready(in)
                      \/ wbm.busy /\ ~(~wbmOut /\ Ready(in) /\ wbm.inflight = 1)
    BY <2>1 DEF StillBusy
  <2>4. /\ w = IF wbmOut THEN 1 ELSE 0
        /\ d = IF Ready(in) THEN 1 ELSE 0
    BY DEF w, d, Bit
  <2> QED
    BY ONLY <1>1, <1>2, <1>3, <2>1, <2>2, <2>3, <2>4
<1>11. wbm'.full <=> Queued' = Depth
  <2>1. /\ wbm'.full = IF wbmOut /\ ~PopWbm(in) THEN wbm.full \/ wbm.queued = Depth - 1
                       ELSE IF ~wbmOut /\ PopWbm(in) THEN FALSE ELSE wbm.full
        /\ (wbm.full <=> q = Depth) /\ wbm.queued = q % Depth
    BY DEF WbmFifo, Counts, q
  <2>2. /\ w = IF wbmOut THEN 1 ELSE 0
        /\ p = IF PopWbm(in) THEN 1 ELSE 0
    BY DEF w, p, Bit
  <2>3. CASE wbmOut /\ ~PopWbm(in)
    <3>1. q \in 0..Depth - 1 /\ Queued' = q + 1
      BY ONLY <1>1, <1>4, <1>7, <1>2, <2>2, <2>3
    <3>2. q % Depth = q
      <4>1. Depth \in Nat \ {0}
        BY <1>1
      <4> QED
        BY <3>1, <4>1, Wraps
    <3>3. Depth \in Nat /\ q \in Nat /\ q < Depth
      BY <1>1, <3>1
    <3>4. wbm'.full <=> wbm.full \/ q = Depth - 1
      BY <2>1, <2>3, <3>2
    <3>5. ~wbm.full
      BY <2>1, <3>3
    <3>6. Queued' = Depth <=> q = Depth - 1
      BY ONLY <3>1, <3>3
    <3> QED
      BY ONLY <3>4, <3>5, <3>6
  <2>4. CASE ~wbmOut /\ PopWbm(in)
    BY ONLY <1>1, <1>4, <1>7, <2>1, <2>2, <2>4
  <2>5. CASE wbmOut <=> PopWbm(in)
    BY ONLY <1>1, <1>4, <1>7, <2>1, <2>2, <2>5
  <2> QED
    BY <1>1, <2>3, <2>4, <2>5
<1>12. wbm'.killAck => onBus' # <<>>
  <2> SUFFICES ASSUME wbm'.killAck PROVE onBus' # <<>>
    OBVIOUS
  <2>1. ~Ready(in) /\ wbm.busy /\ wbm.timeout = 1
    BY DEF WbmFifo
  <2>2. /\ onBus \in Seq(Numbers) /\ strobe \in Seq(Numbers)
        /\ Len(onBus) + Len(strobe) > 0
    <3>1. onBus \in Seq(Numbers) /\ strobe \in Seq(Numbers)
      BY DEF Typed, Short
    <3>2. InFlight > 0 /\ InFlight = Len(onBus) + Len(strobe) - Bit(wbmOut)
      BY <2>1 DEF Counts, InFlight
    <3>3. Bit(wbmOut) \in {0, 1} /\ Len(onBus) \in Nat /\ Len(strobe) \in Nat
      BY <3>1 DEF Bit
    <3> QED
      BY <3>1, <3>2, <3>3
  <2>3. onBus = <<>> => strobe # <<>> /\ ~in.busStall
    BY <2>1, <2>2 DEF BusConforms
  <2>4. onBus' = IF in.busStall THEN onBus ELSE onBus \o strobe
    BY <2>1 DEF Bus
  <2> QED
    BY <2>2, <2>3, <2>4
<1>13. Queued' + Bit(wbmOut)' <= Depth
  BY <1>6 DEF w2, Bit
<1> QED
  BY <1>7, <1>8, <1>9, <1>10, <1>11, <1>12, <1>13 DEF Counts

-----------------------------------------------------------------------------
(* The invariant holds.                                                    *)

LEMMA Starts == Init => CInv
<1> SUFFICES ASSUME Init PROVE CInv
  OBVIOUS
<1>1. Parts \in Nat /\ Parts - 1 \in Int /\ Depth \in Nat \ {0} /\ Depth >= 2 /\ 0 % Depth = 0
  <2>1. Depth \in Nat \ {0} /\ Depth >= 2
    BY DepthType
  <2> QED
    BY <2>1, Wraps, SlaveAssumption
<1>2. Typed
  <2>1. wide \in [cyc : BOOLEAN, drop : BOOLEAN, stb : BOOLEAN, idx : Int]
    BY <1>1 DEF Init
  <2>2. rxCyc = FALSE /\ wbmOut = FALSE /\ cycle = FALSE /\ number \in Numbers
    BY DEF Init, Numbers
  <2>3. tagOut = <<>> /\ passOut = <<>> /\ cfgOut = <<>> /\ strobe = <<>> /\ onBus = <<>>
    BY DEF Init
  <2>4. /\ tags.items = <<>> /\ passes.items = <<>> /\ configs.items = <<>>
        /\ answers.items = <<>>
    BY DEF Init, NewQueue
  <2>5. \A S : <<>> \in Short(S) /\ <<>> \in Seq(S)
    BY DEF Short
  <2>6. /\ tagOut \in Short(Tags) /\ passOut \in Short(Words) /\ cfgOut \in Short({"request"})
        /\ strobe \in Short(Numbers) /\ onBus \in Seq(Numbers)
    BY ONLY <2>3, <2>5
  <2>7. /\ tags.items \in Seq(Tags) /\ passes.items \in Seq(Words)
        /\ configs.items \in Seq({"request"}) /\ answers.items \in Seq(Numbers)
    BY ONLY <2>4, <2>5
  <2> QED
    BY <2>1, <2>2, <2>6, <2>7 DEF Typed
<1>3. Showing
  BY DEF Init, Showing, NewQueue
<1>4. Paced
  BY DEF Init, Paced
<1>5. OthersFit /\ TagsFit
  BY <1>1 DEF Init, OthersFit, TagsFit, NewQueue, Ending, Bit
<1>6. InFlight = 0 /\ Queued = 0 /\ Bit(wbmOut) = 0
  BY DEF Init, InFlight, Queued, Bit, NewQueue
<1>7. Counts
  BY <1>1, <1>6 DEF Counts, Init
<1> QED
  BY <1>2, <1>3, <1>4, <1>5, <1>7 DEF CInv

LEMMA Ticks ==
  ASSUME CInv, NEW in \in Inputs, Clock(in)
  PROVE  CInv'
<1>1. /\ Typed /\ Showing /\ Paced /\ OthersFit /\ Counts /\ (CarefulEnd => TagsFit)
      /\ BusConforms(in) /\ SourceConforms(in) /\ Widen(in) /\ Fsm(in) /\ TagFifo(in)
      /\ PassFifo(in) /\ CfgFifo(in) /\ WbmFifo(in) /\ Bus(in) /\ rxCyc' = wide.cyc
  BY DEF CInv, Clock, Fsm
<1>2. Puts(in)
  BY <1>1, FsmPuts
<1>3. Paced' /\ wide' \in [cyc : BOOLEAN, drop : BOOLEAN, stb : BOOLEAN, idx : Int]
  BY <1>1, <1>2, Pace
<1>4. /\ tags'.items \in Seq(Tags) /\ passes'.items \in Seq(Words)
      /\ configs'.items \in Seq({"request"}) /\ answers'.items \in Seq(Numbers)
      /\ Showing'
  BY <1>1, TagFifoStep, PassFifoStep, CfgFifoStep, AnswersStep DEF Showing
<1>5. onBus' \in Seq(Numbers)
  BY <1>1, <1>2, BusStep
<1>6. Typed'
  BY <1>1, <1>2, <1>3, <1>4, <1>5 DEF Typed, Puts
<1>7. OthersFit'
  BY <1>1, <1>2, OthersStillFit
<1>8. Counts'
  BY <1>1, <1>2, CountsStill
<1>9. CarefulEnd => TagsFit'
  BY <1>1, <1>2, TagsStillFit
<1> QED
  BY <1>3, <1>4, <1>6, <1>7, <1>8, <1>9 DEF CInv

LEMMA Stands ==
  ASSUME CInv, UNCHANGED vars
  PROVE  CInv'
<1> USE DEF vars, widenVars, fsmVars, queueVars, muxVars
<1>1. Typed'
  BY DEF CInv, Typed
<1>2. Showing' /\ Paced'
  BY DEF CInv, Showing, Paced
<1>3. OthersFit' /\ (CarefulEnd => TagsFit')
  BY DEF CInv, OthersFit, TagsFit, Ending, Bit
<1>4. InFlight' = InFlight /\ Queued' = Queued /\ wbm' = wbm /\ wbmOut' = wbmOut /\ onBus' = onBus
  BY DEF InFlight, Queued, Bit
<1>5. Counts'
  BY <1>4 DEF CInv, Counts, Bit
<1> QED
  BY <1>1, <1>2, <1>3, <1>5 DEF CInv

THEOREM Counting == Spec => []CInv
<1>1. CInv /\ [Next]_vars => CInv'
  BY Ticks, Stands DEF Next
<1> QED
  BY Starts, <1>1, PTL DEF Spec

\* No FIFO is pushed beyond its size: what the parser puts out for a word was counted
\* before it takes the next one, and it stops at a full FIFO.  Only the tag of the end is
\* put out whether there is room or not.
THEOREM NoOverflow == ASSUME CarefulEnd PROVE Spec => []QueuesFit
<1>1. CInv => QueuesFit
  <2> SUFFICES ASSUME CInv PROVE QueuesFit
    OBVIOUS
  <2>1. /\ {Len(tags.items), Len(tagOut), Len(passes.items), Len(passOut),
            Len(configs.items), Len(cfgOut), Len(answers.items)} \subseteq Nat
        /\ Depth \in Nat
    BY DepthType DEF CInv, Typed, Short
  <2>2. /\ Len(tags.items) <= Depth /\ Len(passes.items) <= Depth
        /\ Len(configs.items) <= Depth
    BY <2>1 DEF CInv, TagsFit, OthersFit
  <2>3. /\ InFlight \in 0..Depth /\ InFlight + Len(answers.items) + Bit(wbmOut) <= Depth
        /\ Bit(wbmOut) \in {0, 1}
    BY DEF CInv, Counts, Queued, Bit
  <2>4. Len(answers.items) <= Depth
    BY ONLY <2>1, <2>3
  <2> QED
    BY <2>2, <2>4 DEF QueuesFit
<1> QED
  BY Counting, <1>1, PTL

\* The busy register says whether the bus has something to acknowledge, though its counter
\* is 0 both for no operation and for as many as fit the FIFO, and though the slave makes
\* acknowledgements up when the time is over.
THEOREM BusyIsExact == Spec => []BusyExact
<1>1. CInv => BusyExact
  <2> SUFFICES ASSUME CInv PROVE BusyExact
    OBVIOUS
  <2>1. wbm.busy <=> Len(onBus) + Len(strobe) - Bit(wbmOut) > 0
    BY DEF CInv, Counts, InFlight
  <2>2. Len(onBus) \in Nat /\ Len(strobe) \in Nat
    BY DEF CInv, Typed, Short
  <2> QED
    BY <2>1, <2>2 DEF BusyExact, Bit
<1> QED
  BY Counting, <1>1, PTL

-----------------------------------------------------------------------------
(* The cycle line.                                                         *)

Headers == [writes : 0..255, reads : 0..255, writeConfig : BOOLEAN,
            readConfig : BOOLEAN, last : BOOLEAN]

\* The record has ended, and the cycle with it.
Whole == record.last /\ record.writes = 0 /\ record.reads = 0

\* The first operation of a record on the bus is not the last of a record that leaves the
\* cycle open.
Opens(h) ==
  ~h.last => /\ ~h.writeConfig => ~(h.writes = 1 /\ h.reads = 0)
             /\ (h.writeConfig \/ h.writes = 0) /\ ~h.readConfig => h.reads # 1

\* The part of a record that is left, and that the line is low before the bus is done only
\* after the last record or the end of the request.
Open ==
  /\ record \in Headers
  /\ state \in {"WR_ADR", "WRITE"} => record.writes > 0
  /\ state \in {"RD_ADR", "READ"} => record.writes = 0 /\ record.reads > 0
  /\ state \in {"WR_ADR", "WRITE"} /\ ~record.last /\ ~cycle =>
       /\ ~record.writeConfig => ~(record.writes = 1 /\ record.reads = 0)
       /\ record.writeConfig /\ ~record.readConfig => record.reads # 1
  /\ state \in {"RD_ADR", "READ"} /\ ~record.last /\ ~cycle /\ ~record.readConfig =>
       record.reads # 1
  /\ ~cycle /\ Busy => state = "EB_HDR" \/ Whole

\* What a step does with the line: low with operations under way only after the last of a
\* record or with the end of the request.
Falls == MasterCyc /\ ~MasterCyc' => state' = "EB_HDR" \/ Whole'

LEMMA BusyStep ==
  ASSUME Typed, NEW in \in Inputs, WbmFifo(in)
  PROVE  Busy' => wbmOut' \/ Busy
  BY DEF WbmFifo, StillBusy, Busy

LEMMA OpenStep ==
  ASSUME CInv, Open, \A h \in RecordHeaders : Opens(h), NEW in \in Inputs, Clock(in)
  PROVE  Open' /\ Falls
<1>1. /\ Typed /\ Paced /\ OthersFit /\ Fsm(in) /\ (Busy' => wbmOut' \/ Busy)
      /\ cycle \in BOOLEAN
  BY BusyStep DEF CInv, Clock, Typed
<1>2. Taken(in) => (cycle \/ ~Busy) /\ ~wbmOut
  BY <1>1, RoomForWord
<1>3. record \in Headers
  BY DEF Open
<1>4. CASE Idle(in)
  <2>1. state' = "EB_HDR" /\ record' = record /\ cycle' = FALSE
    BY <1>4 DEF Idle
  <2> QED
    BY <1>3, <2>1 DEF Open, Falls
<1>5. CASE Waiting(in)
  <2>1. state' = state /\ record' = record /\ cycle' = cycle /\ ~wbmOut'
    BY <1>5 DEF Waiting, NoRequest
  <2>2. Whole' <=> Whole
    BY <2>1 DEF Whole
  <2>3. Open'
    BY <1>1, <2>1, <2>2 DEF Open
  <2>4. Falls
    BY <2>1, <2>2 DEF Open, Falls, MasterCyc
  <2> QED
    BY <2>3, <2>4
<1>6. CASE Taken(in) /\ EbHeader(in)
  <2>1. record' = record /\ cycle' = cycle /\ ~wbmOut'
    BY <1>6 DEF EbHeader, NoRequest
  <2>2. state' \notin {"WR_ADR", "WRITE", "RD_ADR", "READ"}
    BY <1>6 DEF EbHeader
  <2> QED
    BY <1>1, <1>2, <1>3, <1>6, <2>1, <2>2 DEF Open, Falls, MasterCyc
<1>7. CASE Taken(in) /\ RecordHeader(in)
  <2>1. PICK h \in RecordHeaders :
          /\ record' = h
          /\ state' = IF h.writes # 0 THEN "WR_ADR"
                      ELSE IF h.reads # 0 THEN "RD_ADR" ELSE "CYC_HDR"
          /\ cycle' = (cycle /\ ~(h.writes = 0 /\ h.reads = 0 /\ h.last))
    BY <1>7 DEF RecordHeader
  <2>2. h \in Headers /\ Opens(h)
    BY SlaveAssumption DEF Headers
  <2>3. ~wbmOut'
    BY <1>7 DEF RecordHeader, NoRequest
  <2>4. Whole' <=> h.last /\ h.writes = 0 /\ h.reads = 0
    BY <2>1 DEF Whole
  <2>5. Open'
    BY <1>1, <1>2, <1>7, <2>1, <2>2, <2>3, <2>4 DEF Open, Opens, Headers
  <2>6. Falls
    BY <1>1, <1>2, <1>7, <2>1, <2>4 DEF Falls, MasterCyc
  <2> QED
    BY <2>5, <2>6
<1>8. CASE Taken(in) /\ \E word : \/ Copy(in, "PROBE_DROP", word, "DROP")
                                  \/ Copy(in, "PROBE_ID", word, "CYC_HDR")
                                  \/ Copy(in, "WR_ADR", word, "WRITE")
                                  \/ Copy(in, "RD_ADR", word, "READ")
                                  \/ Copy(in, "DROP", word, "DROP")
  <2>1. record' = record /\ cycle' = cycle /\ ~wbmOut'
    BY <1>8 DEF Copy, NoRequest
  <2>2. /\ state' = "WRITE" => state = "WR_ADR"
        /\ state' = "READ" => state = "RD_ADR"
        /\ state' \notin {"WR_ADR", "RD_ADR"}
    BY <1>8 DEF Copy
  <2> QED
    BY <1>1, <1>2, <1>3, <1>8, <2>1, <2>2 DEF Open, Falls, MasterCyc
<1>9. CASE Taken(in) /\ Write(in)
  <2> DEFINE final == record.writes = 1
             ends == final /\ record.reads = 0
  <2>1. /\ state = "WRITE" /\ (wbmOut' <=> ~record.writeConfig)
        /\ cycle' = CycleAfter(record.writeConfig, ends)
        /\ state' = IF ~final THEN "WRITE"
                    ELSE IF record.reads # 0 THEN "RD_ADR" ELSE "CYC_HDR"
        /\ record' = [record EXCEPT !.writes = @ - 1]
    BY <1>3, <1>9 DEF Write, Issue, Headers
  <2>2. /\ record.writes \in 1..255 /\ record.reads \in 0..255
        /\ record.writeConfig \in BOOLEAN /\ record.readConfig \in BOOLEAN
        /\ record.last \in BOOLEAN
    BY <1>3, <2>1 DEF Open, Headers
  <2>3. /\ record' \in Headers /\ record'.writes = record.writes - 1
        /\ record'.reads = record.reads /\ record'.last = record.last
        /\ record'.writeConfig = record.writeConfig /\ record'.readConfig = record.readConfig
    BY <1>3, <2>1, <2>2 DEF Headers
  <2>4. /\ ends /\ cycle' => cycle /\ ~record.last
        /\ ends /\ ~cycle' => ~cycle \/ record.last
        /\ ~ends /\ ~cycle' => ~cycle /\ record.writeConfig
    BY <1>1, <2>1 DEF CycleAfter
  <2>5. ends => (Whole' <=> record.last)
    BY <2>2, <2>3 DEF Whole
  <2>6. /\ ~record.last /\ ~cycle =>
             /\ ~record.writeConfig => ~(record.writes = 1 /\ record.reads = 0)
             /\ record.writeConfig /\ ~record.readConfig => record.reads # 1
    BY <2>1 DEF Open
  <2>7. ~cycle' /\ Busy' => Whole'
    BY <1>1, <1>2, <1>9, <2>1, <2>4, <2>5, <2>6
  <2>8. Open'
    <3>1. state' \in {"WR_ADR", "WRITE"} => ~final /\ record'.writes > 0
      BY <2>1, <2>2, <2>3
    <3>2. state' \in {"RD_ADR", "READ"} =>
             final /\ record'.writes = 0 /\ record'.reads > 0 /\ ~ends
      BY <2>1, <2>2, <2>3
    <3> HIDE DEF final, ends
    <3>3. state' \in {"WR_ADR", "WRITE"} => ~ends
      BY <3>1 DEF ends
    <3> QED
      BY <2>3, <2>4, <2>6, <2>7, <3>1, <3>2, <3>3 DEF Open
  <2>9. Falls
    BY <1>1, <1>2, <1>9, <2>4, <2>5 DEF Falls, MasterCyc
  <2> QED
    BY <2>8, <2>9
<1>10. CASE Taken(in) /\ Read(in)
  <2> DEFINE ends == record.reads = 1
  <2>1. /\ state = "READ" /\ (wbmOut' <=> ~record.readConfig)
        /\ cycle' = CycleAfter(record.readConfig, ends)
        /\ state' = IF ends THEN "CYC_HDR" ELSE "READ"
        /\ record' = [record EXCEPT !.reads = @ - 1]
    BY <1>3, <1>10 DEF Read, Issue, Headers
  <2>2. /\ record.reads \in 1..255 /\ record.writes = 0
        /\ record.writeConfig \in BOOLEAN /\ record.readConfig \in BOOLEAN
        /\ record.last \in BOOLEAN
    BY <1>3, <2>1 DEF Open, Headers
  <2>3. /\ record' \in Headers /\ record'.reads = record.reads - 1
        /\ record'.writes = record.writes /\ record'.last = record.last
        /\ record'.writeConfig = record.writeConfig /\ record'.readConfig = record.readConfig
    BY <1>3, <2>1, <2>2 DEF Headers
  <2>4. /\ ends /\ cycle' => cycle /\ ~record.last
        /\ ends /\ ~cycle' => ~cycle \/ record.last
        /\ ~ends /\ ~cycle' => ~cycle /\ record.readConfig
    BY <1>1, <2>1 DEF CycleAfter
  <2>5. ends => (Whole' <=> record.last)
    BY <2>2, <2>3 DEF Whole
  <2>6. ~record.last /\ ~cycle /\ ~record.readConfig => record.reads # 1
    BY <2>1 DEF Open
  <2>7. ~cycle' /\ Busy' => Whole'
    BY <1>1, <1>2, <1>10, <2>1, <2>4, <2>5, <2>6
  <2>8. Open'
    <3>1. state' \notin {"WR_ADR", "WRITE", "RD_ADR"}
      BY <2>1
    <3>2. state' = "READ" => ~ends /\ record'.writes = 0 /\ record'.reads > 0
      BY <2>1, <2>2, <2>3
    <3> HIDE DEF ends
    <3> QED
      BY <2>3, <2>4, <2>6, <2>7, <3>1, <3>2 DEF Open
  <2>9. Falls
    BY <1>1, <1>2, <1>10, <2>4, <2>5 DEF Falls, MasterCyc
  <2> QED
    BY <2>8, <2>9
<1> QED
  BY <1>1, <1>4, <1>5, <1>6, <1>7, <1>8, <1>9, <1>10 DEF Fsm

\* The cycle line falls only after the last record of a cycle or with the end of the
\* request, whatever the bus, its stalls and its timeouts do in between.  A record that
\* leaves the cycle open must hold more than the operation that opens it: the FSM assigns
\* the line a second time from its value of before.
THEOREM LineHeld ==
  ASSUME \A h \in RecordHeaders : Opens(h)
  PROVE  Spec => HeldUntilDropped
<1>1. Init => Open
  BY DEF Init, Open, NoRecord, Headers
<1>2. CInv /\ Open /\ [Next]_vars => Open'
  <2>1. CInv /\ Open /\ Next => Open'
    BY OpenStep DEF Next
  <2>2. Open /\ UNCHANGED vars => Open'
    BY DEF Open, Whole, Busy, vars, widenVars, fsmVars, queueVars, muxVars
  <2> QED
    BY <2>1, <2>2
<1>3. CInv /\ Open /\ [Next]_vars =>
        [MasterCyc /\ ~MasterCyc' =>
           \/ state' = "EB_HDR"
           \/ record'.last /\ record'.writes = 0 /\ record'.reads = 0]_vars
  BY OpenStep DEF Next, Falls, Whole
<1> QED
  BY Counting, <1>1, <1>2, <1>3, PTL DEF Spec, HeldUntilDropped

-----------------------------------------------------------------------------
(* The order of the answer.  Four FIFOs are filled by different processes  *)
(* at different times, and the tags say which of them has the next word:   *)
(* the entries of a FIFO stand for the places of its tags, one for one.    *)

\* The items of "items" stand, in order, for the places of "tags" whose tag is in K; where
\* the tag is in V the item is also what "owed" has at that place.
Paired(tagged, asked, items, K, V) ==
  \E place \in [1..Len(items) -> 1..Len(tagged)] :
    /\ \A j, k \in 1..Len(items) : j < k => place[j] < place[k]
    /\ \A k \in 1..Len(items) :
          /\ tagged[place[k]] \in K
          /\ tagged[place[k]] \in V => asked[place[k]] = items[k]
    /\ \A i \in 1..Len(tagged) : tagged[i] \in K => \E k \in 1..Len(items) : place[k] = i

LEMMA TailIs ==
  ASSUME NEW S, NEW s \in Seq(S), s # <<>>
  PROVE  /\ Tail(s) \in Seq(S) /\ Len(Tail(s)) = Len(s) - 1 /\ Len(s) \in Nat \ {0}
         /\ \A i \in 1..Len(s) - 1 : Tail(s)[i] = s[i + 1]
         /\ Head(s) = s[1]
  OBVIOUS

LEMMA LongerIs ==
  ASSUME NEW S, NEW s \in Seq(S), NEW x \in S
  PROVE  /\ s \o <<x>> \in Seq(S) /\ Len(s \o <<x>>) = Len(s) + 1 /\ Len(s) \in Nat
         /\ \A i \in 1..Len(s) : (s \o <<x>>)[i] = s[i]
         /\ (s \o <<x>>)[Len(s) + 1] = x
  OBVIOUS

LEMMA PairedPush ==
  ASSUME NEW S, NEW R, NEW Q, NEW tagged \in Seq(S), NEW asked \in Seq(R), NEW items \in Seq(Q),
         Len(asked) = Len(tagged), NEW K, NEW V, Paired(tagged, asked, items, K, V),
         NEW t \in S, NEW a \in R, NEW p \in Q, t \in K, t \in V => a = p
  PROVE  Paired(tagged \o <<t>>, asked \o <<a>>, items \o <<p>>, K, V)
<1> DEFINE T == tagged \o <<t>>
           A == asked \o <<a>>
           I == items \o <<p>>
           n == Len(tagged)
           m == Len(items)
<1>1. /\ Len(T) = n + 1 /\ n \in Nat /\ \A i \in 1..n : T[i] = tagged[i]
      /\ T[n + 1] = t
  BY LongerIs
<1>2. (\A i \in 1..n : A[i] = asked[i]) /\ A[n + 1] = a
  BY LongerIs
<1>3. /\ Len(I) = m + 1 /\ m \in Nat /\ \A i \in 1..m : I[i] = items[i]
      /\ I[m + 1] = p
  BY LongerIs
<1>4. PICK place \in [1..m -> 1..n] :
         /\ \A j, k \in 1..m : j < k => place[j] < place[k]
         /\ \A k \in 1..m :
               /\ tagged[place[k]] \in K
               /\ tagged[place[k]] \in V => asked[place[k]] = items[k]
         /\ \A i \in 1..n : tagged[i] \in K => \E k \in 1..m : place[k] = i
  BY DEF Paired
<1> HIDE DEF T, A, I, n, m
<1> DEFINE q == [k \in 1..Len(I) |-> IF k = m + 1 THEN n + 1 ELSE place[k]]
<1>5. /\ q \in [1..Len(I) -> 1..Len(T)] /\ q[m + 1] = n + 1
      /\ \A k \in 1..m : q[k] = place[k] /\ q[k] \in 1..n
      /\ 1..Len(I) = 1..m \cup {m + 1} /\ 1..Len(T) = 1..n \cup {n + 1}
  <2>1. 1..Len(I) = 1..m \cup {m + 1} /\ 1..Len(T) = 1..n \cup {n + 1} /\ m + 1 \notin 1..m
    BY ONLY <1>1, <1>3
  <2>2. \A k \in 1..m : place[k] \in 1..n
    BY <1>4
  <2>3. q[m + 1] = n + 1 /\ \A k \in 1..m : q[k] = place[k]
    BY <2>1
  <2>4. q \in [1..Len(I) -> 1..Len(T)]
    BY <2>1, <2>2
  <2> QED
    BY <2>1, <2>2, <2>3, <2>4
<1> HIDE DEF q
<1>6. \A j, k \in 1..Len(I) : j < k => q[j] < q[k]
  <2> SUFFICES ASSUME NEW j \in 1..Len(I), NEW k \in 1..Len(I), j < k PROVE q[j] < q[k]
    OBVIOUS
  <2>1. j \in 1..m /\ q[j] = place[j] /\ q[j] \in 1..n
    BY <1>3, <1>5
  <2>2. CASE k = m + 1
    BY <1>1, <1>5, <2>1, <2>2
  <2>3. CASE k \in 1..m
    BY <1>4, <1>5, <2>1, <2>3
  <2> QED
    BY <1>5, <2>2, <2>3
<1>7. \A k \in 1..Len(I) : T[q[k]] \in K /\ (T[q[k]] \in V => A[q[k]] = I[k])
  <2> SUFFICES ASSUME NEW k \in 1..Len(I)
               PROVE  T[q[k]] \in K /\ (T[q[k]] \in V => A[q[k]] = I[k])
    OBVIOUS
  <2>1. CASE k = m + 1
    BY <1>1, <1>2, <1>3, <1>5, <2>1
  <2>2. CASE k \in 1..m
    <3>1. /\ q[k] = place[k] /\ q[k] \in 1..n
          /\ T[q[k]] = tagged[place[k]] /\ A[q[k]] = asked[place[k]] /\ I[k] = items[k]
      BY <1>1, <1>2, <1>3, <1>5, <2>2
    <3> QED
      BY <1>4, <2>2, <3>1
  <2> QED
    BY <1>5, <2>1, <2>2
<1>8. \A i \in 1..Len(T) : T[i] \in K => \E k \in 1..Len(I) : q[k] = i
  BY <1>1, <1>3, <1>4, <1>5
<1>9. Paired(T, A, I, K, V)
  BY <1>5, <1>6, <1>7, <1>8 DEF Paired
<1> QED
  BY <1>9 DEF T, A, I

LEMMA PairedSkip ==
  ASSUME NEW S, NEW R, NEW Q, NEW tagged \in Seq(S), NEW asked \in Seq(R), NEW items \in Seq(Q),
         Len(asked) = Len(tagged), NEW K, NEW V, Paired(tagged, asked, items, K, V),
         NEW t \in S, NEW a \in R, t \notin K
  PROVE  Paired(tagged \o <<t>>, asked \o <<a>>, items, K, V)
<1> DEFINE T == tagged \o <<t>>
           A == asked \o <<a>>
           n == Len(tagged)
           m == Len(items)
<1>1. /\ Len(T) = n + 1 /\ n \in Nat /\ m \in Nat /\ \A i \in 1..n : T[i] = tagged[i]
      /\ T[n + 1] = t
  BY LongerIs
<1>2. (\A i \in 1..n : A[i] = asked[i]) /\ A[n + 1] = a
  BY LongerIs
<1>4. PICK place \in [1..m -> 1..n] :
         /\ \A j, k \in 1..m : j < k => place[j] < place[k]
         /\ \A k \in 1..m :
               /\ tagged[place[k]] \in K
               /\ tagged[place[k]] \in V => asked[place[k]] = items[k]
         /\ \A i \in 1..n : tagged[i] \in K => \E k \in 1..m : place[k] = i
  BY DEF Paired
<1> HIDE DEF T, A, n, m
<1>5. place \in [1..m -> 1..Len(T)] /\ 1..Len(T) = 1..n \cup {n + 1}
  BY <1>1
<1>6. \A k \in 1..m : T[place[k]] \in K /\ (T[place[k]] \in V => A[place[k]] = items[k])
  BY <1>1, <1>2, <1>4
<1>7. \A i \in 1..Len(T) : T[i] \in K => \E k \in 1..m : place[k] = i
  BY <1>1, <1>4, <1>5
<1>8. Paired(T, A, items, K, V)
  BY <1>4, <1>5, <1>6, <1>7 DEF Paired, m
<1> QED
  BY <1>8 DEF T, A

LEMMA PairedPop ==
  ASSUME NEW S, NEW R, NEW Q, NEW tagged \in Seq(S), NEW asked \in Seq(R), NEW items \in Seq(Q),
         Len(asked) = Len(tagged), NEW K, NEW V, Paired(tagged, asked, items, K, V),
         tagged # <<>>, Head(tagged) \in K
  PROVE  /\ items # <<>> /\ (Head(tagged) \in V => Head(asked) = Head(items))
         /\ Paired(Tail(tagged), Tail(asked), Tail(items), K, V)
<1> DEFINE n == Len(tagged)
           m == Len(items)
<1>1. PICK place \in [1..m -> 1..n] :
         /\ \A j, k \in 1..m : j < k => place[j] < place[k]
         /\ \A k \in 1..m :
               /\ tagged[place[k]] \in K
               /\ tagged[place[k]] \in V => asked[place[k]] = items[k]
         /\ \A i \in 1..n : tagged[i] \in K => \E k \in 1..m : place[k] = i
  BY DEF Paired
<1>2. n \in Nat \ {0} /\ m \in Nat /\ asked # <<>> /\ Head(tagged) = tagged[1] /\ Head(asked) = asked[1]
  BY TailIs
<1>3. PICK one \in 1..m : place[one] = 1
  BY <1>1, <1>2
<1>4. one = 1
  BY <1>1, <1>2, <1>3
<1>5. items # <<>> /\ Head(items) = items[1] /\ m \in Nat \ {0}
  BY <1>2, <1>3
<1> DEFINE T == Tail(tagged)
           A == Tail(asked)
           I == Tail(items)
<1>6. /\ Len(T) = n - 1 /\ \A i \in 1..n - 1 : T[i] = tagged[i + 1]
      /\ \A i \in 1..n - 1 : A[i] = asked[i + 1]
      /\ Len(I) = m - 1 /\ \A i \in 1..m - 1 : I[i] = items[i + 1]
  BY <1>2, <1>5, TailIs
<1>12. Head(tagged) \in V => Head(asked) = Head(items)
  BY <1>1, <1>2, <1>3, <1>4, <1>5
<1> HIDE DEF T, A, I, n, m
<1> DEFINE q == [k \in 1..Len(I) |-> place[k + 1] - 1]
<1>7. \A k \in 1..m - 1 : k + 1 \in 1..m /\ place[k + 1] \in 2..n
  BY <1>1, <1>2, <1>3, <1>4, <1>5
<1>8. /\ q \in [1..Len(I) -> 1..Len(T)] /\ \A k \in 1..Len(I) : q[k] = place[k + 1] - 1
      /\ Len(I) = m - 1 /\ Len(T) = n - 1
  BY <1>2, <1>5, <1>6, <1>7
<1> HIDE DEF q
<1>9. \A j, k \in 1..Len(I) : j < k => q[j] < q[k]
  <2> SUFFICES ASSUME NEW j \in 1..Len(I), NEW k \in 1..Len(I), j < k PROVE q[j] < q[k]
    OBVIOUS
  <2>1. j + 1 \in 1..m /\ k + 1 \in 1..m /\ j + 1 < k + 1
    BY <1>2, <1>7, <1>8
  <2>2. place[j + 1] < place[k + 1]
    BY <1>1, <2>1
  <2> QED
    BY <1>7, <1>8, <2>1, <2>2
<1>10. \A k \in 1..Len(I) : T[q[k]] \in K /\ (T[q[k]] \in V => A[q[k]] = I[k])
  <2> SUFFICES ASSUME NEW k \in 1..Len(I)
               PROVE  T[q[k]] \in K /\ (T[q[k]] \in V => A[q[k]] = I[k])
    OBVIOUS
  <2>1. k + 1 \in 1..m /\ q[k] \in 1..n - 1 /\ q[k] + 1 = place[k + 1]
    BY <1>7, <1>8
  <2>2. T[q[k]] = tagged[place[k + 1]] /\ A[q[k]] = asked[place[k + 1]] /\ I[k] = items[k + 1]
    BY <1>6, <1>8, <2>1
  <2> QED
    BY <1>1, <2>1, <2>2
<1>11. \A i \in 1..Len(T) : T[i] \in K => \E k \in 1..Len(I) : q[k] = i
  <2> SUFFICES ASSUME NEW i \in 1..Len(T), T[i] \in K PROVE \E k \in 1..Len(I) : q[k] = i
    OBVIOUS
  <2>1. i \in 1..n - 1 /\ i + 1 \in 1..n /\ T[i] = tagged[i + 1]
    BY <1>2, <1>6, <1>8
  <2>2. PICK k \in 1..m : place[k] = i + 1
    BY <1>1, <2>1
  <2>3. k # 1
    BY <1>3, <1>4, <2>1, <2>2
  <2>4. k - 1 \in 1..Len(I) /\ (k - 1) + 1 = k
    BY <1>2, <1>8, <2>2, <2>3
  <2>5. q[k - 1] = i
    BY <1>8, <2>1, <2>2, <2>4
  <2> QED
    BY <2>4, <2>5
<1>13. Paired(T, A, I, K, V)
  BY <1>8, <1>9, <1>10, <1>11 DEF Paired
<1> QED
  BY <1>5, <1>12, <1>13 DEF T, A, I

LEMMA PairedDrop ==
  ASSUME NEW S, NEW R, NEW Q, NEW tagged \in Seq(S), NEW asked \in Seq(R), NEW items \in Seq(Q),
         Len(asked) = Len(tagged), NEW K, NEW V, Paired(tagged, asked, items, K, V),
         tagged # <<>>, Head(tagged) \notin K
  PROVE  Paired(Tail(tagged), Tail(asked), items, K, V)
<1> DEFINE n == Len(tagged)
           m == Len(items)
<1>1. PICK place \in [1..m -> 1..n] :
         /\ \A j, k \in 1..m : j < k => place[j] < place[k]
         /\ \A k \in 1..m :
               /\ tagged[place[k]] \in K
               /\ tagged[place[k]] \in V => asked[place[k]] = items[k]
         /\ \A i \in 1..n : tagged[i] \in K => \E k \in 1..m : place[k] = i
  BY DEF Paired
<1>2. n \in Nat \ {0} /\ m \in Nat /\ asked # <<>> /\ Head(tagged) = tagged[1]
  BY TailIs
<1> DEFINE T == Tail(tagged)
           A == Tail(asked)
<1>3. /\ Len(T) = n - 1 /\ \A i \in 1..n - 1 : T[i] = tagged[i + 1]
      /\ \A i \in 1..n - 1 : A[i] = asked[i + 1]
  BY <1>2, TailIs
<1> HIDE DEF T, A, n
<1> DEFINE q == [k \in 1..m |-> place[k] - 1]
<1>4. \A k \in 1..m : place[k] \in 2..n
  BY <1>1, <1>2
<1>5. q \in [1..m -> 1..Len(T)] /\ \A k \in 1..m : q[k] = place[k] - 1
  BY <1>2, <1>3, <1>4
<1> HIDE DEF q, m
<1>6. \A j, k \in 1..m : j < k => q[j] < q[k]
  <2>1. \A j, k \in 1..m : j < k =>
           place[j] \in 2..n /\ place[k] \in 2..n /\ place[j] < place[k]
    BY <1>1, <1>4
  <2>2. \A j, k \in 1..m : j < k => place[j] - 1 < place[k] - 1
    BY <1>2, <2>1
  <2> QED
    BY <1>5, <2>2
<1>7. \A k \in 1..m : T[q[k]] \in K /\ (T[q[k]] \in V => A[q[k]] = items[k])
  <2> SUFFICES ASSUME NEW k \in 1..m
               PROVE  T[q[k]] \in K /\ (T[q[k]] \in V => A[q[k]] = items[k])
    OBVIOUS
  <2>1. q[k] \in 1..n - 1 /\ q[k] + 1 = place[k]
    BY <1>2, <1>4, <1>5
  <2>2. T[q[k]] = tagged[place[k]] /\ A[q[k]] = asked[place[k]]
    BY <1>3, <2>1
  <2> QED
    BY <1>1, <2>2
<1>8. \A i \in 1..Len(T) : T[i] \in K => \E k \in 1..m : q[k] = i
  <2> SUFFICES ASSUME NEW i \in 1..Len(T), T[i] \in K PROVE \E k \in 1..m : q[k] = i
    OBVIOUS
  <2>1. i \in 1..n - 1 /\ i + 1 \in 1..n /\ T[i] = tagged[i + 1]
    BY <1>2, <1>3
  <2>2. PICK k \in 1..m : place[k] = i + 1
    BY <1>1, <2>1
  <2> QED
    BY <1>5, <2>1, <2>2
<1>9. Paired(T, A, items, K, V)
  BY <1>5, <1>6, <1>7, <1>8 DEF Paired, m
<1> QED
  BY <1>9 DEF T, A

-----------------------------------------------------------------------------
PassTags == {"pass_tx", "pass_on", "cfg_ign", "wbm_ign"}
BusTags == {"wbm_req", "wbm_ign"}

\* All that is on its way: the tags, what the answer has to hold for them, the words of the
\* parser, and the operations of the bus.
AllTags == When(mux.valid, mux.tag) \o tags.items \o tagOut
AllOwed == IF last # <<>> THEN Tail(owed) ELSE owed
AllWords == passes.items \o passOut
AllOps == answers.items \o onBus \o strobe

\* Tags without a word of their own
Plain(tag, word) ==
  /\ tag \in {"drop_tx", "skip_tx"} => word = tag
  /\ tag = "cfg_req" => word = "config"

Matched ==
  /\ mux.valid \in BOOLEAN /\ (mux.valid => mux.tag \in Tags)
  /\ owed \in Seq(Answers) /\ AnswersMatch
  /\ Len(AllOwed) = Len(AllTags)
  /\ \A i \in 1..Len(AllTags) : Plain(AllTags[i], AllOwed[i])
  /\ Paired(AllTags, AllOwed, AllWords, PassTags, PassTags)
  /\ Paired(AllTags, AllOwed, AllOps, BusTags, {"wbm_req"})

LEMMA Joins ==
  ASSUME NEW S, NEW a \in Seq(S), NEW b \in Seq(S), NEW c \in Seq(S)
  PROVE  /\ a \o b \in Seq(S) /\ (a \o b) \o c = a \o (b \o c)
         /\ <<>> \o a = a /\ a \o <<>> = a
         /\ a # <<>> => a \o b # <<>> /\ Head(a \o b) = Head(a) /\ Tail(a \o b) = Tail(a) \o b
  OBVIOUS

\* A word of the request is answered by a tag, and by what the tag stands for.
Quiet ==
  /\ tagOut' = <<>> /\ passOut' = <<>> /\ ~wbmOut' /\ owed' = AllOwed
Asks(tag, word) ==
  /\ tagOut' = <<tag>> /\ owed' = AllOwed \o <<word>> /\ Plain(tag, word)
  /\ tag \in PassTags => word \in Words /\ passOut' = <<word>>
  /\ tag \notin PassTags => passOut' = <<>>
  /\ wbmOut' <=> tag \in BusTags
  /\ tag = "wbm_req" => word = number

LEMMA OweIs == ASSUME NEW what, Owe(what) PROVE owed' = AllOwed \o what
  BY DEF Owe, AllOwed

LEMMA FsmAsks ==
  ASSUME Typed, AllOwed \in Seq(Answers), NEW in \in Inputs, Fsm(in)
  PROVE  Quiet \/ \E tag \in Tags, word \in Answers : Asks(tag, word)
<1>1. /\ "drop_tx" \in Tags \cap Answers /\ "drop_tx" \notin PassTags \cup BusTags
      /\ "skip_tx" \in Tags \cap Answers /\ "skip_tx" \notin PassTags \cup BusTags
      /\ "config" \in Answers /\ Words \subseteq Answers /\ Numbers \subseteq Answers
      /\ {"header", "probe id", "zero", "record", "address"} \subseteq Words
      /\ PassTags \subseteq Tags /\ BusTags \subseteq Tags /\ "cfg_req" \in Tags
  BY DEF Tags, Answers, PassTags, BusTags, Words
<1>2. CASE Idle(in)
  <2>1. /\ tagOut' = When(rxCyc, "drop_tx") /\ passOut' = <<>> /\ ~wbmOut'
        /\ owed' = AllOwed \o When(rxCyc, "drop_tx")
    BY <1>2, OweIs DEF Idle, NoRequest
  <2>2. CASE rxCyc
    <3>1. Asks("drop_tx", "drop_tx")
      BY <1>1, <2>1, <2>2 DEF Asks, When, Plain
    <3> QED
      BY <1>1, <3>1
  <2>3. CASE ~rxCyc
    BY <2>1, <2>3 DEF Quiet, When
  <2> QED
    BY <2>2, <2>3
<1>3. CASE Waiting(in)
  <2>1. tagOut' = <<>> /\ passOut' = <<>> /\ ~wbmOut' /\ owed' = AllOwed \o <<>>
    BY <1>3, OweIs DEF Waiting, NoRequest
  <2> QED
    BY <2>1 DEF Quiet
<1>4. CASE EbHeader(in)
  <2>1. PICK h \in EbHeaders :
          /\ Emit(IF h.known /\ ~h.silent THEN "pass_tx" ELSE "skip_tx",
                  When(h.known /\ ~h.silent, "header"))
          /\ Owe(<<IF h.known /\ ~h.silent THEN "header" ELSE "skip_tx">>)
    BY <1>4 DEF EbHeader
  <2>2. ~wbmOut'
    BY <1>4 DEF EbHeader, NoRequest
  <2>3. CASE h.known /\ ~h.silent
    <3>1. tagOut' = <<"pass_tx">> /\ passOut' = <<"header">> /\ owed' = AllOwed \o <<"header">>
      BY <2>1, <2>3, OweIs DEF Emit, When
    <3>2. Asks("pass_tx", "header")
      BY <1>1, <2>2, <3>1 DEF Asks, Plain, PassTags, BusTags
    <3> QED
      BY <1>1, <3>2 DEF PassTags
  <2>4. CASE ~(h.known /\ ~h.silent)
    <3>1. tagOut' = <<"skip_tx">> /\ passOut' = <<>> /\ owed' = AllOwed \o <<"skip_tx">>
      BY <2>1, <2>4, OweIs DEF Emit, When
    <3>2. Asks("skip_tx", "skip_tx")
      BY <1>1, <2>2, <3>1 DEF Asks, Plain
    <3> QED
      BY <1>1, <3>2
  <2> QED
    BY <2>3, <2>4
<1>5. ASSUME NEW word \in Words, Emit("pass_on", <<word>>), Owe(<<word>>), ~wbmOut'
      PROVE  \E tag \in Tags, w \in Answers : Asks(tag, w)
  <2>1. Asks("pass_on", word)
    BY <1>5, OweIs DEF Asks, Emit, Plain, PassTags, BusTags
  <2> QED
    BY <1>1, <2>1 DEF PassTags
<1>6. CASE RecordHeader(in)
  <2>1. PICK h \in RecordHeaders :
          LET word == IF h.writes # 0 THEN "zero" ELSE "record"
          IN  Emit("pass_on", <<word>>) /\ Owe(<<word>>)
    BY <1>6 DEF RecordHeader
  <2>2. ~wbmOut'
    BY <1>6 DEF RecordHeader, NoRequest
  <2>3. (IF h.writes # 0 THEN "zero" ELSE "record") \in Words
    BY <1>1
  <2> QED
    BY <1>5, <2>1, <2>2, <2>3
<1>7. CASE \E from, word, to : word \in Words /\ Copy(in, from, word, to)
  BY <1>5, <1>7 DEF Copy, NoRequest
<1>8. CASE Write(in)
  <2> DEFINE tag == IF record.writeConfig THEN "cfg_ign" ELSE "wbm_ign"
             word == IF record.writes = 1 THEN "record" ELSE "zero"
  <2>1. Emit(tag, <<word>>) /\ Owe(<<word>>) /\ (wbmOut' <=> ~record.writeConfig)
    BY <1>8 DEF Write, Issue
  <2>2. tag \in PassTags /\ word \in Words /\ tag # "wbm_req" /\ tag # "cfg_req"
        /\ tag \notin {"drop_tx", "skip_tx"} /\ (tag \in BusTags <=> ~record.writeConfig)
    BY <1>1 DEF PassTags, BusTags
  <2> HIDE DEF tag, word
  <2>3. Asks(tag, word)
    BY <2>1, <2>2, OweIs DEF Asks, Emit, Plain
  <2> QED
    BY <1>1, <2>2, <2>3
<1>9. CASE Read(in)
  <2>1. /\ Emit(IF record.readConfig THEN "cfg_req" ELSE "wbm_req", <<>>)
        /\ Owe(<<IF record.readConfig THEN "config" ELSE number>>)
        /\ (wbmOut' <=> ~record.readConfig)
    BY <1>9 DEF Read, Issue
  <2>2. CASE record.readConfig
    <3>1. Asks("cfg_req", "config")
      BY <2>1, <2>2, OweIs DEF Asks, Emit, Plain, PassTags, BusTags
    <3> QED
      BY <1>1, <3>1
  <2>3. CASE ~record.readConfig
    <3>1. Asks("wbm_req", number)
      BY <2>1, <2>3, OweIs DEF Asks, Emit, Plain, PassTags, BusTags
    <3> QED
      BY <1>1, <3>1 DEF Typed, BusTags
  <2> QED
    BY <2>2, <2>3
<1> QED
  BY <1>1, <1>2, <1>3, <1>4, <1>6, <1>7, <1>8, <1>9 DEF Fsm

\* The strobe after a period: what the bus has not taken, and the new operation.
LEMMA StrobeIs ==
  ASSUME Typed, NEW in \in Inputs, Fsm(in)
  PROVE  /\ wbmOut' => strobe' = <<number>>
         /\ ~wbmOut' => strobe' = IF in.busStall THEN strobe ELSE <<>>
  BY DEF Fsm, Idle, Waiting, EbHeader, RecordHeader, Copy, Write, Read, Issue, NoRequest, KeepStrobe

LEMMA OpsMove ==
  ASSUME Typed, Showing, Paced, OthersFit, Counts, NEW in \in Inputs, BusConforms(in),
         Fsm(in), Bus(in), WbmFifo(in)
  PROVE  AllOps' = (IF PopWbm(in) THEN Tail(AllOps) ELSE AllOps) \o When(wbmOut', number)
<1> DEFINE a == answers.items
           ops == onBus \o strobe
           rest == IF PopWbm(in) THEN Tail(a) ELSE a
           accepted == IF in.busStall THEN onBus ELSE onBus \o strobe
           kept == IF in.busStall THEN strobe ELSE <<>>
           new == When(wbmOut', number)
<1>1. /\ a \in Seq(Numbers) /\ onBus \in Seq(Numbers) /\ strobe \in Seq(Numbers)
      /\ number \in Numbers
  BY DEF Typed, Short
<1>2. PopWbm(in) => a # <<>>
  BY DEF PopWbm, TagDone, Missing, Showing
<1>3. rest \in Seq(Numbers) /\ accepted \in Seq(Numbers) /\ kept \in Seq(Numbers)
      /\ new \in Seq(Numbers) /\ ops \in Seq(Numbers) /\ ops = accepted \o kept
  BY <1>1, <1>2 DEF When
<1>4. strobe' = kept \o new
  <2>1. CASE wbmOut'
    <3>1. Puts(in) /\ Taken(in)
      BY <2>1, FsmPuts DEF Puts
    <3>2. kept = <<>>
      BY <3>1, RoomForWord
    <3>3. strobe' = <<number>> /\ new = <<number>>
      BY <2>1, StrobeIs DEF When
    <3> HIDE DEF kept, new
    <3> QED
      BY <1>3, <3>2, <3>3
  <2>2. CASE ~wbmOut'
    <3>1. strobe' = kept /\ new = <<>>
      BY <2>2, StrobeIs DEF When
    <3> HIDE DEF kept, new
    <3> QED
      BY <1>3, <3>1
  <2> QED
    BY <2>1, <2>2
<1>5. answers'.items = rest \o When(Ready(in), Head(ops))
  BY DEF WbmFifo, Clocked
<1>6. Ready(in) => accepted # <<>> /\ ops # <<>>
  BY Acknowledges
<1>7. onBus' = IF Ready(in) THEN Tail(accepted) ELSE accepted
  BY DEF Bus
<1> DEFINE acknowledged == When(Ready(in), Head(ops))
<1>8. /\ acknowledged \o onBus' = accepted /\ acknowledged \in Seq(Numbers)
      /\ onBus' \in Seq(Numbers)
  <2>1. CASE Ready(in)
    <3>1. Head(ops) = Head(accepted)
      BY <1>3, <1>6, <2>1, Joins
    <3> HIDE DEF accepted, ops, kept
    <3>2. acknowledged = <<Head(accepted)>> /\ onBus' = Tail(accepted)
      BY <1>7, <2>1, <3>1 DEF When
    <3>3. <<Head(accepted)>> \o Tail(accepted) = accepted /\ Head(accepted) \in Numbers
      BY <1>3, <1>6, <2>1
    <3>4. <<Head(accepted)>> \in Seq(Numbers) /\ Tail(accepted) \in Seq(Numbers)
      <4>1. accepted # <<>> /\ accepted \in Seq(Numbers)
        BY <1>3, <1>6, <2>1
      <4> QED
        BY ONLY <3>3, <4>1
    <3> QED
      BY <3>2, <3>3, <3>4
  <2>2. CASE ~Ready(in)
    <3> HIDE DEF accepted, ops, kept
    <3> QED
      BY <1>3, <1>7, <2>2 DEF When
  <2> QED
    BY <2>1, <2>2
<1>9. AllOps' = answers'.items \o onBus' \o strobe' /\ AllOps = a \o ops
  <2>1. AllOps = (a \o onBus) \o strobe
    BY DEF AllOps
  <2> HIDE DEF a
  <2>2. (a \o onBus) \o strobe = a \o (onBus \o strobe)
    BY ONLY <1>1
  <2>3. AllOps' = answers'.items \o onBus' \o strobe'
    BY DEF AllOps
  <2> QED
    BY <2>1, <2>2, <2>3
<1>10. (IF PopWbm(in) THEN Tail(AllOps) ELSE AllOps) = rest \o ops
  <2> HIDE DEF ops, a
  <2>1. CASE PopWbm(in)
    <3>1. a # <<>> /\ a \in Seq(Numbers) /\ ops \in Seq(Numbers)
      BY <1>1, <1>2, <1>3, <2>1
    <3>2. Tail(a \o ops) = Tail(a) \o ops
      BY ONLY <3>1
    <3> QED
      BY <1>9, <2>1, <3>2
  <2>2. CASE ~PopWbm(in)
    BY <1>9, <2>2
  <2> QED
    BY <2>1, <2>2
<1> HIDE DEF rest, accepted, kept, new, ops, acknowledged, a
<1>11. AllOps' = ((rest \o acknowledged) \o onBus') \o (kept \o new)
  BY <1>4, <1>5, <1>9 DEF acknowledged
<1>12. (rest \o acknowledged) \o onBus' = rest \o accepted
  <2>1. (rest \o acknowledged) \o onBus' = rest \o (acknowledged \o onBus')
    <3>1. rest \in Seq(Numbers) /\ acknowledged \in Seq(Numbers) /\ onBus' \in Seq(Numbers)
      BY <1>3, <1>8
    <3> QED
      BY ONLY <3>1
  <2> QED
    BY <1>8, <2>1
<1>13. (rest \o accepted) \o (kept \o new) = (rest \o ops) \o new
  <2>1. (rest \o accepted) \o kept = rest \o ops
    BY ONLY <1>3
  <2>2. (rest \o accepted) \o (kept \o new) = ((rest \o accepted) \o kept) \o new
    BY ONLY <1>3
  <2> QED
    BY <2>1, <2>2
<1> QED
  BY <1>10, <1>11, <1>12, <1>13 DEF new

LEMMA WordsMove ==
  ASSUME Typed, Showing, NEW in \in Inputs, PassFifo(in)
  PROVE  AllWords' = (IF PopPass(in) THEN Tail(AllWords) ELSE AllWords) \o passOut'
<1>1. passes.items \in Seq(Words) /\ passOut \in Seq(Words)
  BY DEF Typed, Short
<1>2. PopPass(in) => passes.items # <<>>
  BY DEF PopPass, TagDone, Missing, Showing
<1>3. passes'.items = (IF PopPass(in) THEN Tail(passes.items) ELSE passes.items) \o passOut
  BY DEF PassFifo, Clocked
<1>4. CASE PopPass(in)
  <2> DEFINE q == passes.items
  <2>1. AllWords' = (Tail(q) \o passOut) \o passOut' /\ AllWords = q \o passOut /\ q # <<>>
    BY <1>2, <1>3, <1>4 DEF AllWords
  <2>2. q \in Seq(Words)
    BY <1>1
  <2> HIDE DEF q
  <2>3. Tail(q \o passOut) = Tail(q) \o passOut
    BY ONLY <1>1, <2>1, <2>2
  <2> QED
    BY <1>4, <2>1, <2>3
<1>5. CASE ~PopPass(in)
  BY <1>3, <1>5 DEF AllWords
<1> QED
  BY <1>4, <1>5

LEMMA TagsMove ==
  ASSUME Typed, Showing, mux.valid => mux.tag \in Tags,
         NEW in \in Inputs, TagFifo(in), TagIn(in)
  PROVE  /\ AllTags' = (IF TagDone(in) THEN Tail(AllTags) ELSE AllTags) \o tagOut'
         /\ mux'.valid \in BOOLEAN /\ (mux'.valid => mux'.tag \in Tags)
<1> DEFINE now == When(mux.valid, mux.tag)
           t == tags.items
<1>1. t \in Seq(Tags) /\ tagOut \in Seq(Tags) /\ now \in Seq(Tags)
  BY DEF Typed, Short, When
<1>2. tags'.items = (IF PopTag(in) THEN Tail(t) ELSE t) \o tagOut
  BY DEF TagFifo, Clocked
<1>3. TagDone(in) => mux.valid
  BY DEF TagDone
<1>4. PopTag(in) <=> ~tags.empty /\ (TagDone(in) \/ ~mux.valid)
  BY DEF PopTag
<1>5. ~tags.empty => t # <<>>
  BY DEF Showing
<1>6. AllTags' = When(mux'.valid, mux'.tag) \o tags'.items \o tagOut'
  BY DEF AllTags, When
<1>7. CASE TagDone(in) \/ ~mux.valid
  <2>1. mux'.valid = ~tags.empty /\ mux'.tag = IF tags.empty THEN mux.tag ELSE Head(t)
    BY <1>7 DEF TagIn, Front
  <2>2. (IF TagDone(in) THEN Tail(AllTags) ELSE AllTags) = t \o tagOut
    <3>1. CASE TagDone(in)
      <4> DEFINE m == mux.tag
      <4>1. AllTags = (<<m>> \o t) \o tagOut /\ m \in Tags
        BY <1>3, <3>1 DEF AllTags, When
      <4> HIDE DEF m, t
      <4>2. Tail((<<m>> \o t) \o tagOut) = t \o tagOut
        BY ONLY <1>1, <4>1
      <4> QED
        BY <3>1, <4>1, <4>2
    <3>2. CASE ~TagDone(in)
      <4>1. AllTags = (<<>> \o t) \o tagOut
        BY <1>7, <3>2 DEF AllTags, When
      <4> HIDE DEF t
      <4>2. <<>> \o t = t
        BY ONLY <1>1
      <4> QED
        BY <3>2, <4>1, <4>2
    <3> QED
      BY <3>1, <3>2
  <2>3. When(mux'.valid, mux'.tag) \o tags'.items = t \o tagOut
    <3>1. CASE tags.empty
      <4>1. mux'.valid = FALSE /\ tags'.items = t \o tagOut
        BY <1>2, <1>4, <2>1, <3>1
      <4>2. When(mux'.valid, mux'.tag) = <<>>
        BY <4>1 DEF When
      <4> HIDE DEF t
      <4>3. <<>> \o (t \o tagOut) = t \o tagOut
        BY ONLY <1>1
      <4> QED
        BY <4>1, <4>2, <4>3
    <3>2. CASE ~tags.empty
      <4>1. /\ When(mux'.valid, mux'.tag) = <<Head(t)>> /\ tags'.items = Tail(t) \o tagOut
            /\ t # <<>>
        BY <1>2, <1>4, <1>5, <1>7, <2>1, <3>2 DEF When
      <4> HIDE DEF t
      <4>2. <<Head(t)>> \o (Tail(t) \o tagOut) = t \o tagOut
        <5>1. <<Head(t)>> \o Tail(t) = t
          BY ONLY <1>1, <4>1
        <5>2. <<Head(t)>> \in Seq(Tags) /\ Tail(t) \in Seq(Tags)
          BY ONLY <1>1, <4>1
        <5>3. <<Head(t)>> \o (Tail(t) \o tagOut) = (<<Head(t)>> \o Tail(t)) \o tagOut
          BY ONLY <1>1, <5>2
        <5> QED
          BY <5>1, <5>3
      <4> QED
        BY <4>1, <4>2
    <3> QED
      BY <3>1, <3>2
  <2>4. mux'.valid \in BOOLEAN /\ (mux'.valid => mux'.tag \in Tags)
    <3>1. t # <<>> => Head(t) \in Tags
      BY <1>1
    <3> HIDE DEF t
    <3> QED
      BY <1>5, <2>1, <3>1
  <2> QED
    BY <1>6, <2>2, <2>3, <2>4
<1>8. CASE ~TagDone(in) /\ mux.valid
  <2>1. mux' = mux /\ tags'.items = t \o tagOut
    BY <1>2, <1>4, <1>8 DEF TagIn
  <2>2. AllTags' = (now \o (t \o tagOut)) \o tagOut'
    BY <1>6, <2>1
  <2>3. AllTags = (now \o t) \o tagOut
    BY DEF AllTags
  <2> HIDE DEF now, t
  <2>4. (now \o t) \o tagOut = now \o (t \o tagOut)
    BY ONLY <1>1
  <2> QED
    BY <1>8, <2>1, <2>2, <2>3, <2>4
<1> QED
  BY <1>7, <1>8

LEMMA AllTyped ==
  ASSUME Typed, Matched
  PROVE  /\ AllTags \in Seq(Tags) /\ AllOwed \in Seq(Answers) /\ AllWords \in Seq(Words)
         /\ AllOps \in Seq(Numbers)
<1>1. /\ tags.items \in Seq(Tags) /\ tagOut \in Seq(Tags) /\ passes.items \in Seq(Words)
      /\ passOut \in Seq(Words) /\ answers.items \in Seq(Numbers) /\ onBus \in Seq(Numbers)
      /\ strobe \in Seq(Numbers)
  BY DEF Typed, Short
<1>2. When(mux.valid, mux.tag) \in Seq(Tags)
  BY DEF Matched, When
<1>3. AllOwed \in Seq(Answers)
  BY DEF Matched, AllOwed, AnswersMatch
<1> QED
  BY <1>1, <1>2, <1>3 DEF AllTags, AllWords, AllOps

\* The mux takes its word: every FIFO named by the tag gives up its front, and the front it
\* shows is what the request asked for.
LEMMA TakeMatches ==
  ASSUME Typed, Showing, Matched, NEW in \in Inputs, TagDone(in)
  PROVE  /\ AllTags # <<>> /\ AllOwed # <<>> /\ Head(AllOwed) = Selected
         /\ Paired(Tail(AllTags), Tail(AllOwed),
                   IF PopPass(in) THEN Tail(AllWords) ELSE AllWords, PassTags, PassTags)
         /\ Paired(Tail(AllTags), Tail(AllOwed),
                   IF PopWbm(in) THEN Tail(AllOps) ELSE AllOps, BusTags, {"wbm_req"})
         /\ \A i \in 1..Len(Tail(AllTags)) : Plain(Tail(AllTags)[i], Tail(AllOwed)[i])
<1> DEFINE T == AllTags
           O == AllOwed
           P == AllWords
           R == AllOps
<1>1. T \in Seq(Tags) /\ O \in Seq(Answers) /\ P \in Seq(Words) /\ R \in Seq(Numbers)
  BY AllTyped
<1>2. mux.valid /\ ~Missing
  BY DEF TagDone
<1>3. T # <<>> /\ Head(T) = mux.tag
  <2> DEFINE m == mux.tag
  <2>1. T = (<<m>> \o tags.items) \o tagOut /\ m \in Tags
    BY <1>2 DEF AllTags, When, Matched
  <2>2. tags.items \in Seq(Tags) /\ tagOut \in Seq(Tags)
    BY DEF Typed, Short
  <2> HIDE DEF m, T
  <2>3. T # <<>> /\ Head(T) = m
    BY ONLY <2>1, <2>2
  <2> QED
    BY <2>3 DEF m
<1>4. /\ PopPass(in) <=> Head(T) \in PassTags
      /\ PopWbm(in) <=> Head(T) \in BusTags
  BY <1>3 DEF PopPass, PopWbm, PassTags, BusTags
<1>5. /\ Len(O) = Len(T) /\ Paired(T, O, P, PassTags, PassTags)
      /\ Paired(T, O, R, BusTags, {"wbm_req"})
      /\ \A i \in 1..Len(T) : Plain(T[i], O[i])
  BY DEF Matched
<1>6. O # <<>> /\ Head(O) = O[1] /\ Head(T) = T[1] /\ 1 \in 1..Len(T)
  <2> HIDE DEF T, O
  <2> QED
    BY <1>1, <1>3, <1>5
<1>7. Plain(mux.tag, Head(O))
  BY <1>3, <1>5, <1>6
<1> HIDE DEF T, O, P, R
<1>8. Paired(Tail(T), Tail(O), IF PopPass(in) THEN Tail(P) ELSE P, PassTags, PassTags)
  <2>1. CASE Head(T) \in PassTags
    <3>1. Paired(Tail(T), Tail(O), Tail(P), PassTags, PassTags)
      BY <1>1, <1>3, <1>5, <2>1, PairedPop
    <3> QED
      BY <1>4, <2>1, <3>1
  <2>2. CASE Head(T) \notin PassTags
    <3>1. Paired(Tail(T), Tail(O), P, PassTags, PassTags)
      BY <1>1, <1>3, <1>5, <2>2, PairedDrop
    <3> QED
      BY <1>4, <2>2, <3>1
  <2> QED
    BY <2>1, <2>2
<1>9. Paired(Tail(T), Tail(O), IF PopWbm(in) THEN Tail(R) ELSE R, BusTags, {"wbm_req"})
  <2>1. CASE Head(T) \in BusTags
    <3>1. Paired(Tail(T), Tail(O), Tail(R), BusTags, {"wbm_req"})
      BY <1>1, <1>3, <1>5, <2>1, PairedPop
    <3> QED
      BY <1>4, <2>1, <3>1
  <2>2. CASE Head(T) \notin BusTags
    <3>1. Paired(Tail(T), Tail(O), R, BusTags, {"wbm_req"})
      BY <1>1, <1>3, <1>5, <2>2, PairedDrop
    <3> QED
      BY <1>4, <2>2, <3>1
  <2> QED
    BY <2>1, <2>2
<1>10. \A i \in 1..Len(Tail(T)) : Plain(Tail(T)[i], Tail(O)[i])
  <2>1. /\ Len(Tail(T)) = Len(T) - 1 /\ Len(T) \in Nat
        /\ \A i \in 1..Len(T) - 1 : Tail(T)[i] = T[i + 1] /\ Tail(O)[i] = O[i + 1]
    BY <1>1, <1>3, <1>5, <1>6, TailIs
  <2>2. \A i \in 1..Len(T) - 1 : i + 1 \in 1..Len(T)
    BY <2>1
  <2> QED
    BY <1>5, <2>1, <2>2
<1>11. mux.tag \in PassTags => Head(O) = Head(passes.items)
  <2> SUFFICES ASSUME mux.tag \in PassTags PROVE Head(O) = Head(passes.items)
    OBVIOUS
  <2>1. Head(O) = Head(P)
    BY <1>1, <1>3, <1>5, PairedPop
  <2>2. passes.items # <<>>
    BY <1>2, <1>3, <1>4 DEF PopPass, Missing, Showing, PassTags
  <2>3. passes.items \in Seq(Words) /\ passOut \in Seq(Words)
    BY DEF Typed, Short
  <2>4. Head(P) = Head(passes.items)
    BY <2>2, <2>3 DEF P, AllWords
  <2> QED
    BY <2>1, <2>4
<1>12. mux.tag = "wbm_req" => Head(O) = Head(answers.items)
  <2> SUFFICES ASSUME mux.tag = "wbm_req" PROVE Head(O) = Head(answers.items)
    OBVIOUS
  <2>1. Head(O) = Head(R)
    BY <1>1, <1>3, <1>5, PairedPop DEF BusTags
  <2>2. answers.items # <<>>
    BY <1>2 DEF Missing, Showing
  <2>3. answers.items \in Seq(Numbers) /\ onBus \in Seq(Numbers) /\ strobe \in Seq(Numbers)
    BY DEF Typed, Short
  <2> DEFINE a == answers.items
  <2>4. R = (a \o onBus) \o strobe
    BY DEF R, AllOps
  <2> HIDE DEF a
  <2>5. a # <<>> /\ a \in Seq(Numbers)
    BY <2>2, <2>3 DEF a
  <2>6. Head((a \o onBus) \o strobe) = Head(a)
    BY ONLY <2>3, <2>5
  <2> QED
    BY <2>1, <2>4, <2>6 DEF a
<1>13. Head(O) = Selected
  <2>1. mux.tag \in {"drop_tx", "skip_tx"} => Selected = mux.tag
    BY DEF Selected
  <2>2. mux.tag = "cfg_req" => Selected = "config"
    BY DEF Selected
  <2>3. mux.tag = "wbm_req" => Selected = Head(answers.items)
    BY DEF Selected, Front
  <2>4. mux.tag \in PassTags => Selected = Head(passes.items)
    BY DEF Selected, Front, PassTags
  <2>5. mux.tag \in {"drop_tx", "skip_tx", "cfg_req", "wbm_req"} \cup PassTags
    BY <1>2 DEF Matched, Tags, PassTags
  <2> QED
    BY <1>7, <1>11, <1>12, <2>1, <2>2, <2>3, <2>4, <2>5 DEF Plain
<1> QED
  BY <1>3, <1>6, <1>8, <1>9, <1>10, <1>13 DEF T, O, P, R

LEMMA MatchStep ==
  ASSUME CInv, Matched, NEW in \in Inputs, Clock(in)
  PROVE  Matched'
<1>1. /\ Typed /\ Showing /\ Paced /\ OthersFit /\ Counts
      /\ BusConforms(in) /\ Fsm(in) /\ TagFifo(in) /\ TagIn(in) /\ TxOut(in)
      /\ PassFifo(in) /\ WbmFifo(in) /\ Bus(in)
  BY DEF CInv, Clock
<1>2. /\ AllTags \in Seq(Tags) /\ AllOwed \in Seq(Answers) /\ AllWords \in Seq(Words)
      /\ AllOps \in Seq(Numbers)
  BY <1>1, AllTyped
<1> DEFINE T == IF TagDone(in) THEN Tail(AllTags) ELSE AllTags
           O == IF TagDone(in) THEN Tail(AllOwed) ELSE AllOwed
           P == IF PopPass(in) THEN Tail(AllWords) ELSE AllWords
           R == IF PopWbm(in) THEN Tail(AllOps) ELSE AllOps
<1>3. /\ AllTags' = T \o tagOut' /\ AllWords' = P \o passOut'
      /\ AllOps' = R \o When(wbmOut', number)
      /\ mux'.valid \in BOOLEAN /\ (mux'.valid => mux'.tag \in Tags)
  BY <1>1, TagsMove, WordsMove, OpsMove DEF Matched
<1>4. last' = When(TagDone(in), Selected)
  BY <1>1 DEF TxOut
<1>5. (PopPass(in) \/ PopWbm(in)) => TagDone(in)
  BY DEF PopPass, PopWbm
<1>6. /\ Paired(T, O, P, PassTags, PassTags) /\ Paired(T, O, R, BusTags, {"wbm_req"})
      /\ \A i \in 1..Len(T) : Plain(T[i], O[i])
  <2>1. CASE TagDone(in)
    BY <1>1, <2>1, TakeMatches
  <2>2. CASE ~TagDone(in)
    BY <1>5, <2>2 DEF Matched
  <2> QED
    BY <2>1, <2>2
<1>7. /\ T \in Seq(Tags) /\ O \in Seq(Answers) /\ Len(O) = Len(T)
  <2>1. CASE TagDone(in)
    <3>1. AllTags # <<>> /\ AllOwed # <<>> /\ Len(AllOwed) = Len(AllTags)
      BY <1>1, <2>1, TakeMatches DEF Matched
    <3>2. /\ Tail(AllTags) \in Seq(Tags) /\ Tail(AllOwed) \in Seq(Answers)
          /\ Len(Tail(AllOwed)) = Len(Tail(AllTags))
      BY <1>2, <3>1, TailIs
    <3> QED
      BY <2>1, <3>2
  <2>2. CASE ~TagDone(in)
    BY <1>2, <2>2 DEF Matched
  <2> QED
    BY <2>1, <2>2
<1>8. P \in Seq(Words) /\ R \in Seq(Numbers)
  <2>1. PopPass(in) => AllWords # <<>>
    <3>1. PopPass(in) => passes.items # <<>> /\ passes.items \in Seq(Words) /\ passOut \in Seq(Words)
      BY <1>1 DEF PopPass, TagDone, Missing, Showing, Typed, Short
    <3> QED
      BY <3>1 DEF AllWords
  <2>2. PopWbm(in) => AllOps # <<>>
    <3>1. PopWbm(in) => answers.items # <<>>
      BY <1>1 DEF PopWbm, TagDone, Missing, Showing
    <3>2. answers.items \in Seq(Numbers) /\ onBus \in Seq(Numbers) /\ strobe \in Seq(Numbers)
      BY <1>1 DEF Typed, Short
    <3> QED
      BY <3>1, <3>2 DEF AllOps
  <2> QED
    BY <1>2, <2>1, <2>2
\* What is owed and what the mux has put out
<1>9. ASSUME NEW what \in Seq(Answers), owed' = AllOwed \o what
      PROVE  /\ owed' \in Seq(Answers) /\ AnswersMatch'
             /\ AllOwed' = O \o what
  <2>1. owed' \in Seq(Answers)
    BY <1>2, <1>9
  <2>2. CASE TagDone(in)
    <3>1. AllOwed # <<>> /\ Head(AllOwed) = Selected
      BY <1>1, <2>2, TakeMatches
    <3>2. last' = <<Selected>>
      BY <1>4, <2>2 DEF When
    <3>3. owed' # <<>> /\ Head(owed') = Head(AllOwed) /\ Tail(owed') = Tail(AllOwed) \o what
      <4> DEFINE q == AllOwed
      <4>1. q \in Seq(Answers) /\ q # <<>> /\ what \in Seq(Answers) /\ owed' = q \o what
        BY <1>2, <1>9, <3>1
      <4> HIDE DEF q
      <4>2. owed' # <<>> /\ Head(owed') = Head(q) /\ Tail(owed') = Tail(q) \o what
        BY ONLY <4>1
      <4> QED
        BY <4>2 DEF q
    <3>4. AnswersMatch'
      BY <3>1, <3>2, <3>3 DEF AnswersMatch
    <3>5. AllOwed' = Tail(owed')
      BY <3>2 DEF AllOwed
    <3> QED
      BY <2>1, <2>2, <3>3, <3>4, <3>5
  <2>3. CASE ~TagDone(in)
    <3>1. last' = <<>>
      BY <1>4, <2>3 DEF When
    <3>2. AllOwed' = owed' /\ AnswersMatch'
      BY <3>1 DEF AllOwed, AnswersMatch
    <3> QED
      BY <1>9, <2>1, <2>3, <3>2
  <2> QED
    BY <2>2, <2>3
<1> HIDE DEF T, O, P, R
<1>10. CASE Quiet
  <2>1. owed' = AllOwed \o <<>> /\ <<>> \in Seq(Answers)
    BY <1>2, <1>10 DEF Quiet
  <2>2. owed' \in Seq(Answers) /\ AnswersMatch' /\ AllOwed' = O
    <3>1. owed' \in Seq(Answers) /\ AnswersMatch' /\ AllOwed' = O \o <<>>
      BY <1>9, <2>1
    <3>2. O \o <<>> = O
      BY ONLY <1>7
    <3> QED
      BY <3>1, <3>2
  <2>3. AllTags' = T /\ AllWords' = P /\ AllOps' = R
    <3>1. AllTags' = T \o <<>> /\ AllWords' = P \o <<>> /\ AllOps' = R \o <<>>
      BY <1>3, <1>10 DEF Quiet, When
    <3>2. T \o <<>> = T /\ P \o <<>> = P /\ R \o <<>> = R
      BY ONLY <1>7, <1>8
    <3> QED
      BY <3>1, <3>2
  <2> QED
    BY <1>3, <1>6, <1>7, <2>2, <2>3 DEF Matched
<1>11. CASE \E tag \in Tags, word \in Answers : Asks(tag, word)
  <2>1. PICK tag \in Tags, word \in Answers : Asks(tag, word)
    BY <1>11
  <2>2. owed' \in Seq(Answers) /\ AnswersMatch' /\ AllOwed' = O \o <<word>>
    <3>1. <<word>> \in Seq(Answers) /\ owed' = AllOwed \o <<word>>
      BY <2>1 DEF Asks
    <3> QED
      BY <1>9, <3>1
  <2>3. AllTags' = T \o <<tag>>
    BY <1>3, <2>1 DEF Asks
  <2>4. Paired(AllTags', AllOwed', AllWords', PassTags, PassTags)
    <3>1. CASE tag \in PassTags
      <4>1. word \in Words /\ AllWords' = P \o <<word>>
        BY <1>3, <2>1, <3>1 DEF Asks
      <4>2. Paired(T \o <<tag>>, O \o <<word>>, P \o <<word>>, PassTags, PassTags)
        BY <1>6, <1>7, <1>8, <3>1, <4>1, PairedPush
      <4> QED
        BY <2>2, <2>3, <4>1, <4>2
    <3>2. CASE tag \notin PassTags
      <4>1. AllWords' = P
        <5>1. AllWords' = P \o <<>>
          BY <1>3, <2>1, <3>2 DEF Asks
        <5>2. P \o <<>> = P
          BY ONLY <1>8
        <5> QED
          BY <5>1, <5>2
      <4>2. Paired(T \o <<tag>>, O \o <<word>>, P, PassTags, PassTags)
        BY <1>6, <1>7, <1>8, <3>2, PairedSkip
      <4> QED
        BY <2>2, <2>3, <4>1, <4>2
    <3> QED
      BY <3>1, <3>2
  <2>5. Paired(AllTags', AllOwed', AllOps', BusTags, {"wbm_req"})
    <3>1. CASE tag \in BusTags
      <4>1. number \in Numbers /\ AllOps' = R \o <<number>> /\ (tag \in {"wbm_req"} => word = number)
        BY <1>1, <1>3, <2>1, <3>1 DEF Asks, When, Typed
      <4>2. Paired(T \o <<tag>>, O \o <<word>>, R \o <<number>>, BusTags, {"wbm_req"})
        BY <1>6, <1>7, <1>8, <3>1, <4>1, PairedPush
      <4> QED
        BY <2>2, <2>3, <4>1, <4>2
    <3>2. CASE tag \notin BusTags
      <4>1. AllOps' = R
        <5>1. AllOps' = R \o <<>>
          BY <1>3, <2>1, <3>2 DEF Asks, When
        <5>2. R \o <<>> = R
          BY ONLY <1>8
        <5> QED
          BY <5>1, <5>2
      <4>2. Paired(T \o <<tag>>, O \o <<word>>, R, BusTags, {"wbm_req"})
        BY <1>6, <1>7, <1>8, <3>2, PairedSkip
      <4> QED
        BY <2>2, <2>3, <4>1, <4>2
    <3> QED
      BY <3>1, <3>2
  <2>6. /\ Len(AllOwed') = Len(AllTags')
        /\ \A i \in 1..Len(AllTags') : Plain(AllTags'[i], AllOwed'[i])
    <3>1. Plain(tag, word)
      BY <2>1 DEF Asks
    <3>2. /\ Len(T \o <<tag>>) = Len(T) + 1 /\ Len(O \o <<word>>) = Len(O) + 1 /\ Len(T) \in Nat
          /\ \A i \in 1..Len(T) : (T \o <<tag>>)[i] = T[i] /\ (O \o <<word>>)[i] = O[i]
          /\ (T \o <<tag>>)[Len(T) + 1] = tag /\ (O \o <<word>>)[Len(T) + 1] = word
      BY <1>7, LongerIs
    <3>3. ASSUME NEW i \in 1..Len(T) + 1 PROVE Plain((T \o <<tag>>)[i], (O \o <<word>>)[i])
      <4>1. CASE i = Len(T) + 1
        BY <3>1, <3>2, <4>1
      <4>2. CASE i \in 1..Len(T)
        BY <1>6, <3>2, <4>2
      <4>3. Len(T) \in Nat
        BY <3>2
      <4>4. i = Len(T) + 1 \/ i \in 1..Len(T)
        BY ONLY <4>3, i \in 1..Len(T) + 1
      <4> QED
        BY <4>1, <4>2, <4>4
    <3> QED
      BY <1>7, <2>2, <2>3, <3>2, <3>3
  <2> QED
    BY <1>3, <2>2, <2>4, <2>5, <2>6 DEF Matched
<1> QED
  BY <1>1, <1>2, <1>10, <1>11, FsmAsks

\* Whatever the mux takes next is what the request asked for at that place: tag, pass, cfg
\* and wbm FIFO stay in step, whatever the bus, its timeouts and the stalls do.  (Overrun,
\* which the model does not follow, is excluded by NoOverflow.)
THEOREM InStep == Spec => []AnswersMatch
<1>1. Init => Matched
  <2> SUFFICES ASSUME Init PROVE Matched
    OBVIOUS
  <2>1. /\ mux.valid = FALSE /\ owed = <<>> /\ last = <<>> /\ tags.items = <<>> /\ tagOut = <<>>
        /\ passes.items = <<>> /\ passOut = <<>> /\ answers.items = <<>> /\ onBus = <<>>
        /\ strobe = <<>>
    BY DEF Init, NewQueue
  <2>2. AllTags = <<>> /\ AllOwed = <<>> /\ AllWords = <<>> /\ AllOps = <<>>
    BY <2>1 DEF AllTags, AllOwed, AllWords, AllOps, When
  <2>3. \A K, V : Paired(<<>>, <<>>, <<>>, K, V)
    <3> TAKE K, V
    <3> DEFINE place == [k \in 1..Len(<<>>) |-> k]
               none == 1..Len(<<>>)
    <3>1. place \in [none -> none] /\ none = {}
      OBVIOUS
    <3> HIDE DEF place, none
    <3>2. /\ \A j, k \in none : j < k => place[j] < place[k]
          /\ \A k \in none : /\ <<>>[place[k]] \in K
                            /\ <<>>[place[k]] \in V => <<>>[place[k]] = <<>>[k]
          /\ \A i \in none : <<>>[i] \in K => \E k \in none : place[k] = i
      BY <3>1
    <3> QED
      BY <3>1, <3>2 DEF Paired, none
  <2>4. Len(AllOwed) = Len(AllTags) /\ 1..Len(AllTags) = {} /\ owed \in Seq(Answers)
    BY <2>1, <2>2
  <2>5. /\ Paired(AllTags, AllOwed, AllWords, PassTags, PassTags)
        /\ Paired(AllTags, AllOwed, AllOps, BusTags, {"wbm_req"})
    BY <2>2, <2>3
  <2> QED
    BY <2>1, <2>4, <2>5 DEF Matched, AnswersMatch
<1>2. CInv /\ Matched /\ [Next]_vars => Matched'
  <2>1. CInv /\ Matched /\ Next => Matched'
    BY MatchStep DEF Next
  <2>2. Matched /\ UNCHANGED vars => Matched'
    <3> SUFFICES ASSUME Matched, UNCHANGED vars PROVE Matched'
      OBVIOUS
    <3> USE DEF vars, widenVars, fsmVars, queueVars, muxVars
    <3>1. AllTags' = AllTags /\ AllOwed' = AllOwed /\ AllWords' = AllWords /\ AllOps' = AllOps
      BY DEF AllTags, AllOwed, AllWords, AllOps, When
    <3>2. mux' = mux /\ owed' = owed /\ (AnswersMatch' <=> AnswersMatch)
      BY DEF AnswersMatch
    <3> QED
      BY <3>1, <3>2 DEF Matched
  <2> QED
    BY <2>1, <2>2
<1>3. Matched => AnswersMatch
  BY DEF Matched
<1> QED
  BY Counting, <1>1, <1>2, <1>3, PTL DEF Spec

=============================================================================
