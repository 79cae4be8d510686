------------------------------- MODULE EbWire -------------------------------
(***************************************************************************)
(* What goes over the wire: eb_device_flush packs the operations of cycles *)
(* into records and the records into datagrams or a stream                 *)
(* (format/master.c); eb_device_slave performs them on a bus and writes    *)
(* the answers over the request (format/slave.c); eb_socket_write_config   *)
(* files the answers under the operations that asked (glue/readwrite.c).   *)
(*                                                                         *)
(* The three sides count operations independently: the sender decides      *)
(* after how many it reads the error register, the register remembers a    *)
(* fixed number, and the receiver spreads the bits it gets over the        *)
(* operations it believes they are about.                                  *)
(*                                                                         *)
(* Lengths are in words: a record header, an address or a value is one.    *)
(* Datagrams may be lost, repeated and overtake each other; a stream is    *)
(* delivered in pieces.                                                    *)
(***************************************************************************)
EXTENDS Integers, FiniteSets, Sequences, SequencesExt

CONSTANTS Queues,    \* what the application may have queued: sequences of cycles
          Stride,    \* bytes of a word of the bus
          MaxOps,    \* bits of the error register one read returns
          MaxCount,  \* operations one record may hold of each kind (255)
          Dead,      \* addresses where no device answers
          Mtus,      \* words of a datagram after its header; 0: a stream
          Buffer,    \* words of the buffer of a stream
          MaxLosses, \* datagrams lost
          MaxCopies  \* datagrams repeated

\* full: the operation is as wide as the bus.
Op == [read : BOOLEAN, cfg : BOOLEAN, addr : Nat, full : BOOLEAN]
Cycle == [ops : Seq(Op), check : BOOLEAN]

ASSUME WireAssumption ==
  /\ Stride \in Nat \ {0} /\ MaxOps \in Nat \ {0} /\ MaxCount \in Nat \ {0, 1}
  /\ Queues \subseteq Seq(Cycle)
  /\ Mtus \cup {Buffer, MaxLosses, MaxCopies} \subseteq Nat
  /\ Buffer >= 2 * MaxCount + 3  \* the worst-case record

VARIABLES mtu,     \* of the link
          queue,   \* the cycles being flushed
          snd,     \* the sender: cyc, at, ops, readback, hasReads, nr, done
          buf,     \* records in the buffer
          closed,  \* how many of them belong to finished cycles (cptr)
          net,     \* requests on their way
          replies, \* answers on their way
          log,     \* accesses the slave made: one sequence for each call
          resp,    \* struct eb_response: cursors, by cycle; 0 when it is gone
          value,   \* what each operation read: a place in the log
          flagged, \* the operations marked with EB_OP_ERROR
          status,  \* what the callback was told
          lost, copied, killed
vars == <<mtu, queue, snd, buf, closed, net, replies, log, resp, value, flagged,
          status, lost, copied, killed>>
sender == <<mtu, queue, snd, buf, closed>>
answers == <<resp, value, flagged, status>>
network == <<lost, copied, killed>>

Least(a, b) == IF a < b THEN a ELSE b
Largest(S) == CHOOSE n \in S : \A m \in S : m <= n
Ops(c) == queue[c].ops
NoResponse == [write |-> 0, status |-> 0, live |-> FALSE]

Init ==
  /\ mtu \in Mtus /\ queue \in Queues
  /\ snd = [cyc |-> 1, at |-> 1, ops |-> 0, readback |-> FALSE,
            hasReads |-> FALSE, nr |-> FALSE, done |-> FALSE]
  /\ buf = <<>> /\ closed = 0 /\ net = <<>> /\ replies = <<>> /\ log = <<>>
  /\ resp = [c \in DOMAIN queue |-> NoResponse]
  /\ value = [c \in DOMAIN queue |-> [i \in DOMAIN Ops(c) |-> <<0, 0>>]]
  /\ flagged = [c \in DOMAIN queue |-> {}]
  /\ status = [c \in DOMAIN queue |-> "none"]
  /\ lost = 0 /\ copied = 0 /\ killed = FALSE

----------------------------------------------------------------------------
\* Packing: one turn of the while loop of eb_device_flush

\* Operations i and j of s may share a half of a record.
Alike_AnySpace(s, i, j) == s[i].read = s[j].read /\ s[i].full = s[j].full
Alike(s, i, j) ==
  /\ s[i].read = s[j].read /\ s[i].cfg = s[j].cfg /\ s[i].full = s[j].full

\* The n writes of s from k on form one burst: to one address or to addresses
\* that follow each other.
IsFifo(s, k, n) == \A i \in 0..n-1 : s[k+i].addr = s[k].addr
IsBurst(s, k, n) == IsFifo(s, k, n) \/ \A i \in 0..n-1 : s[k+i].addr = s[k].addr + i * Stride

\* How many writes the record at operation k takes, when left operations may
\* still be covered by the error register.
Writes(s, k, left) ==
  Largest({n \in 0..Least(MaxCount, Len(s) - k + 1) :
             n > 0 => /\ left > 0 /\ ~s[k].read
                      /\ \A i \in 0..n-1 : Alike(s, k, k+i)
                      /\ IsBurst(s, k, n)
                      /\ s[k].cfg \/ n <= left})

\* How many reads follow the w writes, at operation k: their bytes must lie where
\* those of the writes lie.
Low(s, k) == s[k].addr % Stride
Reads(s, k, w, left) ==
  Largest({n \in 0..Least(MaxCount, Len(s) - k + 1) :
             n > 0 => /\ left > 0 /\ s[k].read
                      /\ \A i \in 0..n-1 : Alike(s, k, k+i) /\ Low(s, k+i) = Low(s, k)
                      /\ w > 0 => s[k].full = s[k-w].full /\ Low(s, k) = Low(s, k-w)
                      /\ s[k].cfg \/ n <= left})

Counted(s, k, n) == IF n = 0 \/ s[k].cfg THEN 0 ELSE n

\* The record for cycle c from operation k on, with ops operations not yet
\* covered by a read of the error register.
RecordAt(c, k, ops) ==
  LET s     == Ops(c)
      check == queue[c].check
      Left(n) == IF check THEN MaxOps - n ELSE Len(s) + 1
      w     == Writes(s, k, Left(ops))
      ops1  == ops + Counted(s, k, w)
      r     == Reads(s, k + w, w, Left(ops1))
      ops2  == ops1 + Counted(s, k + w, r)
      rest  == k + w + r > Len(s)
      flags == /\ check /\ r = 0
               /\ w = 0 \/ s[k].full
               /\ ops2 >= MaxOps \/ (rest /\ ops2 > 0)
  IN [cycle |-> c, first |-> k, wcount |-> w, reads |-> r,
      base  |-> IF w = 0 THEN 0 ELSE s[k].addr,
      fifo  |-> w > 1 /\ IsFifo(s, k, w),
      wcfg  |-> w > 0 /\ s[k].cfg,
      rcfg  |-> r > 0 /\ s[k+w].cfg,
      addrs |-> [i \in 1..r |-> s[k+w+i-1].addr],
      flags |-> flags,
      end   |-> rest /\ (~check \/ ops2 = 0 \/ flags),
      ops   |-> IF flags THEN 0 ELSE ops2]

Answering(rec) == rec.reads > 0 \/ rec.flags
Words(rec) ==
  1 + (IF rec.wcount > 0 THEN 1 + rec.wcount ELSE 0)
    + (IF rec.reads > 0 THEN 1 + rec.reads ELSE IF rec.flags THEN 2 ELSE 0)
Size(recs) == FoldLeft(LAMBDA n, rec : n + Words(rec), 0, recs)

Now == RecordAt(snd.cyc, snd.at, snd.ops)
Flushing == ~snd.done /\ snd.cyc <= Len(queue)
Space == IF mtu = 0 THEN Buffer ELSE mtu
Fits == Size(buf) + Words(Now) <= Space

NextCycle(s) == [s EXCEPT !.cyc = @ + 1, !.at = 1, !.ops = 0, !.readback = FALSE]

\* The callbacks that need no wire: a cycle without operations.
SkipEmpty ==
  /\ Flushing /\ Ops(snd.cyc) = <<>>
  /\ status' = [status EXCEPT ![snd.cyc] = "OK"]
  /\ snd' = NextCycle(snd)
  /\ UNCHANGED <<mtu, queue, buf, closed, net, replies, log, resp, value, flagged, network>>

\* eb_find_read and eb_find_bus from operation i on; 0 at the end of the list.
FindFrom(S, i) ==
  IF \E j \in S : j >= i THEN CHOOSE j \in S : j >= i /\ \A m \in S : m >= i => j <= m
  ELSE 0
ReadsOf(c) == {i \in DOMAIN Ops(c) : Ops(c)[i].read}
BusOf(c) == {i \in DOMAIN Ops(c) : ~Ops(c)[i].cfg}

\* The end of a cycle: it waits for an answer if it asked for one.
CloseCycle(readback) ==
  LET c == snd.cyc IN
  IF readback
  THEN /\ resp' = [resp EXCEPT ![c] =
            [live |-> TRUE, write |-> FindFrom(ReadsOf(c), 1),
             status |-> IF queue[c].check THEN FindFrom(BusOf(c), 1) ELSE 0]]
       /\ UNCHANGED status
  ELSE status' = [status EXCEPT ![c] = "OK"] /\ UNCHANGED resp

\* A record is appended; on a stream it may first push out what is there.
Pack ==
  LET room == Fits \/ mtu = 0
      kept == IF Fits THEN buf ELSE <<>>
      back == snd.readback \/ Answering(Now)
  IN
  /\ Flushing /\ Ops(snd.cyc) # <<>> /\ room
  /\ buf' = Append(kept, Now)
  /\ net' = IF Fits THEN net ELSE net \o buf
  /\ LET s == [snd EXCEPT !.at = @ + Now.wcount + Now.reads, !.ops = Now.ops,
                          !.readback = back, !.hasReads = @ \/ Answering(Now)]
     IN IF Now.end
        THEN /\ snd' = NextCycle(s)
             /\ closed' = Len(buf')
             /\ CloseCycle(back)
        ELSE snd' = s /\ UNCHANGED <<closed, resp, status>>
  /\ UNCHANGED <<mtu, queue, replies, log, value, flagged, network>>

\* The no-reads flag of a packet; once set it stays in the buffer's header.
NoReads == snd.nr \/ ~snd.hasReads

\* The datagram is full: the finished cycles in it go, the current one moves up.
SendFinished ==
  /\ Flushing /\ Ops(snd.cyc) # <<>> /\ mtu # 0 /\ ~Fits /\ closed > 0
  /\ net' = Append(net, [nr |-> NoReads, recs |-> SubSeq(buf, 1, closed)])
  /\ buf' = SubSeq(buf, closed + 1, Len(buf))
  /\ closed' = 0
  /\ snd' = [snd EXCEPT !.nr = NoReads, !.hasReads = FALSE]
  /\ UNCHANGED <<mtu, queue, replies, log, answers, network>>

\* The cycle alone does not fit: EB_OVERFLOW.
Overflow ==
  /\ Flushing /\ Ops(snd.cyc) # <<>> /\ mtu # 0 /\ ~Fits /\ closed = 0
  /\ status' = [status EXCEPT ![snd.cyc] = "OVERFLOW"]
  /\ buf' = <<>>
  /\ snd' = NextCycle(snd)
  /\ UNCHANGED <<mtu, queue, closed, net, replies, log, resp, value, flagged, network>>

FlushEnd ==
  /\ ~snd.done /\ snd.cyc > Len(queue)
  /\ net' = IF buf = <<>> THEN net
            ELSE IF mtu = 0 THEN net \o buf
            ELSE Append(net, [nr |-> NoReads, recs |-> buf])
  /\ snd' = [snd EXCEPT !.done = TRUE]
  /\ buf' = <<>> /\ closed' = 0
  /\ UNCHANGED <<mtu, queue, replies, log, answers, network>>

----------------------------------------------------------------------------
\* Serving: eb_device_slave on a request.  The sender files answers only after the
\* flush, so the slave may as well begin then.

Access(rec, i, a, read, cfg) ==
  [who |-> <<rec.cycle, rec.first + i - 1>>, addr |-> a, read |-> read, cfg |-> cfg]

\* The accesses of the write half: addresses are rebuilt from the base.
WriteAccesses(rec) ==
  [i \in 1..rec.wcount |->
     Access(rec, i, IF rec.fifo THEN rec.base ELSE rec.base + (i-1) * Stride,
            FALSE, rec.wcfg)]
ReadAccesses(rec) ==
  [i \in 1..rec.reads |->
     Access(rec, rec.wcount + i, rec.addrs[i], TRUE, rec.rcfg)]

\* The error register after accesses to the bus.
Shifted(error, accesses) ==
  error \o [i \in DOMAIN SelectSeq(accesses, LAMBDA x : ~x.cfg) |->
              SelectSeq(accesses, LAMBDA x : ~x.cfg)[i].addr \in Dead]
\* What one read of it returns: the last MaxOps bits, the oldest first.
Register(error) ==
  LET n == Len(error) IN
  [i \in 1..MaxOps |-> IF n - MaxOps + i >= 1 THEN error[n - MaxOps + i] ELSE FALSE]

\* One record: st holds the accesses so far, the error register, the answer, whether
\* the answer's cycle line is up, how many words were read, and whether the
\* answer ever overtook the request it overwrites.
Terminates_Never(st, rec) == FALSE
Terminates(st, rec) == st.open /\ rec.end
Serve(st, rec) ==
  LET reads   == ReadAccesses(rec)
      done    == st.done \o WriteAccesses(rec) \o reads
      error   == Shifted(st.error, WriteAccesses(rec))
      at      == Len(st.done) + rec.wcount
      reply   == [cycle |-> rec.cycle, flags |-> rec.flags, end |-> rec.end,
                  values |-> IF rec.flags THEN <<Register(error)>>
                             ELSE [i \in 1..rec.reads |-> <<Len(log) + 1, at + i>>]]
      open    == IF Answering(rec) THEN ~rec.end ELSE st.open
      closing == [cycle |-> 0, flags |-> FALSE, end |-> TRUE, values |-> <<>>]
      out     == st.out \o (IF Answering(rec) THEN <<reply>> ELSE <<>>)
                        \o (IF Terminates([st EXCEPT !.open = open], rec)
                            THEN <<closing>> ELSE <<>>)
      length  == FoldLeft(LAMBDA n, x : n + 1 +
                   (IF x.values = <<>> THEN 0 ELSE 1 + Len(x.values)), 0, out)
  IN [done |-> done, error |-> Shifted(error, reads), out |-> out, open |-> open,
      used |-> st.used + Words(rec), fits |-> st.fits /\ length <= st.used + Words(rec)]

Idle == [done |-> <<>>, error |-> <<>>, out |-> <<>>, open |-> FALSE, used |-> 0,
         fits |-> TRUE]
Served(recs) == FoldLeft(Serve, Idle, recs)

Respond(recs) ==
  LET st == Served(recs) IN
  /\ log' = Append(log, st.done)
  /\ replies' = IF st.out = <<>> THEN replies ELSE Append(replies, st.out)

Dropped(s, i) == SubSeq(s, 1, i-1) \o SubSeq(s, i+1, Len(s))

\* Any datagram may arrive next, and the network may keep a copy.
ServePacket ==
  /\ mtu # 0 /\ snd.done
  /\ \E i \in DOMAIN net :
       /\ Respond(net[i].recs)
       /\ \/ net' = Dropped(net, i) /\ UNCHANGED copied
          \/ copied < MaxCopies /\ copied' = copied + 1 /\ UNCHANGED net
  /\ UNCHANGED <<sender, answers, lost, killed>>

\* A piece of the stream: the slave goes on reading until the cycle line falls.
ServeStream ==
  /\ mtu = 0 /\ snd.done /\ ~killed
  /\ \E n \in DOMAIN net :
       /\ net[n].end
       /\ Respond(SubSeq(net, 1, n))
       /\ net' = SubSeq(net, n + 1, Len(net))
  /\ UNCHANGED <<sender, answers, network>>

\* A piece that ends inside a header, after the cycle line fell, ends the link.
CutInHeader ==
  /\ mtu = 0 /\ snd.done /\ ~killed /\ net # <<>>
  /\ killed' = TRUE /\ net' = <<>>
  /\ UNCHANGED <<sender, replies, log, answers, lost, copied>>

Lose ==
  /\ lost < MaxLosses /\ lost' = lost + 1
  /\ \/ \E i \in DOMAIN net : net' = Dropped(net, i) /\ UNCHANGED replies
     \/ \E i \in DOMAIN replies : replies' = Dropped(replies, i) /\ UNCHANGED net
  /\ mtu # 0 /\ snd.done
  /\ UNCHANGED <<sender, log, answers, copied, killed>>

----------------------------------------------------------------------------
\* Filing: eb_socket_write_config for every word of an answer

\* How many operations one word of the error register is about.
Covered_WithConfig(c, from) ==
  {i \in DOMAIN Ops(c) : from <= i /\ i < from + MaxOps}
Covered(c, from) ==
  {i \in BusOf(c) : i >= from /\ Cardinality({j \in BusOf(c) : from <= j /\ j <= i}) <= MaxOps}

\* Bits are given to operations from the newest back.
Marked(c, S, bits) ==
  {i \in S : bits[MaxOps - Cardinality({j \in S : j > i})]}

Gone(a, c, s) == [a EXCEPT !.resp[c] = NoResponse, !.status[c] = s]
Finished(a, c) ==
  IF a.resp[c].write = 0 /\ a.resp[c].status = 0
  THEN Gone(a, c, IF a.flagged[c] = {} THEN "OK" ELSE "SEGFAULT")
  ELSE a

FileValue(a, c, v) ==
  LET i == a.resp[c].write IN
  IF i = 0 THEN Gone(a, c, "FAIL")
  ELSE Finished([a EXCEPT !.value[c][i] = v,
                          !.resp[c].write = FindFrom(ReadsOf(c), i + 1)], c)

FileStatus(a, c, bits) ==
  LET from == a.resp[c].status
      S    == IF from = 0 THEN {} ELSE Covered(c, from)
  IN IF S = {} THEN Gone(a, c, "FAIL")
     ELSE Finished([a EXCEPT !.flagged[c] = @ \cup Marked(c, S, bits),
                             !.resp[c].status = FindFrom(BusOf(c), Largest(S) + 1)], c)

FileRecord(a, rec) ==
  FoldLeft(LAMBDA b, v : IF ~b.resp[rec.cycle].live THEN b
                         ELSE IF rec.flags THEN FileStatus(b, rec.cycle, v)
                         ELSE FileValue(b, rec.cycle, v),
           a, rec.values)

FileReply ==
  \E i \in DOMAIN replies :
    /\ mtu = 0 => i = 1
    /\ LET a == FoldLeft(FileRecord, [resp |-> resp, value |-> value,
                                      flagged |-> flagged, status |-> status],
                         replies[i])
       IN /\ resp' = a.resp /\ value' = a.value
          /\ flagged' = a.flagged /\ status' = a.status
    /\ replies' = Dropped(replies, i)
    /\ UNCHANGED <<sender, net, log, network>>

Next ==
  \/ SkipEmpty \/ Pack \/ SendFinished \/ Overflow \/ FlushEnd
  \/ ServePacket \/ ServeStream \/ CutInHeader \/ Lose \/ FileReply

Spec == Init /\ [][Next]_vars

----------------------------------------------------------------------------
\* Properties

\* All operations of the cycles of S in order, as the wire names them.
Whole(S) == FoldLeft(LAMBDA s, c : s \o [i \in DOMAIN Ops(c) |-> <<c, i>>], <<>>,
                     SetToSortSeq(S, <))

\* Each call of the slave performs whole cycles in the order they were closed, each
\* operation once, at its own address and in its own address space.
PerformsTheCycles ==
  \A n \in DOMAIN log :
    LET who == [i \in DOMAIN log[n] |-> log[n][i].who] IN
    /\ who = Whole({who[i][1] : i \in DOMAIN who})
    /\ \A i \in DOMAIN log[n] :
         LET op == Ops(who[i][1])[who[i][2]] IN
         /\ log[n][i].addr = op.addr /\ log[n][i].read = op.read
         /\ log[n][i].cfg = op.cfg

\* A cycle that is told OK or SEGFAULT has in each of its reads what its own access
\* found, and in a checked cycle exactly the operations that failed are marked; no
\* conforming answer is refused, and none is missing once all have arrived.
AnswersBelong ==
  /\ \A c \in DOMAIN queue :
       /\ status[c] # "FAIL"
       /\ status[c] \in {"OK", "SEGFAULT"} =>
            /\ \A i \in ReadsOf(c) :
                 /\ value[c][i][1] \in DOMAIN log
                 /\ value[c][i][2] \in DOMAIN log[value[c][i][1]]
                 /\ log[value[c][i][1]][value[c][i][2]].who = <<c, i>>
            /\ flagged[c] = {i \in BusOf(c) : queue[c].check /\ Ops(c)[i].addr \in Dead}
            /\ status[c] = "SEGFAULT" <=> flagged[c] # {}
  /\ (snd.done /\ net = <<>> /\ replies = <<>> /\ lost = 0 /\ ~killed) =>
       \A c \in DOMAIN queue : status[c] # "none"

\* A datagram holds whole cycles and no more than the MTU; its answer ends with the
\* cycle line down and never grows over the part of the request still to be read.
\* ("Impossible to run out of space; sizeof(request) >= sizeof(reply)")
PacketsAreWhole ==
  /\ mtu # 0 => \A n \in DOMAIN net :
       /\ Size(net[n].recs) <= mtu /\ net[n].recs[Len(net[n].recs)].end
       /\ LET st == Served(net[n].recs) IN
            st.fits /\ (st.out # <<>> => st.out[Len(st.out)].end)
  /\ mtu = 0 /\ snd.done /\ net # <<>> =>
       /\ net[Len(net)].end /\ Served(net).fits

\* The no-reads flag of a datagram tells the truth.  (spec/spec.tex, field NR:
\* "An Etherbone device must leave this field 0 if the message includes reads.")
NoReadsTrue ==
  mtu # 0 => \A n \in DOMAIN net :
    net[n].nr => \A i \in DOMAIN net[n].recs : ~Answering(net[n].recs[i])
=============================================================================
