------------------------------ MODULE EbCycles ------------------------------
(***************************************************************************)
(* The life of Wishbone cycles in the C library: the application opens,    *)
(* fills, closes or aborts them (glue/cycle.c); eb_socket_check sends the  *)
(* closed ones (format/master.c), matches the answers that come back       *)
(* (glue/readwrite.c), gives up on those that do not come (glue/socket.c); *)
(* eb_device_close gives up on all of a device's (glue/device.c).  Every   *)
(* closed cycle is owed one call of its callback.                          *)
(*                                                                         *)
(* The library has one thread.  pc says where it is between two steps; a   *)
(* callback (running # None) hands the thread to the application, which    *)
(* may open, fill, close and abort cycles before it returns.  Calls that   *)
(* run the library again from inside a callback (eb_socket_run,            *)
(* eb_device_close, a blocking close) are not modelled.                    *)
(*                                                                         *)
(* The linked lists of cycles and of responses are sequences, first        *)
(* element first.  A response is named by its cycle: the two are allocated *)
(* and freed together.                                                     *)
(***************************************************************************)
EXTENDS Integers, Sequences, FiniteSets

CONSTANTS
  Cycle,        \* the cycles the application may open, each once
  Device,       \* the active devices of one socket, open from the start
  Packet,       \* those on a datagram transport (mtu # 0); the others stream
  OpKind,       \* the kinds of operation the application queues
  Timeout,      \* seconds a response waits for its answer (5)
  Elapse,       \* by how much the clock may move between two checks
  RbaCount,     \* number of response addresses before one is reused (2^14)
  UnreadyMod,   \* the counter eb_device.unready is kept modulo this (2^8)
  MaxCopies,    \* how often the network may deliver one datagram
  Reentrant,    \* may a callback made by a flush queue a cycle on that device?
  Conformant,   \* does the remote side answer as the protocol says?
  None

\* Reads bring data back; operations on the bus, not on the config space,
\* have an error flag.  "huge" stands for a run of writes longer than a
\* datagram, "bad" for an operation the flush refuses (width, endian, address).
AllKinds == {"busRead", "busWrite", "cfgRead", "cfgWrite", "huge", "bad"}
Reads == {"busRead", "cfgRead"}
BusOps == {"busRead", "busWrite", "huge"}

ASSUME CycleAssumption ==
  /\ Packet \subseteq Device
  /\ OpKind \subseteq AllKinds
  /\ Timeout \in Nat
  /\ Elapse \subseteq Nat
  /\ RbaCount \in Nat \ {0}
  /\ UnreadyMod \in Nat \ {0}
  /\ MaxCopies \in Nat \ {0}
  /\ Reentrant \in BOOLEAN
  /\ Conformant \in BOOLEAN
  /\ None \notin Cycle /\ None \notin Device

VARIABLES
  at,        \* where each cycle is: the list it is on, or its stage of life
  dev,       \* eb_cycle.un_link.device, the device it was opened for
  ops,       \* the kinds of the operations queued on it
  dead,      \* un_ops.dead: an operation could not be allocated
  checked,   \* EB_OP_CHECKED on the first operation
  calls,     \* how often its callback was called (history)
  status,    \* the status the callback was given (history)
  stamp,     \* how many cycles were closed before it (history)
  closed,    \* how many cycles were closed in all (history)
  blocked,   \* the cycle a blocking eb_cycle_close waits for
  ready,     \* eb_device.un_link.ready: last closed first
  unready,   \* eb_device.unready
  passive,   \* eb_device.un_link.passive: the device is being closed
  linked,    \* eb_device.link # EB_NULL
  attached,  \* the device is on the socket's list
  first,     \* eb_socket.first_response: oldest first
  last,      \* eb_socket.last_response: newest first
  resp,      \* address, time left and unanswered parts of each response
  rba,       \* eb_socket_aux.rba, as a count of addresses given out
  pc,        \* where the thread of the library is
  running,   \* the cycle whose callback is running
  todo,      \* devices eb_socket_check has yet to poll
  target,    \* the device it polls, flushes or closes
  batch,     \* cycles still to be flushed, or still to be killed
  walk, good, bad,  \* the lists of eb_socket_filter_inflight
  elapsed,   \* `now' of the running check less time_cache
  inbox,     \* config space writes of the packet being executed
  net        \* requests and answers on their way

appVars  == <<dev, ops, dead, checked>>
history  == <<calls, status, stamp, closed>>
devVars  == <<unready, passive, linked, attached>>
respVars == <<first, last, resp, rba>>
siftVars == <<walk, good, bad>>
pollVars == <<pc, todo, target, elapsed>>
vars == <<at, dev, ops, dead, checked, calls, status, stamp, closed, blocked, ready,
          unready, passive, linked, attached, first, last, resp, rba, pc, running,
          todo, target, batch, walk, good, bad, elapsed, inbox, net>>

Place == {"unused", "open", "ready", "batch", "first", "last", "walk", "good",
          "bad", "callback", "freed", "aborted"}
Status == {"OK", "SEGFAULT", "BADOP", "OVERFLOW", "OOM", "FAIL", "TIMEOUT"}
Part == {"data", "status"}
Response == [address : 0..RbaCount-1, left : Nat, need : SUBSET Part]
NoResponse == [address |-> 0, left |-> 0, need |-> {}]
Message == [dev : Device, answer : BOOLEAN, address : 0..RbaCount-1,
            need : SUBSET Part, copies : 1..MaxCopies, owner : Cycle]
Token == [address : 0..RbaCount-1, part : Part, owner : Cycle]

\* Mutants carry the name of the definition they change and stand before it.
\* The list is walked, but its links are not turned round.
Flipped_Not(s) == s

\* eb_response_flip, and the inversions of ready
Flipped(s) == [i \in 1..Len(s) |-> s[Len(s) + 1 - i]]

\* The response is completed, but stays linked.
Without_Not(s, i) == s

Without(s, i) == SubSeq(s, 1, i - 1) \o SubSeq(s, i + 1, Len(s))

\* Everything in the places P moves to the place q.
Moved(P, q) == [c \in Cycle |-> IF at[c] \in P THEN q ELSE at[c]]

Init ==
  /\ at = [c \in Cycle |-> "unused"]
  /\ dev \in [Cycle -> Device]
  /\ ops = [c \in Cycle |-> {}]
  /\ dead = [c \in Cycle |-> FALSE]
  /\ checked = [c \in Cycle |-> FALSE]
  /\ calls = [c \in Cycle |-> 0]
  /\ status = [c \in Cycle |-> "OK"]
  /\ stamp = [c \in Cycle |-> 0]
  /\ closed = 0
  /\ blocked = None
  /\ ready = [d \in Device |-> <<>>]
  /\ unready = [d \in Device |-> 0]
  /\ passive = [d \in Device |-> FALSE]
  /\ linked = [d \in Device |-> TRUE]
  /\ attached = [d \in Device |-> TRUE]
  /\ first = <<>> /\ last = <<>>
  /\ resp = [c \in Cycle |-> NoResponse]
  /\ rba = 0
  /\ pc = "app"
  /\ running = None
  /\ todo = {}
  /\ target = None
  /\ batch = <<>>
  /\ walk = <<>> /\ good = <<>> /\ bad = <<>>
  /\ elapsed = 0
  /\ inbox = <<>>
  /\ net = {}

-----------------------------------------------------------------------------
(* The application.                                                        *)

\* The application's code runs between two calls of the library, unless a
\* blocking close holds it, and inside its callbacks; the callback of a
\* blocking close is eb_block_f and belongs to the library.
AppRuns ==
  \/ pc = "app" /\ blocked = None
  \/ running # None /\ running # blocked

libIdle == <<ready, passive, linked, attached, first, last, resp, rba, pc, running,
             todo, target, batch, walk, good, bad, elapsed, inbox, net>>

\* eb_cycle_open; it fails, changing nothing, on a device being closed
Open(c) ==
  /\ AppRuns
  /\ at[c] = "unused"
  /\ attached[dev[c]] /\ ~passive[dev[c]]
  /\ at' = [at EXCEPT ![c] = "open"]
  /\ unready' = [unready EXCEPT ![dev[c]] = (@ + 1) % UnreadyMod]
  /\ UNCHANGED <<dev, ops, dead, checked, history, blocked, libIdle>>

\* eb_cycle_read, _write, _read_config, _write_config
QueueOp(c, k) ==
  /\ AppRuns
  /\ at[c] = "open" /\ ~dead[c]
  /\ ops' = [ops EXCEPT ![c] = @ \cup {k}]
  /\ UNCHANGED <<at, dev, dead, checked, history, blocked, unready, libIdle>>

\* ... when no operation can be allocated: what was queued is discarded
QueueOpFails(c) ==
  /\ AppRuns
  /\ at[c] = "open"
  /\ dead' = [dead EXCEPT ![c] = TRUE]
  /\ ops' = [ops EXCEPT ![c] = {}]
  /\ UNCHANGED <<at, dev, checked, history, blocked, unready, libIdle>>

\* eb_cycle_close (check), eb_cycle_close_silently (~check).  With block the
\* call does not return before the cycle's callback was called.
Close(c, check, block) ==
  /\ AppRuns
  /\ at[c] = "open"
  /\ block => running = None
  /\ Reentrant \/ pc # "flush" \/ dev[c] # target
  /\ at' = [at EXCEPT ![c] = "ready"]
  /\ ready' = [ready EXCEPT ![dev[c]] = <<c>> \o @]
  /\ unready' = [unready EXCEPT ![dev[c]] = (@ - 1) % UnreadyMod]
  /\ checked' = [checked EXCEPT ![c] = check /\ ops[c] # {} /\ ~dead[c]]
  /\ blocked' = IF block THEN c ELSE blocked
  /\ stamp' = [stamp EXCEPT ![c] = closed]
  /\ closed' = closed + 1
  /\ UNCHANGED <<dev, ops, dead, calls, status, passive, linked, attached, respVars,
                 pollVars, running, batch, siftVars, inbox, net>>

\* eb_cycle_abort
Abort(c) ==
  /\ AppRuns
  /\ at[c] = "open"
  /\ at' = [at EXCEPT ![c] = "aborted"]
  /\ unready' = [unready EXCEPT ![dev[c]] = (@ - 1) % UnreadyMod]
  /\ UNCHANGED <<dev, ops, dead, checked, history, blocked, libIdle>>

\* A callback returns; the library frees the cycle, its operations and its
\* response.
CallbackReturns ==
  /\ running # None
  /\ at' = [at EXCEPT ![running] = "freed"]
  /\ ops' = [ops EXCEPT ![running] = {}]
  /\ dead' = [dead EXCEPT ![running] = FALSE]
  /\ checked' = [checked EXCEPT ![running] = FALSE]
  /\ resp' = [resp EXCEPT ![running] = NoResponse]
  /\ running' = None
  /\ blocked' = IF blocked = running THEN None ELSE blocked
  /\ UNCHANGED <<dev, history, ready, devVars, first, last, rba, pollVars, batch,
                 siftVars, inbox, net>>

-----------------------------------------------------------------------------
(* Steps of the library.  It steps only while no callback runs.            *)

LibRuns(where) == running = None /\ pc = where

\* The library calls c's callback with status s.
Call(c, s) ==
  /\ running' = c
  /\ at' = [at EXCEPT ![c] = "callback"]
  /\ calls' = [calls EXCEPT ![c] = @ + 1]
  /\ status' = [status EXCEPT ![c] = s]

\* eb_socket_timeout: with no older response left, the younger ones get
\* their turn to expire.  eb_socket_run calls it after each eb_socket_check.
AskTimeout ==
  /\ LibRuns("app")
  /\ first = <<>>
  /\ first' = Flipped(last)
  /\ last' = <<>>
  /\ at' = Moved({"last"}, "first")
  /\ UNCHANGED <<appVars, history, blocked, ready, devVars, resp, rba, pollVars,
                 running, batch, siftVars, inbox, net>>

\* eb_socket_check is called, the clock having moved by e since the last time
Check(e) ==
  /\ LibRuns("app")
  /\ pc' = "expire"
  /\ elapsed' = e
  /\ UNCHANGED <<at, appVars, history, blocked, ready, devVars, respVars, running,
                 todo, target, batch, siftVars, inbox, net>>

\* The comparison the wrong way round
Expired_Inverted(c) == resp[c].left > elapsed

Expired(c) == resp[c].left <= elapsed

\* Step 1 of eb_socket_check: the oldest response has waited too long
Expire ==
  /\ LibRuns("expire")
  /\ first # <<>> /\ Expired(Head(first))
  /\ Call(Head(first), "TIMEOUT")
  /\ first' = Tail(first)
  /\ UNCHANGED <<appVars, stamp, closed, blocked, ready, devVars, last, resp, rba,
                 pollVars, batch, siftVars, inbox, net>>

\* ... or has not: time_cache is updated, which brings all deadlines closer
ExpireDone ==
  /\ LibRuns("expire")
  /\ first # <<>> => ~Expired(Head(first))
  /\ resp' = [c \in Cycle |-> [resp[c] EXCEPT !.left = IF @ > elapsed THEN @ - elapsed ELSE 0]]
  /\ elapsed' = 0
  /\ pc' = "transports"
  /\ UNCHANGED <<at, appVars, history, blocked, ready, devVars, first, last, rba,
                 running, todo, target, batch, siftVars, inbox, net>>

\* The config space writes that an answer consists of: data, then status
Tokens(m) ==
  LET token(p) == [address |-> m.address, part |-> p, owner |-> m.owner]
  IN (IF "data" \in m.need THEN <<token("data")>> ELSE <<>>)
       \o (IF "status" \in m.need THEN <<token("status")>> ELSE <<>>)

\* eb_device_slave reads an answer: datagrams in any order from the transport,
\* the data of a stream in order from the device's link
Receive(m) ==
  /\ running = None
  /\ m.answer
  /\ \/ pc = "transports" /\ m.dev \in Packet
     \/ pc = "device" /\ m.dev = target /\ target \notin Packet /\ linked[target]
        /\ \A n \in net : n.dev = target => stamp[m.owner] <= stamp[n.owner]
  /\ inbox = <<>>
  /\ inbox' = Tokens(m)
  /\ net' = (net \ {m}) \cup (IF m.copies > 1 THEN {[m EXCEPT !.copies = @ - 1]} ELSE {})
  /\ UNCHANGED <<at, appVars, history, blocked, ready, devVars, respVars, pollVars,
                 running, batch, siftVars>>

Matches(s, t) == {i \in DOMAIN s : resp[s[i]].address = t.address}

\* The younger responses are appended as they are, newest first.
Searched_NoFlip(t) == IF Matches(first, t) # {} THEN first ELSE first \o last

\* The queue in which eb_socket_write_config looks for a response: the older
\* ones, and only if none of them matches all of them.
Searched(t) == IF Matches(first, t) # {} THEN first ELSE first \o Flipped(last)

\* What eb_socket_write_config does to the lists before it has found a match
Search(t) ==
  /\ first' = Searched(t)
  /\ last' = IF Matches(first, t) # {} THEN last ELSE <<>>

\* eb_socket_write_config: no response has this address
WriteUnmatched ==
  /\ running = None
  /\ inbox # <<>>
  /\ Matches(Searched(Head(inbox)), Head(inbox)) = {}
  /\ Search(Head(inbox))
  /\ at' = Moved({"last"}, "first")
  /\ inbox' = Tail(inbox)
  /\ UNCHANGED <<appVars, history, blocked, ready, devVars, resp, rba, pollVars,
                 running, batch, siftVars, net>>

\* The position of the response that eb_socket_write_config finds
IsFound(i, t) ==
  /\ i \in Matches(Searched(t), t)
  /\ \A j \in Matches(Searched(t), t) : i <= j

\* eb_socket_write_config: a cursor of the response advances and answers are
\* still missing
WritePart ==
  /\ running = None
  /\ inbox # <<>>
  /\ LET t == Head(inbox) IN
     \E i \in 1..Len(Searched(t)) :
       LET c == Searched(t)[i] IN
       /\ IsFound(i, t)
       /\ t.part \in resp[c].need /\ resp[c].need # {t.part}
       /\ resp' = [resp EXCEPT ![c].need = @ \ {t.part}]
       /\ Search(t)
       /\ at' = IF Matches(first, t) # {} THEN at ELSE Moved({"last"}, "first")
  /\ inbox' = Tail(inbox)
  /\ UNCHANGED <<appVars, history, blocked, ready, devVars, rba, pollVars, running,
                 batch, siftVars, net>>

\* The parts of the answer that cycle c waits for: data if it reads, error
\* flags if it is checked and has operations on the bus
Need(c) ==
  (IF ops[c] \cap Reads # {} THEN {"data"} ELSE {})
    \cup (IF checked[c] /\ ops[c] \cap BusOps # {} THEN {"status"} ELSE {})

\* eb_socket_write_config: the response is complete, or the answer brings
\* something that was not asked for
WriteLast ==
  /\ running = None
  /\ inbox # <<>>
  /\ LET t == Head(inbox) IN
     \E i \in 1..Len(Searched(t)), s \in {"OK", "SEGFAULT", "FAIL"} :
       LET c == Searched(t)[i] IN
       /\ IsFound(i, t)
       /\ resp[c].need \subseteq {t.part} \/ t.part \notin resp[c].need
       /\ s = "FAIL" <=> t.part \notin resp[c].need
       /\ s = "SEGFAULT" => "status" \in Need(c)
       /\ running' = c
       /\ calls' = [calls EXCEPT ![c] = @ + 1]
       /\ status' = [status EXCEPT ![c] = s]
       /\ first' = Without(Searched(t), i)
       /\ last' = IF Matches(first, t) # {} THEN last ELSE <<>>
       /\ at' = [IF Matches(first, t) # {} THEN at ELSE Moved({"last"}, "first")
                   EXCEPT ![c] = "callback"]
  /\ inbox' = Tail(inbox)
  /\ UNCHANGED <<appVars, stamp, closed, blocked, ready, devVars, resp, rba, pollVars,
                 batch, siftVars, net>>

\* All transports are polled; eb_socket_check turns to the devices
TransportsDone ==
  /\ LibRuns("transports")
  /\ inbox = <<>>
  /\ pc' = "devices"
  /\ todo' = {d \in Device : attached[d]}
  /\ UNCHANGED <<at, appVars, history, blocked, ready, devVars, respVars, running,
                 target, elapsed, batch, siftVars, inbox, net>>

NextDevice(d) ==
  /\ LibRuns("devices")
  /\ d \in todo
  /\ pc' = "device"
  /\ target' = d
  /\ todo' = todo \ {d}
  /\ UNCHANGED <<at, appVars, history, blocked, ready, devVars, respVars, running,
                 elapsed, batch, siftVars, inbox, net>>

DevicesDone ==
  /\ LibRuns("devices")
  /\ todo = {}
  /\ pc' = "app"
  /\ target' = None
  /\ UNCHANGED <<at, appVars, history, blocked, ready, devVars, respVars, running,
                 todo, elapsed, batch, siftVars, inbox, net>>

\* eb_device_slave's kill: the stream broke, or carried what the protocol
\* does not allow.  The cycles of the device stay where they are.
LinkDies ==
  /\ LibRuns("device")
  /\ inbox = <<>>
  /\ target \notin Packet /\ linked[target]
  /\ linked' = [linked EXCEPT ![target] = FALSE]
  /\ net' = {m \in net : m.dev # target}
  /\ UNCHANGED <<at, appVars, history, blocked, ready, unready, passive, attached,
                 respVars, pollVars, running, batch, siftVars, inbox>>

\* eb_device_flush returns EB_FAIL at once: there is no link to send on
FlushRefused ==
  /\ LibRuns("device")
  /\ inbox = <<>>
  /\ ~linked[target]
  /\ pc' = "devices"
  /\ UNCHANGED <<at, appVars, history, blocked, ready, devVars, respVars, running,
                 todo, target, elapsed, batch, siftVars, inbox, net>>

\* eb_device_flush inverts the list of closed cycles and works on that.  The
\* field ready keeps its old value until the end; a cycle pushed meanwhile is
\* linked in front of cells that belong to the batch from here on.
FlushBegin ==
  /\ LibRuns("device")
  /\ inbox = <<>>
  /\ linked[target] /\ ~passive[target]
  /\ pc' = "flush"
  /\ batch' = Flipped(ready[target])
  /\ ready' = [ready EXCEPT ![target] = <<>>]
  /\ at' = [c \in Cycle |-> IF at[c] = "ready" /\ dev[c] = target THEN "batch" ELSE at[c]]
  /\ UNCHANGED <<appVars, history, blocked, devVars, respVars, running, todo, target,
                 elapsed, siftVars, inbox, net>>

\* A cycle that ends inside eb_device_flush, and the status it ends with
Outcome(c) ==
  IF dead[c] THEN {"OOM"}
  ELSE IF ops[c] = {} THEN {"OK"}
  ELSE IF "bad" \in ops[c] THEN {"BADOP"}
  ELSE {"OOM"} \cup
       (IF "huge" \in ops[c] /\ target \in Packet THEN {"OVERFLOW"}
        ELSE IF Need(c) = {} THEN {"OK"}
        ELSE {})

\* eb_device_flush calls the callback itself: out of memory, nothing to do,
\* a bad operation, no response to be had, too long for a datagram, or no
\* answer to wait for
FlushCalls ==
  /\ LibRuns("flush")
  /\ batch # <<>>
  /\ \E s \in Outcome(Head(batch)) : Call(Head(batch), s)
  /\ batch' = Tail(batch)
  /\ UNCHANGED <<appVars, stamp, closed, blocked, ready, devVars, respVars, pollVars,
                 siftVars, inbox, net>>

\* The claimed address is not advanced; it is, but without wrapping.
NextRba_Same == rba
NextRba_NoWrap == rba + 1

\* aux->rba = 0x8000 | (aux->rba + 2)
NextRba == (rba + 1) % RbaCount

\* eb_device_flush sends the cycle and queues a response for its answer
FlushSends ==
  /\ LibRuns("flush")
  /\ batch # <<>>
  /\ LET c == Head(batch) IN
     /\ ~dead[c] /\ "bad" \notin ops[c] /\ Need(c) # {}
     /\ ~("huge" \in ops[c] /\ target \in Packet)
     /\ last' = <<c>> \o last
     /\ resp' = [resp EXCEPT ![c] = [address |-> rba, left |-> Timeout, need |-> Need(c)]]
     /\ at' = [at EXCEPT ![c] = "last"]
     /\ net' = net \cup {[dev |-> target, answer |-> FALSE, address |-> rba,
                          need |-> Need(c), copies |-> 1, owner |-> c]}
  /\ rba' = NextRba
  /\ batch' = Tail(batch)
  /\ UNCHANGED <<appVars, history, blocked, ready, devVars, first, pollVars, running,
                 siftVars, inbox>>

\* eb_device_flush returns, clearing the queue
FlushEnd ==
  /\ LibRuns("flush")
  /\ batch = <<>>
  /\ ready' = [ready EXCEPT ![target] = <<>>]
  /\ pc' = "devices"
  /\ UNCHANGED <<at, appVars, history, blocked, devVars, respVars, running, todo,
                 target, elapsed, batch, siftVars, inbox, net>>

-----------------------------------------------------------------------------
(* Closing a device.                                                       *)

\* Cycles that are still open do not keep the device from being closed.
MayClose_Unchecked(d) == attached[d]

MayClose(d) == attached[d] /\ unready[d] = 0

\* eb_device_close, which does nothing (EB_BUSY) while cycles are open: the
\* device takes no more cycles, and eb_socket_kill_inflight starts to filter
\* the responses, newest first
DeviceClose(d) ==
  /\ AppRuns /\ running = None
  /\ MayClose(d)
  /\ passive' = [passive EXCEPT ![d] = TRUE]
  /\ batch' = Flipped(ready[d])
  /\ ready' = [ready EXCEPT ![d] = <<>>]
  /\ walk' = last \o Flipped(first)
  /\ first' = <<>> /\ last' = <<>>
  /\ at' = [c \in Cycle |-> CASE at[c] \in {"first", "last"}          -> "walk"
                              [] at[c] = "ready" /\ dev[c] = d -> "batch"
                              [] OTHER                         -> at[c]]
  /\ pc' = "sift"
  /\ target' = d
  /\ UNCHANGED <<appVars, history, blocked, unready, linked, attached, resp, rba, todo,
                 elapsed, running, good, bad, inbox, net>>

\* eb_socket_filter_inflight: one response goes to the good or the bad ones
Sift ==
  /\ LibRuns("sift")
  /\ walk # <<>>
  /\ walk' = Tail(walk)
  /\ LET c == Head(walk) IN
     IF dev[c] = target
     THEN bad' = <<c>> \o bad /\ good' = good /\ at' = [at EXCEPT ![c] = "bad"]
     ELSE good' = <<c>> \o good /\ bad' = bad /\ at' = [at EXCEPT ![c] = "good"]
  /\ UNCHANGED <<appVars, history, blocked, ready, devVars, respVars, pollVars, running,
                 batch, inbox, net>>

\* The good responses are kept; the bad ones are killed, then the closed
\* cycles that were not sent yet
SiftDone ==
  /\ LibRuns("sift")
  /\ walk = <<>>
  /\ first' = good
  /\ batch' = bad \o batch
  /\ good' = <<>> /\ bad' = <<>>
  /\ at' = [c \in Cycle |-> CASE at[c] = "good" -> "first"
                              [] at[c] = "bad"  -> "batch"
                              [] OTHER          -> at[c]]
  /\ pc' = "kill"
  /\ UNCHANGED <<appVars, history, blocked, ready, devVars, last, resp, rba, running,
                 todo, target, elapsed, walk, inbox, net>>

Kill ==
  /\ LibRuns("kill")
  /\ batch # <<>>
  /\ Call(Head(batch), "TIMEOUT")
  /\ batch' = Tail(batch)
  /\ UNCHANGED <<appVars, stamp, closed, blocked, ready, devVars, respVars, pollVars,
                 siftVars, inbox, net>>

\* The device is not found on the socket's list, and stays on it.
KillDone_NotFound ==
  /\ LibRuns("kill")
  /\ batch = <<>>
  /\ pc' = "app"
  /\ target' = None
  /\ UNCHANGED <<at, appVars, history, blocked, ready, devVars, respVars, running, todo,
                 elapsed, batch, siftVars, inbox, net>>

\* The device leaves the socket's list; its link is closed and it is freed
KillDone ==
  /\ LibRuns("kill")
  /\ batch = <<>>
  /\ attached' = [attached EXCEPT ![target] = FALSE]
  /\ linked' = [linked EXCEPT ![target] = FALSE]
  /\ net' = {m \in net : m.dev # target \/ target \in Packet}
  /\ pc' = "app"
  /\ target' = None
  /\ UNCHANGED <<at, appVars, history, blocked, ready, unready, passive, respVars,
                 running, todo, elapsed, batch, siftVars, inbox>>

-----------------------------------------------------------------------------
(* The remote side.  A message that is never delivered is a lost message.  *)

Answer(m, parts, n) ==
  /\ ~m.answer
  /\ Conformant => parts = m.need
  /\ m.dev \notin Packet => n = 1
  /\ net' = (net \ {m}) \cup {[m EXCEPT !.answer = TRUE, !.need = parts, !.copies = n]}
  /\ UNCHANGED <<at, appVars, history, blocked, ready, devVars, respVars, pollVars,
                 running, batch, siftVars, inbox>>

-----------------------------------------------------------------------------

Application ==
  \/ \E c \in Cycle : Open(c)
  \/ \E c \in Cycle, k \in OpKind : QueueOp(c, k)
  \/ \E c \in Cycle : QueueOpFails(c)
  \/ \E c \in Cycle, check, block \in BOOLEAN : Close(c, check, block)
  \/ \E c \in Cycle : Abort(c)
  \/ \E d \in Device : DeviceClose(d)

\* The steps the thread takes once it is inside the library
Library ==
  \/ Expire
  \/ ExpireDone
  \/ WriteUnmatched
  \/ WritePart
  \/ WriteLast
  \/ TransportsDone
  \/ \E d \in Device : NextDevice(d)
  \/ DevicesDone
  \/ FlushRefused
  \/ FlushBegin
  \/ FlushCalls
  \/ FlushSends
  \/ FlushEnd
  \/ Sift
  \/ SiftDone
  \/ Kill
  \/ KillDone

Environment ==
  \/ LinkDies
  \/ \E m \in net : Receive(m)
  \/ \E m \in net, parts \in SUBSET Part, n \in 1..MaxCopies : Answer(m, parts, n)

Next ==
  \/ Application
  \/ Library
  \/ Environment
  \/ CallbackReturns
  \/ AskTimeout
  \/ \E e \in Elapse : Check(e)

Spec == Init /\ [][Next]_vars

(***************************************************************************)
(* Fairness: the thread goes on when it is inside the library; callbacks   *)
(* return; the application keeps calling eb_socket_run, as etherbone.h     *)
(* asks it to, and eb_socket_run calls eb_socket_timeout; the clock of the *)
(* host advances.  Nothing is assumed of the network and the remote side.  *)
(***************************************************************************)
Fairness ==
  /\ WF_vars(Library)
  /\ WF_vars(CallbackReturns)
  /\ SF_vars(AskTimeout)
  /\ SF_vars(\E e \in Elapse : e > 0 /\ Check(e))

FairSpec == Spec /\ Fairness

-----------------------------------------------------------------------------
(* Properties.                                                             *)

\* Type invariant.  The clocks and counters stay in their ranges and every
\* list is a list of cycles.
TypeOK ==
  /\ at \in [Cycle -> Place]
  /\ dev \in [Cycle -> Device]
  /\ ops \in [Cycle -> SUBSET AllKinds]
  /\ dead \in [Cycle -> BOOLEAN] /\ checked \in [Cycle -> BOOLEAN]
  /\ calls \in [Cycle -> Nat] /\ status \in [Cycle -> Status]
  /\ stamp \in [Cycle -> Nat] /\ closed \in Nat
  /\ blocked \in Cycle \cup {None} /\ running \in Cycle \cup {None}
  /\ ready \in [Device -> Seq(Cycle)]
  /\ unready \in [Device -> 0..UnreadyMod-1]
  /\ passive \in [Device -> BOOLEAN]
  /\ linked \in [Device -> BOOLEAN] /\ attached \in [Device -> BOOLEAN]
  /\ first \in Seq(Cycle) /\ last \in Seq(Cycle) /\ batch \in Seq(Cycle)
  /\ walk \in Seq(Cycle) /\ good \in Seq(Cycle) /\ bad \in Seq(Cycle)
  /\ resp \in [Cycle -> Response]
  /\ rba \in 0..RbaCount-1
  /\ pc \in {"app", "expire", "transports", "devices", "device", "flush", "sift", "kill"}
  /\ todo \subseteq Device
  /\ target \in Device \cup {None}
  /\ pc \in {"device", "flush", "sift", "kill"} => target \in Device
  /\ elapsed \in Nat
  /\ inbox \in Seq(Token)
  /\ net \subseteq Message

\* The list s holds each cycle of S once, and nothing else.
Holds(s, S) ==
  /\ \A i, j \in DOMAIN s : s[i] = s[j] => i = j
  /\ {s[i] : i \in DOMAIN s} = S

In(p) == {c \in Cycle : at[c] = p}

\* No cycle is lost and none is queued twice: between any two steps every
\* closed cycle is on exactly the one list its stage of life puts it on, so
\* no order of flushing, answering, expiring and killing frees a cycle twice
\* (two callbacks) or drops it (none).  master.c:122, socket.c:240-253.
QueuesSound ==
  /\ \A d \in Device : Holds(ready[d], {c \in In("ready") : dev[c] = d})
  /\ Holds(batch, In("batch"))
  /\ Holds(first, In("first"))
  /\ Holds(last, In("last"))
  /\ Holds(walk, In("walk"))
  /\ Holds(good, In("good"))
  /\ Holds(bad, In("bad"))

\* The callback of a cycle is never called twice, and never for a cycle that
\* is open or was aborted; a cycle that was freed has had its call
\* (etherbone.h:499).
CalledOnce ==
  \A c \in Cycle : calls[c] = IF at[c] \in {"callback", "freed"} THEN 1 ELSE 0

\* Step 1 of eb_socket_check stops at the first response that has not
\* expired: that misses none, because the responses are in the order of
\* their deadlines whatever was answered, flipped or filtered between
\* (socket.c:386, 166, 240).
DeadlinesInOrder ==
  LET s == first \o Flipped(last)
  IN pc # "sift" => \A i, j \in DOMAIN s : i < j => resp[s[i]].left <= resp[s[j]].left

\* Cycles reach the wire in the order in which they were closed: a cycle is
\* sent when no cycle of the same device that was closed before it is still
\* waiting to be sent (etherbone.h: `at end of device's send queue').
SentInOrder ==
  [][\A c \in Cycle : at[c] = "batch" /\ at'[c] = "last" =>
       \A b \in Cycle : dev[b] = dev[c] /\ at[b] \in {"ready", "batch"}
                          => stamp[c] <= stamp[b]]_vars

\* An answer is credited to the cycle it answers, also when it is late,
\* duplicated or overtaken: whatever it completes or advances is its owner.
\* Needs that no address is reused while an old answer may still arrive.
AnswerReachesOwner ==
  [][\A c \in Cycle :
       inbox # <<>> /\ inbox' = Tail(inbox) /\ (resp'[c].need # resp[c].need \/ calls'[c] # calls[c])
         => c = Head(inbox).owner]_vars

\* A remote side that follows the protocol is never accused of violating it:
\* EB_FAIL is given to no cycle, however its answers are lost, repeated or
\* reordered (readwrite.c:70, 97).
ConformantNeverBlamed ==
  Conformant => \A c \in Cycle : status[c] # "FAIL"

\* What the application is promised (CyclePromise) is what it gets.
Stage(c) ==
  CASE at[c] \in {"unused", "open", "aborted"} -> at[c]
    [] at[c] = "callback"                      -> "called"
    [] at[c] = "freed"                         -> "over"
    [] OTHER                                   -> "closed"

DeviceStage(d) ==
  IF ~attached[d] THEN "gone" ELSE IF passive[d] THEN "closing" ELSE "open"

Promise == INSTANCE CyclePromise WITH
  stage <- [c \in Cycle |-> Stage(c)],
  device <- [d \in Device |-> DeviceStage(d)]

\* Every step of the library is a step of CyclePromise or invisible to it:
\* exactly one callback for each closed cycle and none for the others, the
\* device still there, no callback inside another one, and eb_device_close
\* refused, or complete, when etherbone.h says so.
KeepsPromise == Promise!Spec

\* Every closed cycle gets its callback, if the remote side answers or not,
\* as long as the device keeps its link (master.c:79 gives up without one).
EveryCloseAnswered ==
  \A c \in Cycle : at[c] = "ready" ~> calls[c] = 1 \/ ~linked[dev[c]]

\* eb_device_close, once it has begun, comes to its end.
DeviceCloseEnds ==
  \A d \in Device : passive[d] ~> ~attached[d]

\* A blocking close returns (etherbone.h:530, `Otherwise final status').
BlockingCloseReturns ==
  \A c \in Cycle : blocked = c ~> blocked = None

\* EB_BUSY protects cycles that are still open: no device is being closed
\* while a cycle on it is neither closed nor aborted (etherbone.h:480).
NoneOpenWhenClosing ==
  \A c \in Cycle : at[c] = "open" => ~passive[dev[c]]

=============================================================================
