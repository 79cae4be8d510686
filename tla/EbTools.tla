------------------------------ MODULE EbTools ------------------------------
(***************************************************************************)
(* The programs that move data: eb-put and eb-get transfer a file to or    *)
(* from a range of addresses, eb-write and eb-read one value.  Each asks   *)
(* the tables of the remote device (EbSdb) which accesses the device at    *)
(* the address takes, makes what it was asked for out of these, and waits  *)
(* for its cycles.                                                         *)
(*                                                                         *)
(* Cycles are answered in any order, each once, as EbCycles shows.  The    *)
(* memory behind the addresses is seen with the byte order the tool uses.  *)
(***************************************************************************)
EXTENDS EbSdb

CONSTANTS
  Commands,    \* arguments a tool is called with
  Port,        \* byte order and sizes of accesses, by the identity of a device
  Lines,       \* data widths of the connection
  Firmware(_), \* the bytes of the file of eb-put
  Memory(_),   \* the bytes behind the addresses, at first
  Given(_, _), \* the bytes of the value for eb-write: of how many, and which
  OpsPerCycle  \* OPERATIONS_PER_CYCLE: 32

Width == {1, 2, 4, 8}
Command ==
  [tool : {"put", "get", "read", "write"}, at : Nat, len : Nat,
   endian : {"none", "big", "little"}, probe : BOOLEAN,
   quietly : BOOLEAN, exact : BOOLEAN, batch : Nat \ {0}]

ASSUME ToolsAssumption ==
  /\ Commands \subseteq Command /\ Lines \subseteq Width
  /\ Port \in [Ids -> [endian : {"big", "little"}, sizes : SUBSET Width]]
  /\ OpsPerCycle \in Nat \ {0}

VARIABLES
  run,     \* where the program is
  cmd,     \* its arguments
  form,    \* width of the line, byte order, sizes that line and device take
  pos,     \* the next address to transfer
  todo,    \* cycles that have not called back
  wire,    \* cycles that the remote device has not performed
  written, \* the bytes it has been given, by address
  file,    \* the bytes eb-get has stored, by their place in its file
  shown    \* the value eb-read prints, or the one eb-write has read

transferVars == <<pos, file>>
toolVars == <<run, cmd, form, transferVars, todo, wire, written, shown>>
sdbVars == <<tree, scan, cycles, find>>
toolsVars == <<vars, toolVars>>

Empty == [a \in {} |-> 0]
NoCommand == [tool |-> "none", at |-> 0, len |-> 0, endian |-> "none",
              probe |-> FALSE, quietly |-> FALSE, exact |-> FALSE, batch |-> 1]
NoForm == [line |-> 0, endian |-> "none", sizes |-> {}]

ToolsInit ==
  /\ Init
  /\ run = "idle" /\ cmd = NoCommand /\ form = NoForm
  /\ pos = 0 /\ todo = 0 /\ wire = {} /\ written = Empty /\ file = Empty /\ shown = <<>>

----------------------------------------------------------------------------
(* The choice of accesses, alike in all four.                              *)

\* What the arguments may be: a single value is aligned.
Arguments(c) == c.tool \in {"read", "write"} => c.len \in Width /\ c.at % c.len = 0

\* The device at the address, as eb_sdb_find_by_address returned it
Probed == tree[find.output[1].bus][find.output[1].at]

Support(c) ==
  IF c.probe THEN Port[Probed.id] ELSE [endian |-> c.endian, sizes |-> Width]
Usable(c, w) == {s \in Width : s \in Support(c).sizes /\ s <= w}
Order(c) == IF c.endian # "none" THEN c.endian ELSE Support(c).endian

Transfers(c) == c.tool \in {"put", "get"}

Start(c) ==
  /\ run = "idle" /\ Arguments(c) /\ cmd' = c /\ pos' = c.at
  /\ \/ /\ c.probe
        /\ find.kind = "address" /\ find.phase = "returned" /\ find.key = c.at
     \/ ~c.probe /\ find.phase = "idle"
  /\ \/ c.probe /\ find.status # "OK" /\ run' = "failed" /\ UNCHANGED form
     \/ /\ c.probe => find.status = "OK"
        /\ \E w \in Lines :
             /\ form' = [line |-> w, endian |-> Order(c), sizes |-> Usable(c, w)]
             /\ run' = IF \/ Usable(c, w) = {}
                          \/ Transfers(c) /\ Order(c) = "none" THEN "failed"
                       ELSE IF Transfers(c) THEN "lead" ELSE "access"
  /\ UNCHANGED <<sdbVars, faults, todo, wire, written, file, shown>>

Fails == run' = "failed" /\ UNCHANGED <<pos, todo, wire>>

----------------------------------------------------------------------------
(* Words and cycles.                                                       *)

\* The bytes of a word by address and its digits from the most significant:
\* one is made of the other in the same way.
Word(bytes) == IF form.endian = "little" THEN Reverse(bytes) ELSE bytes

Now(a) == IF a \in DOMAIN written THEN written[a] ELSE Memory(a)
Bytes(a, s) == [j \in 1..s |-> Now(a + j - 1)]

\* An operation with data is a write.
Read(a, s) == [at |-> a, size |-> s, data |-> <<>>]
Write(a, s, d) == [at |-> a, size |-> s, data |-> d]
Touches(o, a) == o.data # <<>> /\ a \in o.at .. o.at + o.size - 1

\* Cycle c is performed but for the operations of bad, which raise an error.
Performed(c, bad) ==
  LET done == DOMAIN c \ bad
      hit(a) == {k \in done : Touches(c[k], a)}
      all == UNION {{a \in c[k].at .. c[k].at + c[k].size - 1 : Touches(c[k], a)} : k \in done}
  IN [a \in DOMAIN written \cup all |->
        IF hit(a) = {} THEN written[a]
        ELSE LET k == Max(hit(a)) IN Word(c[k].data)[a - c[k].at + 1]]

\* What a failed read leaves in its place
Garbage == <<"garbage">>
Value(c, bad, k) ==
  IF k \in bad THEN [j \in 1..c[k].size |-> Garbage]
  ELSE Word(Bytes(c[k].at, c[k].size))

\* A cycle is answered; some of its operations had an error.
Answer(c, bad) ==
  /\ c \in wire /\ wire' = wire \ {c}
  /\ bad \subseteq DOMAIN c
  /\ faults' = faults + Cardinality(bad) /\ faults' <= MaxFaults
  /\ written' = Performed(c, bad)

\* A silent cycle of writes calls back when it is sent, all others when answered.
Mute(c) == cmd.quietly /\ \A k \in DOMAIN c : c[k].data # <<>>

Awaited_All(cs) == Cardinality(cs)
Awaited(cs) == Cardinality({c \in cs : ~Mute(c)})

Sends(cs) == wire' = wire \cup cs /\ todo' = todo + Awaited(cs)

\* Nobody waits for a silent cycle, nor for any after the program's end.
Late(c, bad) ==
  /\ Mute(c) \/ run = "failed"
  /\ Answer(c, bad)
  /\ UNCHANGED <<sdbVars, run, cmd, form, transferVars, todo, shown>>

\* A cycle ends with a status that is not OK: its callback exits.
Lost(c) ==
  /\ run \in {"bulk", "last", "merge"} /\ c \in wire /\ ~Mute(c)
  /\ faults < MaxFaults /\ faults' = faults + 1
  /\ Fails
  /\ UNCHANGED <<sdbVars, cmd, form, written, file, shown>>

----------------------------------------------------------------------------
(* eb-put and eb-get.                                                      *)

Bulk == Max(form.sizes)
Edge == Min(form.sizes)
Down(a, s) == a - (a % s)
Up(a, s) == Down(a + s - 1, s)
End == cmd.at + cmd.len

\* transfer: n operations of size s from address a on
Transfer(a, s, n) ==
  [k \in 1..n |->
     LET at == a + (k - 1) * s IN
     IF cmd.tool = "get" THEN Read(at, s)
     ELSE Write(at, s, Word([j \in 1..s |-> Firmware(at - cmd.at + j - 1)]))]

\* The cycles for the addresses before to, of at most n operations each
Split(from, to, s, n) ==
  LET start(i) == from + i * (s * n) IN
  {Transfer(start(i), s, Min({n, (to - start(i)) \div s})) :
     i \in {k \in 0 .. to - from : start(k) < to}}

\* eb-put finds its file at an end.
ShortRead(to) == cmd.tool = "put" /\ to > End

\* Single operations up to the first address for large ones.  An address that
\* does not suit the smallest never gets there: eb-put runs out of file and
\* eb-get out of memory.
Lead ==
  LET to == Up(cmd.at, Bulk) IN
  /\ run = "lead"
  /\ \/ (cmd.at % Edge # 0 \/ ShortRead(to)) /\ Fails
     \/ /\ cmd.at % Edge = 0 /\ ~ShortRead(to)
        /\ Sends(Split(pos, to, Edge, 1)) /\ pos' = to /\ run' = "bulk"
  /\ UNCHANGED <<sdbVars, faults, cmd, form, written, file, shown>>

\* Large operations left, and cycles for them
Words == IF pos < Down(End, Bulk) THEN (Down(End, Bulk) - pos) \div Bulk ELSE 0
Packs == (Words + OpsPerCycle - 1) \div OpsPerCycle

\* A full batch, for which the tool waits.
Batch ==
  LET to == pos + Min({Words, cmd.batch * OpsPerCycle}) * Bulk IN
  /\ run = "bulk" /\ todo = 0 /\ Packs >= cmd.batch
  /\ Sends(Split(pos, to, Bulk, OpsPerCycle)) /\ pos' = to
  /\ UNCHANGED <<sdbVars, faults, run, cmd, form, written, file, shown>>

\* The last large operations and the single ones behind them, at once.
Trail ==
  LET mid == pos + Words * Bulk
      to == IF End > mid THEN mid + Up(End - mid, Edge) ELSE mid
  IN
  /\ run = "bulk" /\ todo = 0 /\ Packs < cmd.batch
  /\ \/ ShortRead(to) /\ Fails
     \/ /\ ~ShortRead(to)
        /\ Sends(Split(pos, mid, Bulk, OpsPerCycle) \cup Split(mid, to, Edge, 1))
        /\ pos' = to /\ run' = "last"
  /\ UNCHANGED <<sdbVars, faults, cmd, form, written, file, shown>>

\* Where eb-get stores what the k-th operation of a cycle has read
Place_Next(c, k) == Cardinality(DOMAIN file) + (k - 1) * c[k].size
Place(c, k) == c[k].at - cmd.at

\* The file after the operations of done, all in cycle c
Stored(c, bad, done) ==
  LET part(k) == Place(c, k) .. Place(c, k) + c[k].size - 1
      by(j)   == {k \in done : j \in part(k)}
  IN [j \in DOMAIN file \cup UNION {part(k) : k \in done} |->
        IF by(j) = {} THEN file[j]
        ELSE LET k == Max(by(j)) IN Word(Value(c, bad, k))[j - Place(c, k) + 1]]

\* dec_todo: an error that the cycle reports ends the program.
Transferred(c, bad) ==
  LET dies == bad # {} /\ ~cmd.quietly
      good == IF dies THEN 1 .. Min(bad) - 1 ELSE DOMAIN c
  IN
  /\ run \in {"bulk", "last"} /\ Transfers(cmd) /\ ~Mute(c)
  /\ Answer(c, bad) /\ todo' = todo - 1
  /\ run' = IF dies THEN "failed" ELSE run
  /\ file' = IF cmd.tool = "get" THEN Stored(c, bad, good) ELSE file
  /\ UNCHANGED <<sdbVars, cmd, form, pos, shown>>

\* while (todo > 0) ends.
Ends ==
  /\ run = "last" /\ todo = 0 /\ Transfers(cmd) /\ run' = "done"
  /\ UNCHANGED <<sdbVars, faults, cmd, form, transferVars, todo, wire, written, shown>>

----------------------------------------------------------------------------
(* eb-read and eb-write.  A value is written down by its digits, the most  *)
(* significant first, as a word is.                                        *)

\* The sizes that a value is broken into, all smaller than its own
Smaller == {s \in form.sizes : s < cmd.len}

Direct  == cmd.len \in form.sizes
Breaks  == ~Direct /\ Smaller # {}
Widens  == ~Direct /\ Smaller = {}
Size    == IF Direct THEN cmd.len ELSE IF Breaks THEN Max(Smaller) ELSE Min(form.sizes)
Aligned == Down(cmd.at, Size)

\* Whole words of the line need no byte order; without -f any access will do.
Refused ==
  \/ cmd.exact /\ ~Direct
  \/ form.endian = "none" /\ ~(Direct /\ cmd.len = form.line)

\* Where the value is in a larger word: its distance from the last digit
Shift_Little == cmd.at - Aligned
Shift ==
  IF form.endian = "little" THEN cmd.at - Aligned
  ELSE Size - cmd.len - (cmd.at - Aligned)

Digits == [k \in 1..cmd.len |-> Given(cmd.len, k)]
Part(n, s) == SubSeq(Digits, n * s + 1, (n + 1) * s)

\* The one cycle of eb-read, and the last of eb-write unless it widens: pieces
\* are read from the most significant one on, and written by address.
Pieces ==
  LET n == cmd.len \div Size
      last == form.endian = "little"
  IN
  IF Widens THEN <<Read(Aligned, Size)>>
  ELSE [k \in 1..n |->
          IF cmd.tool = "read"
          THEN Read(cmd.at + (IF last THEN n - k ELSE k - 1) * Size, Size)
          ELSE Write(cmd.at + (k - 1) * Size, Size,
                     Part(IF last THEN n - k ELSE k - 1, Size))]

Access ==
  /\ run = "access"
  /\ \/ Refused /\ Fails
     \/ /\ ~Refused /\ Sends({Pieces})
        /\ run' = IF Widens /\ cmd.tool = "write" THEN "merge" ELSE "last"
        /\ UNCHANGED pos
  /\ UNCHANGED <<sdbVars, faults, cmd, form, written, file, shown>>

\* set_stop: an error is a warning, and what was read is used.
Stops(c, bad) ==
  /\ run \in {"last", "merge"} /\ ~Transfers(cmd) /\ ~Mute(c)
  /\ Answer(c, bad) /\ todo' = todo - 1
  /\ shown' = IF c[1].data = <<>>
              THEN FlattenSeq([k \in DOMAIN c |-> Value(c, bad, k)]) ELSE shown
  /\ UNCHANGED <<sdbVars, run, cmd, form, transferVars>>

\* The digits before the value in the word around it
Skip == Size - Shift - cmd.len

\* eb-write puts the value into the word around it.
Merge ==
  LET word == [n \in 1..Size |->
                 IF n \in Skip + 1 .. Skip + cmd.len THEN Digits[n - Skip] ELSE shown[n]]
  IN
  /\ run = "merge" /\ todo = 0 /\ run' = "last"
  /\ Sends({<<Write(Aligned, Size, word)>>})
  /\ UNCHANGED <<sdbVars, faults, cmd, form, transferVars, written, file, shown>>

\* while (!stop) ends; eb-read prints its value.
Prints ==
  /\ run = "last" /\ todo = 0 /\ ~Transfers(cmd) /\ run' = "done"
  /\ shown' = IF cmd.tool = "read" /\ Widens
              THEN SubSeq(shown, Skip + 1, Skip + cmd.len) ELSE shown
  /\ UNCHANGED <<sdbVars, faults, cmd, form, transferVars, todo, wire, written>>

----------------------------------------------------------------------------
Waited(c) == \E bad \in SUBSET DOMAIN c : Transferred(c, bad) \/ Stops(c, bad)

\* What happens as soon as it can: the program's own steps, and its answers.
Advances ==
  \/ Lead \/ Batch \/ Trail \/ Ends \/ Access \/ Merge \/ Prints
  \/ \E c \in wire : Waited(c)

ToolsNext ==
  \/ run = "idle" /\ Next /\ UNCHANGED toolVars
  \/ \E c \in Commands : Start(c)
  \/ Advances
  \/ \E c \in wire : Lost(c) \/ \E bad \in SUBSET DOMAIN c : Late(c, bad)

ToolsSpec == ToolsInit /\ [][ToolsNext]_toolsVars

\* The tools wait in eb_socket_run, where every cycle is answered
\* (EveryCloseAnswered of EbCycles) and the searches go on.
ToolsFairSpec == ToolsSpec /\ WF_vars(Progress) /\ WF_toolsVars(Advances)

----------------------------------------------------------------------------
\* Properties

\* A transfer touches nothing outside of its range, whatever fails: eb-put
\* writes where its file goes, and eb-get nowhere.  (main and transfer)
OnlyItsRange ==
  /\ cmd.tool = "put" => DOMAIN written \subseteq cmd.at .. End - 1
  /\ cmd.tool = "get" => written = Empty

\* eb-get wants a range of whole accesses that reaches a large one: of any other
\* it reads past the end.
Granted ==
  /\ cmd.at % Edge = 0 /\ cmd.len % Edge = 0
  /\ Up(cmd.at, Bulk) <= End

\* When a transfer ends well, the range holds the file, or the file the range,
\* byte for byte, and nothing else was touched on the way: always if errors are
\* reported, without any error if they are not.
\* (main, transfer and dec_todo of eb-put.c and eb-get.c)
TransfersExactly ==
  /\ OnlyItsRange
  /\ run = "done" /\ (cmd.quietly => wire = {} /\ faults = 0) =>
       /\ cmd.tool = "put" =>
            written = [a \in cmd.at .. End - 1 |-> Firmware(a - cmd.at)]
       /\ cmd.tool = "get" /\ Granted =>
            file = [j \in 0 .. cmd.len - 1 |-> Memory(cmd.at + j)]

\* Without the last condition that is not so: of a range that ends before the
\* first address for large accesses, eb-get reads up to that address.
NothingPastTheEnd ==
  run = "done" /\ cmd.tool = "get" /\ cmd.at % Edge = 0 /\ cmd.len % Edge = 0 =>
    DOMAIN file \subseteq 0 .. cmd.len - 1

\* eb-read prints the value at its address and eb-write leaves its value there
\* and changes nothing else, with whatever accesses the device and the line
\* take.  (main and set_stop of eb-read.c and eb-write.c)
AccessesExactly ==
  run = "done" /\ faults = 0 /\ (cmd.quietly => wire = {}) =>
    LET range == cmd.at .. cmd.at + cmd.len - 1 IN
    /\ cmd.tool = "read" =>
         /\ written = Empty
         /\ shown = Word([j \in 1..cmd.len |-> Memory(cmd.at + j - 1)])
    /\ cmd.tool = "write" =>
         \A a \in DOMAIN written \cup range :
           Now(a) = IF a \in range THEN Word(Digits)[a - cmd.at + 1] ELSE Memory(a)

\* A tool that has begun ends, whatever its cycles end with.
\* (while (todo > 0), while (!stop))
ToolEnds == run \notin {"idle", "done", "failed"} ~> run \in {"done", "failed"}
=============================================================================
