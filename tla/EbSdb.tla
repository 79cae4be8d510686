------------------------------- MODULE EbSdb -------------------------------
(***************************************************************************)
(* Discovery of a remote bus through its self-describing tables: the scan  *)
(* of one bus (glue/sdb.c, eb_sdb_scan_root and eb_sdb_scan_bus with their *)
(* three callbacks) and the three clients that walk the whole tree with    *)
(* it: eb_sdb_find_by_identity, eb_sdb_find_by_address and the listing of  *)
(* tools/eb-ls.c.                                                          *)
(*                                                                         *)
(* A scan reads a pointer, a header and then every record of the table in  *)
(* a cycle of its own.  Cycles are answered in any order, each once, as    *)
(* EbCycles shows; an answer may be a failure.  All bridges of a bus are   *)
(* scanned at the same time by the search for an identity, one at a time   *)
(* by the others.                                                          *)
(***************************************************************************)
EXTENDS Integers, FiniteSets, Sequences, SequencesExt

CONSTANTS Bus, Root,
          Trees,      \* the tables a remote device may have: Bus -> table
          NoTable,    \* what a bus holds whose header has no magic number
          Ids,        \* product identities a client looks for
          Places,     \* addresses a client asks about
          Room,       \* records the output array of a client holds
          MaxDevices, \* records the largest decode buffer holds
          Top,        \* the largest address
          MaxFaults   \* calls and cycles that fail

Type == {"device", "bridge", "msi", "empty"}
Record == [type : Type, id : Ids, first : 0..Top, last : 0..Top,
           child : Bus, active : BOOLEAN]

\* The bridges to bus c: the buses they are on and their places in the tables.
BridgesTo(t, c) ==
  {l \in Bus \X (1..Top) : /\ t[l[1]] # NoTable /\ l[2] \in DOMAIN t[l[1]]
                          /\ t[l[1]][l[2]].type = "bridge" /\ t[l[1]][l[2]].child = c}

\* Every bus but the root hangs on one bridge, and the root on none: the buses
\* form a tree.
ASSUME SdbAssumption ==
  /\ Root \in Bus /\ IsFiniteSet(Bus) /\ {MaxFaults, Room, Top} \subseteq Nat
  /\ \A t \in Trees : \A b \in Bus : t[b] # NoTable =>
       /\ t[b] \in Seq(Record) /\ Len(t[b]) <= Top
       /\ \A i \in DOMAIN t[b] : t[b][i].type = "bridge" => t[b][i].child # Root
  /\ \A t \in Trees : \A c \in Bus \ {Root} : Cardinality(BridgesTo(t, c)) = 1

VARIABLES tree,   \* the tables of the device, fixed
          scan,   \* struct eb_sdb_scan with its meta and record, by bus
          cycles, \* cycles on the wire: <<bus, 0>> or <<bus, record>>
          find,   \* the client: its struct on the stack
          faults
vars == <<tree, scan, cycles, find, faults>>

Unset == <<0, 0>>
NoWindow == <<Top, 0>>
Idle == [stage |-> "idle", base |-> 0, window |-> Unset, pending |-> 0,
         status |-> "OK", damaged |-> FALSE]

Init ==
  /\ tree \in Trees
  /\ scan = [b \in Bus |-> Idle]
  /\ cycles = {}
  /\ find = [kind |-> "none", key |-> 0, start |-> Root, phase |-> "idle",
             pending |-> 0, status |-> "OK", count |-> 0, output |-> <<>>,
             stack |-> <<>>]
  /\ faults = 0

\* The records of bus b as the callback sees them: addresses rebased.
Rebased(b, base) ==
  [i \in DOMAIN tree[b] |->
     LET r == tree[b][i] IN
     IF r.type = "msi" THEN r
     ELSE [r EXCEPT !.first = @ + base, !.last = @ + base]]

Listeners(b) == {i \in DOMAIN tree[b] : tree[b][i].type = "msi" /\ tree[b][i].active}

\* The window of addresses through which bus b sends its interrupts, given the
\* window of the bus above it.
Window_FirstOnly(b, above) ==
  IF Listeners(b) = {} THEN NoWindow
  ELSE LET r == tree[b][CHOOSE i \in Listeners(b) : TRUE] IN
       IF above[1] > above[2] THEN above
       ELSE <<above[1] + r.first, IF above[2] = 0 THEN r.last ELSE above[2]>>

Window(b, above) ==
  IF Listeners(b) = {} THEN NoWindow
  ELSE LET r == tree[b][CHOOSE i \in Listeners(b) : TRUE] IN
       IF above[1] > above[2] THEN above
       ELSE <<above[1] + r.first,
              IF above[2] = 0 THEN r.last ELSE above[2] + r.first>>

\* What eb_sdb_decode hands to the callback as status.
Decoded(b) ==
  IF Len(tree[b]) >= MaxDevices THEN "OOM"
  ELSE IF scan[b].damaged \/ Cardinality(Listeners(b)) > 1 THEN "FAIL"
  ELSE "OK"

----------------------------------------------------------------------------
\* Starting scans

Reading(stage, base, window) ==
  [Idle EXCEPT !.stage = stage, !.base = base, !.window = window, !.pending = 1]

\* eb_sdb_scan_bus_msi on every bridge of S, all below a bus with this window.
Begun(sc, S, window) ==
  [c \in Bus |->
     IF \E r \in S : r.child = c
     THEN Reading("header", (CHOOSE r \in S : r.child = c).first, window)
     ELSE sc[c]]

Heads(S) == {<<r.child, 0>> : r \in S}

Asked(kind, key, b) ==
  [find EXCEPT !.kind = kind, !.key = key, !.start = b, !.phase = "running",
               !.pending = 1]

\* A blocking search of the whole tree, or eb-ls.
Find(kind, key) ==
  /\ find.phase = "idle"
  /\ \/ /\ scan' = [scan EXCEPT ![Root] = Reading("pointer", 0, Unset)]
        /\ cycles' = {<<Root, 0>>}
        /\ find' = Asked(kind, key, Root)
        /\ UNCHANGED faults
     \/ /\ faults < MaxFaults
        /\ find' = [Asked(kind, key, Root) EXCEPT !.phase = "returned",
                                                  !.status = "OOM"]
        /\ faults' = faults + 1
        /\ UNCHANGED <<scan, cycles>>
  /\ UNCHANGED tree

\* eb_sdb_find_by_identity_at: the search below a bridge of the root bus that
\* an earlier search returned.  A record that is no bridge is refused.
FindAt(key, i) ==
  LET r == Rebased(Root, 0)[i] IN
  /\ find.phase = "idle" /\ tree[Root] # NoTable
  /\ IF r.type = "bridge"
     THEN /\ scan' = Begun(scan, {r}, Unset)
          /\ cycles' = Heads({r})
          /\ find' = Asked("identity", key, r.child)
     ELSE /\ find' = [Asked("identity", key, Root) EXCEPT
                        !.phase = "returned", !.status = "ADDRESS"]
          /\ UNCHANGED <<scan, cycles>>
  /\ UNCHANGED <<tree, faults>>

----------------------------------------------------------------------------
\* The callbacks of the clients.  In each, bus b's scan is over; cy are the
\* cycles still on the wire.

Over(b) == [scan EXCEPT ![b] = Idle]

Told(b, change, cy) ==
  /\ find' = change
  /\ scan' = Over(b)
  /\ cycles' = cy

Goes(kind, s) == find.kind = kind /\ s = "OK"

Bridges(b) == {r \in Range(Rebased(b, scan[b].base)) : r.type = "bridge"}

Entry(b, i, window) ==
  LET r == Rebased(b, scan[b].base)[i] IN
  [bus |-> b, at |-> i, first |-> r.first, window |-> window]

Matching(b) ==
  SelectSeq([i \in DOMAIN tree[b] |-> i],
            LAMBDA i : tree[b][i].type # "empty" /\ tree[b][i].id = find.key)

\* Does a callback that started n scans wait for them?
Waits_ForOne(n) == IF n = 0 THEN 0 ELSE 1
Waits(n) == n

\* eb_cb_find_by_identity: scans all bridges at once, those of F fail to start.
Identify(b, s, cy) ==
  LET window == Window(b, scan[b].window)
      hits   == [k \in DOMAIN Matching(b) |-> Entry(b, Matching(b)[k], window)]
  IN
  /\ Goes("identity", s)
  /\ \E F \in SUBSET Bridges(b) :
       /\ faults + Cardinality(F) <= MaxFaults
       /\ faults' = faults + Cardinality(F)
       /\ scan' = Begun(Over(b), Bridges(b) \ F, window)
       /\ cycles' = cy \cup Heads(Bridges(b) \ F)
       /\ find' = [find EXCEPT
            !.pending = @ - 1 + Waits(Cardinality(Bridges(b) \ F)),
            !.status  = IF F = {} THEN @ ELSE "OOM",
            !.count   = @ + Len(hits),
            !.output  = SubSeq(@ \o hits, 1,
                               IF Len(@) + Len(hits) < Room
                               THEN Len(@) + Len(hits) ELSE Room)]

Covers(r, a) == r.first <= a /\ a <= r.last

Covering(b, a) ==
  {i \in DOMAIN tree[b] : /\ tree[b][i].type \in {"device", "bridge"}
                          /\ Covers(Rebased(b, scan[b].base)[i], a)}

\* eb_cb_find_by_address: the first record that covers the address decides.
Locate(b, s, cy) ==
  LET window == Window(b, scan[b].window)
      some   == Covering(b, find.key)
      i      == CHOOSE j \in some : \A k \in some : j <= k
      r      == Rebased(b, scan[b].base)[i]
  IN
  /\ Goes("address", s)
  /\ \/ /\ some = {}
        /\ Told(b, [find EXCEPT !.pending = 0, !.status = "ADDRESS"], cy)
        /\ UNCHANGED faults
     \/ /\ some # {} /\ r.type = "device"
        /\ Told(b, [find EXCEPT !.pending = 0, !.status = "OK",
                                !.output = <<Entry(b, i, window)>>], cy)
        /\ UNCHANGED faults
     \/ /\ some # {} /\ r.type = "bridge"
        /\ scan' = Begun(Over(b), {r}, window)
        /\ cycles' = cy \cup Heads({r})
        /\ UNCHANGED <<find, faults>>
     \/ /\ some # {} /\ r.type = "bridge" /\ faults < MaxFaults
        /\ Told(b, [find EXCEPT !.pending = 0, !.status = "OOM"], cy)
        /\ faults' = faults + 1

\* list_devices: one frame of the recursion; the frame below stops waiting.
List(b, s, cy) ==
  LET window == Window(b, scan[b].window)
      below  == find.stack
      frame  == [bus |-> b, base |-> scan[b].base, window |-> window,
                 range |-> IF below = <<>> THEN <<0, Top>> ELSE Last(below).asked,
                 at |-> 1, stop |-> TRUE, asked |-> Unset]
  IN
  /\ Goes("list", s)
  /\ Told(b, [find EXCEPT !.stack =
       [k \in DOMAIN below |-> IF k = Len(below)
                               THEN [below[k] EXCEPT !.stop = TRUE]
                               ELSE below[k]] \o <<frame>>], cy)
  /\ UNCHANGED faults

\* A scan that failed: the searches remember the status, the listing exits.
Failed(b, s, cy) ==
  /\ s # "OK"
  /\ Told(b, IF find.kind = "list" THEN [find EXCEPT !.phase = "exited", !.status = s]
             ELSE IF find.kind = "identity"
             THEN [find EXCEPT !.pending = @ - 1, !.status = s]
             ELSE [find EXCEPT !.pending = 0, !.status = s], cy)

Deliver(b, s, cy) ==
  Identify(b, s, cy) \/ Locate(b, s, cy) \/ List(b, s, cy)
  \/ (Failed(b, s, cy) /\ UNCHANGED faults)

Ruin(b, s, cy) == Failed(b, s, cy) /\ faults < MaxFaults /\ faults' = faults + 1

----------------------------------------------------------------------------
\* The library's callbacks.  They run inside eb_socket_run, which a client
\* calls while it waits.

Runs ==
  /\ find.phase = "running"
  /\ find.kind = "list" /\ find.stack # <<>> => ~Last(find.stack).stop

Answered(b, p, stage) ==
  /\ Runs
  /\ <<b, p>> \in cycles
  /\ scan[b].stage = stage
  /\ UNCHANGED tree

Reasons == {"TIMEOUT", "OVERFLOW", "FAIL"}

\* eb_sdb_got_header_ptr: the configuration space names the address of the table.
\* An operation may have failed, or the next cycle may not open.
GotPointer(b) ==
  /\ Answered(b, 0, "pointer")
  /\ \/ /\ scan' = [scan EXCEPT ![b].stage = "header"]
        /\ UNCHANGED <<cycles, find, faults>>
     \/ \E s \in Reasons \cup {"OOM"} : Ruin(b, s, cycles \ {<<b, 0>>})

\* Of the table's cycles, those of F did not open; each counts as answered.
StillPending_Opened(n, F) == n - Cardinality(F) + IF F = {} THEN 0 ELSE 1
StillPending(n, F) == n - Cardinality(F)

\* eb_sdb_got_header: checks the magic and reads every record of the table.
GotHeader(b) ==
  LET parts == 0..Len(tree[b])
      rest  == cycles \ {<<b, 0>>}
  IN
  /\ Answered(b, 0, "header")
  /\ \/ \E s \in Reasons \cup {"OOM"} : Ruin(b, s, rest)
     \/ tree[b] = NoTable /\ Failed(b, "FAIL", rest) /\ UNCHANGED faults
     \/ /\ tree[b] # NoTable
        /\ \E F \in SUBSET parts :
             /\ faults + Cardinality(F) <= MaxFaults
             /\ faults' = faults + Cardinality(F)
             /\ IF F = parts THEN Failed(b, "OOM", rest)
                ELSE /\ scan' = [scan EXCEPT
                          ![b].stage   = "table",
                          ![b].pending = StillPending(Len(tree[b]) + 1, F),
                          ![b].status  = IF F = {} THEN "OK" ELSE "OOM"]
                     /\ cycles' = rest \cup {<<b, p>> : p \in parts \ F}
                     /\ UNCHANGED find

\* eb_sdb_got_record: one record arrived, whole, damaged or not at all; the last
\* one decodes the table and calls the client.
GotRecord(b, p) ==
  LET rest == cycles \ {<<b, p>>} IN
  /\ Answered(b, p, "table")
  /\ IF scan[b].pending > 1
     THEN \/ /\ scan' = [scan EXCEPT ![b].pending = @ - 1]
             /\ cycles' = rest
             /\ UNCHANGED <<find, faults>>
          \/ /\ faults < MaxFaults /\ faults' = faults + 1
             /\ \E s \in Reasons \cup {"OOM"} :
                  scan' = [scan EXCEPT ![b].pending = @ - 1, ![b].status = s]
             /\ cycles' = rest
             /\ UNCHANGED find
          \/ /\ faults < MaxFaults /\ faults' = faults + 1
             /\ scan' = [scan EXCEPT ![b].pending = @ - 1, ![b].damaged = TRUE]
             /\ cycles' = rest
             /\ UNCHANGED find
     ELSE \/ Deliver(b, IF scan[b].status # "OK" THEN scan[b].status
                        ELSE Decoded(b), rest)
          \/ \E s \in Reasons \cup {"OOM"} : Ruin(b, s, rest)

----------------------------------------------------------------------------
\* The clients

\* while (record.pending > 0) or while (record.status > 0) ends.
Return ==
  /\ find.kind \in {"identity", "address"} /\ find.phase = "running"
  /\ find.pending <= 0
  /\ find' = [find EXCEPT !.phase = "returned"]
  /\ UNCHANGED <<tree, scan, cycles, faults>>

\* eb-ls descends only where the linkage is sane: the bridge inside its bus.
Inside(r, range) == range[1] <= r.first /\ r.last <= range[2] /\ r.first <= r.last

More(f) == f.at <= Len(tree[f.bus])

\* One turn of the loop of list_devices: print a record, descend into a bridge.
\* A scan that does not start is not noticed.
PrintRecord ==
  LET f == Last(find.stack)
      r == Rebased(f.bus, f.base)[f.at]
      printed == [find EXCEPT
        !.output = Append(@, [bus |-> f.bus, at |-> f.at, first |-> r.first,
                              window |-> f.window]),
        !.stack[Len(find.stack)].at = @ + 1]
      down == r.type = "bridge" /\ Inside(r, f.range)
      waits == [printed EXCEPT !.stack[Len(find.stack)].stop = FALSE,
                               !.stack[Len(find.stack)].asked = <<r.first, r.last>>]
  IN
  /\ find.kind = "list" /\ find.phase = "running"
  /\ find.stack # <<>> /\ f.stop /\ More(f)
  /\ \/ /\ ~down /\ find' = printed /\ UNCHANGED <<scan, cycles, faults>>
     \/ /\ down
        /\ find' = waits
        /\ scan' = Begun(scan, {r}, f.window)
        /\ cycles' = cycles \cup Heads({r})
        /\ UNCHANGED faults
     \/ /\ down /\ faults < MaxFaults
        /\ find' = waits
        /\ faults' = faults + 1
        /\ UNCHANGED <<scan, cycles>>
  /\ UNCHANGED tree

\* list_devices returns into the frame below it, or into main.
ListReturns ==
  /\ find.kind = "list" /\ find.phase = "running"
  /\ find.stack # <<>> /\ Last(find.stack).stop /\ ~More(Last(find.stack))
  /\ find' = [find EXCEPT !.stack = Front(@),
                          !.phase = IF Len(find.stack) = 1 THEN "returned" ELSE @]
  /\ UNCHANGED <<tree, scan, cycles, faults>>

Progress ==
  \/ \E b \in Bus : GotPointer(b) \/ GotHeader(b)
  \/ \E b \in Bus : \E p \in 0..Top : GotRecord(b, p)
  \/ Return
  \/ PrintRecord
  \/ ListReturns

Next ==
  \/ \E k \in Ids : Find("identity", k)
  \/ \E a \in Places : Find("address", a)
  \/ Find("list", 0)
  \/ \E k \in Ids : \E i \in DOMAIN tree[Root] : FindAt(k, i)
  \/ Progress

Spec == Init /\ [][Next]_vars

\* The client blocks in eb_socket_run until it has its answer, and every cycle it
\* waits for is answered (EveryCloseAnswered of EbCycles).
FairSpec == Spec /\ WF_vars(Progress)

----------------------------------------------------------------------------
\* Properties

TypeOK ==
  /\ tree \in Trees
  /\ \A b \in Bus :
       /\ scan[b].stage \in {"idle", "pointer", "header", "table"}
       /\ scan[b].pending \in 0..MaxDevices + 1
  /\ cycles \subseteq Bus \X (0..Top)
  /\ find.phase \in {"idle", "running", "returned", "exited"}
  /\ find.pending \in Nat /\ find.count \in Nat
  /\ faults \in 0..MaxFaults

\* The reference: what the tables say, without any scan.
Readable(b) ==
  /\ tree[b] # NoTable /\ Len(tree[b]) < MaxDevices
  /\ Cardinality(Listeners(b)) <= 1

Link(c) == CHOOSE l \in BridgesTo(tree, c) : TRUE

\* The buses from the client's start down to b.
Path[b \in Bus] ==
  IF b = find.start THEN <<b>>
  ELSE IF b = Root THEN <<>>
  ELSE LET up == Path[Link(b)[1]] IN IF up = <<>> THEN <<>> ELSE Append(up, b)

Base[b \in Bus] ==
  IF b = Root THEN 0 ELSE Base[Link(b)[1]] + tree[Link(b)[1]][Link(b)[2]].first

\* A bus reached through readable buses only.
Reached(b) == Path[b] # <<>> /\ \A k \in DOMAIN Path[b] : Readable(Path[b][k])

\* A bus the search gets to and cannot read.
Blind(b) == /\ Path[b] # <<>> /\ ~Readable(b)
            /\ \A k \in 1..Len(Path[b]) - 1 : Readable(Path[b][k])

\* The interrupt window of a bus: as large as the one of the bus the search began
\* with, moved by the sum of all openings above it.
Openings(b) == [k \in DOMAIN Path[b] |->
                  tree[Path[b][k]][CHOOSE i \in Listeners(Path[b][k]) : TRUE]]
WindowOf(b) ==
  IF \E k \in DOMAIN Path[b] : Listeners(Path[b][k]) = {} THEN NoWindow
  ELSE LET o == Openings(b)
           moved == FoldFunction(LAMBDA r, n : r.first + n, 0, o)
       IN <<moved, moved + (o[1].last - o[1].first)>>

Truth(b, i) == [bus |-> b, at |-> i, first |->
                  (IF tree[b][i].type = "msi" THEN 0 ELSE Base[b]) + tree[b][i].first,
                window |-> WindowOf(b)]

Wanted == {e \in Bus \X (1..Top) :
             /\ Reached(e[1]) /\ e[2] \in DOMAIN tree[e[1]]
             /\ tree[e[1]][e[2]].type # "empty" /\ tree[e[1]][e[2]].id = find.key}

\* The record an address resolves to, going down from b; {} if there is none.
Unreadable == [bus |-> Root, at |-> 0, first |-> 0, window |-> Unset]
Resolved[b \in Bus] ==
  LET some == {i \in DOMAIN tree[b] : /\ tree[b][i].type \in {"device", "bridge"}
                                      /\ Base[b] + tree[b][i].first <= find.key
                                      /\ find.key <= Base[b] + tree[b][i].last}
      i == CHOOSE j \in some : \A k \in some : j <= k
  IN IF ~Readable(b) THEN {Unreadable}
     ELSE IF some = {} THEN {}
     ELSE IF tree[b][i].type = "device" THEN {Truth(b, i)} ELSE Resolved[tree[b][i].child]

Listing[b \in Bus] ==
  FoldLeft(LAMBDA done, i :
             Append(done, Truth(b, i)) \o
             (IF tree[b][i].type = "bridge" THEN Listing[tree[b][i].child] ELSE <<>>),
           <<>>, [i \in DOMAIN tree[b] |-> i])

\* A search that returns OK found exactly the records of the tree that match,
\* each once, with its absolute address and its interrupt window; without a
\* failure it returns OK unless some table cannot be read, and an address
\* that no device covers is refused.  The listing prints the tree in depth-first
\* order.  (eb_cb_find_by_identity, eb_cb_find_by_address, list_devices)
FoundAll ==
  find.phase = "returned" =>
    /\ find.kind = "identity" /\ find.status = "OK" =>
         /\ find.count = Cardinality(Wanted)
         /\ Range(find.output) \subseteq {Truth(e[1], e[2]) : e \in Wanted}
         /\ Cardinality(Range(find.output)) = Len(find.output)
         /\ Len(find.output) = (IF find.count < Room THEN find.count ELSE Room)
    /\ find.kind = "address" /\ find.status = "OK" =>
         Range(find.output) = Resolved[Root]
    /\ find.kind = "address" /\ find.status = "ADDRESS" => Resolved[Root] = {}
    /\ find.kind = "list" /\ faults = 0 => find.output = Listing[Root]
    /\ faults = 0 =>
         IF find.kind = "address"
         THEN find.status \in {"OK", "ADDRESS"} <=> Resolved[Root] # {Unreadable}
         ELSE find.status # "ADDRESS" =>
                (find.status = "OK" <=> ~\E b \in Bus : Blind(b))
\* A search keeps its result on the stack of the caller: when it returns, no scan
\* that could still write there is under way.  (eb_sdb_find_by_identity_real,
\* eb_sdb_find_by_address_msi)
NothingOutlivesTheSearch ==
  find.phase = "returned" => cycles = {} /\ \A b \in Bus : scan[b] = Idle

\* The listing waits for a scan that never started: the one way to hang.
Unnoticed ==
  /\ find.kind = "list" /\ find.stack # <<>>
  /\ ~Last(find.stack).stop /\ cycles = {}

\* A blocking search returns, and the listing ends, whatever fails on the way.
\* (the loops around eb_socket_run)
SearchReturns ==
  find.phase = "running" ~> find.phase \in {"returned", "exited"} \/ Unnoticed
=============================================================================
