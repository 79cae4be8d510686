----------------------------- MODULE EbSdb_proofs ---------------------------
(***************************************************************************)
(* No scan outlives the search that began it, for any tree of tables, any  *)
(* order of answers and any failures: neither a search for an identity,    *)
(* which scans all bridges of a bus at once and counts, nor one for an     *)
(* address, nor the listing.                                               *)
(*                                                                         *)
(* A search counts the scans it has begun and that have not called it      *)
(* back.  The count is right because no bus is scanned twice at a time,    *)
(* which is why the buses need to be a tree: what is being scanned never   *)
(* lies below something else that is (Separate).                           *)
(*                                                                         *)
(* A transfer of eb-put or eb-get that ends well has moved all bytes of    *)
(* its range and touched nothing else: its cycles leave nothing out, and   *)
(* it waits for all that it should.                                        *)
(***************************************************************************)
EXTENDS EbTools, FiniteSetTheorems, WellFoundedInduction, TLAPS

-----------------------------------------------------------------------------
(* The tree.                                                               *)

\* The buses behind the bridges of bus b in the tables t, and all buses below it:
\* those in every set that has the former and, with a bus, those behind it.
Behind(t, b) ==
  {c \in Bus : /\ t[b] # NoTable
               /\ \E i \in DOMAIN t[b] : t[b][i].type = "bridge" /\ t[b][i].child = c}
Below(t, b) ==
  {c \in Bus : \A S \in SUBSET Bus :
     Behind(t, b) \subseteq S /\ (\A x \in S : Behind(t, x) \subseteq S) => c \in S}

\* No bus of B lies below another, or below itself.
Apart(t, B) == \A b \in B : B \cap Below(t, b) = {}

-----------------------------------------------------------------------------
(* The invariant.                                                          *)

\* The buses being scanned, and the cycles of a bus on the wire
Scanned(sc) == {b \in Bus : sc[b].stage # "idle"}
OnWire(cy, b) == {p \in 0..Top : <<b, p>> \in cy}

Stages == {"idle", "pointer", "header", "table"}
Pairs == Int \X Int
Scan == [stage : Stages, base : Int, window : Pairs, pending : Int,
         status : Reasons \cup {"OK", "OOM"}, damaged : BOOLEAN]
Frame == [bus : Bus, base : Int, window : Pairs, range : Pairs, at : Nat \ {0},
          stop : BOOLEAN, asked : Pairs]
Fields == {"kind", "key", "start", "phase", "pending", "status", "count", "output",
           "stack"}

Client ==
  /\ DOMAIN find = Fields
  /\ find.kind \in {"none", "identity", "address", "list"}
  /\ find.phase \in {"idle", "running", "returned", "exited"}
  /\ find.pending \in Int /\ find.stack \in Seq(Frame)

Typed ==
  /\ tree \in Trees /\ scan \in [Bus -> Scan] /\ cycles \subseteq Bus \X (0..Top)
  /\ Client

\* A scan has a cycle on the wire for each part it waits for.
Counted ==
  \A b \in Bus :
    /\ scan[b].stage = "idle" => scan[b] = Idle /\ OnWire(cycles, b) = {}
    /\ scan[b].stage \in {"pointer", "header"} => OnWire(cycles, b) = {0}
    /\ scan[b].stage = "table" =>
         /\ tree[b] # NoTable
         /\ scan[b].pending = Cardinality(OnWire(cycles, b)) /\ scan[b].pending > 0

Separate == Apart(tree, Scanned(scan))

\* A running search knows how many scans it waits for.
Waiting ==
  /\ find.kind # "none"
  /\ find.kind = "identity" => find.pending = Cardinality(Scanned(scan))
  /\ find.kind = "address" =>
       \/ Scanned(scan) = {} /\ find.pending = 0
       \/ Cardinality(Scanned(scan)) = 1 /\ find.pending = 1
  /\ find.kind = "list" =>
       /\ Scanned(scan) = {} \/ Cardinality(Scanned(scan)) = 1
       /\ find.stack # <<>> /\ find.stack[Len(find.stack)].stop => Scanned(scan) = {}

\* The buses being listed have tables, and none lies below itself.
Listed ==
  \A k \in 1..Len(find.stack) :
    LET b == find.stack[k].bus
    IN  tree[b] # NoTable /\ b \notin Below(tree, b)

SInv ==
  /\ Typed /\ Counted /\ Separate /\ Listed
  /\ find.phase \in {"idle", "returned"} => Scanned(scan) = {}
  /\ find.phase = "idle" => find.stack = <<>>
  /\ find.phase = "running" => Waiting

-----------------------------------------------------------------------------
(* What lies below what.                                                   *)

LEMMA TableOf ==
  ASSUME NEW t \in Trees, NEW b \in Bus, t[b] # NoTable
  PROVE  /\ t[b] \in Seq(Record) /\ Len(t[b]) \in 0..Top /\ DOMAIN t[b] = 1..Len(t[b])
         /\ DOMAIN t[b] \subseteq 1..Top
         /\ \A i \in DOMAIN t[b] :
              /\ t[b][i] \in Record /\ t[b][i].child \in Bus
              /\ t[b][i].type = "bridge" => t[b][i].child # Root
<1>1. /\ t[b] \in Seq(Record) /\ Len(t[b]) <= Top /\ Top \in Nat
      /\ \A i \in DOMAIN t[b] : t[b][i].type = "bridge" => t[b][i].child # Root
  BY SdbAssumption
<1>2. \A i \in DOMAIN t[b] : t[b][i] \in Record
  BY <1>1
<1> QED
  BY <1>1, <1>2 DEF Record

\* A bus hangs on one bridge.
LEMMA OneBridge ==
  ASSUME NEW t \in Trees, NEW b \in Bus, t[b] # NoTable, NEW i \in DOMAIN t[b],
         NEW d \in Bus, t[d] # NoTable, NEW j \in DOMAIN t[d],
         t[b][i].type = "bridge", t[d][j].type = "bridge", t[b][i].child = t[d][j].child
  PROVE  b = d /\ i = j
<1> DEFINE c == t[b][i].child
<1>1. c \in Bus \ {Root} /\ i \in 1..Top /\ j \in 1..Top /\ Top \in Nat
  BY TableOf, SdbAssumption
<1>2. BridgesTo(t, c) \subseteq Bus \X (1..Top) /\ IsFiniteSet(BridgesTo(t, c))
  <2>1. IsFiniteSet(Bus \X (1..Top))
    <3>1. IsFiniteSet(Bus) /\ IsFiniteSet(1..Top)
      BY <1>1, SdbAssumption, FS_Interval
    <3> QED
      BY ONLY <3>1, FS_Product
  <2> QED
    BY <2>1, FS_Subset DEF BridgesTo
<1>3. PICK l : BridgesTo(t, c) = {l}
  BY <1>1, <1>2, FS_Singleton, SdbAssumption
<1>4. <<b, i>> \in BridgesTo(t, c) /\ <<d, j>> \in BridgesTo(t, c)
  BY <1>1 DEF BridgesTo
<1> QED
  BY <1>3, <1>4

LEMMA OneBus ==
  ASSUME NEW t \in Trees, NEW b \in Bus, NEW d \in Bus, NEW c,
         c \in Behind(t, b), c \in Behind(t, d)
  PROVE  b = d /\ c # Root
<1>1. PICK i \in DOMAIN t[b] : t[b][i].type = "bridge" /\ t[b][i].child = c
  BY DEF Behind
<1>2. PICK j \in DOMAIN t[d] : t[d][j].type = "bridge" /\ t[d][j].child = c
  BY DEF Behind
<1>3. t[b] # NoTable /\ t[d] # NoTable
  BY DEF Behind
<1> QED
  BY <1>1, <1>2, <1>3, OneBridge, TableOf

LEMMA BelowSteps ==
  ASSUME NEW t \in Trees, NEW b \in Bus
  PROVE  /\ Behind(t, b) \subseteq Below(t, b)
         /\ \A x \in Below(t, b) : Behind(t, x) \subseteq Below(t, b)
         /\ \A c \in Behind(t, b) : Below(t, c) \subseteq Below(t, b)
<1>1. Behind(t, b) \subseteq Below(t, b)
  BY DEF Below, Behind
<1>2. \A x \in Below(t, b) : Behind(t, x) \subseteq Below(t, b)
  BY DEF Below, Behind
<1>3. ASSUME NEW c \in Behind(t, b), NEW x \in Below(t, c) PROVE x \in Below(t, b)
  <2>1. Below(t, b) \in SUBSET Bus
    BY DEF Below
  <2>2. Behind(t, c) \subseteq Below(t, b) /\ \A y \in Below(t, b) : Behind(t, y) \subseteq Below(t, b)
    BY <1>1, <1>2, <1>3
  <2> QED
    BY <1>3, <2>1, <2>2 DEF Below
<1> QED
  BY <1>1, <1>2, <1>3

\* What lies below x and hangs on b hangs on x, or b lies below x.
LEMMA HangsBelow ==
  ASSUME NEW t \in Trees, NEW b \in Bus, NEW x \in Bus, NEW c \in Behind(t, b),
         c \in Below(t, x)
  PROVE  b = x \/ b \in Below(t, x)
<1> SUFFICES ASSUME b # x, b \notin Below(t, x) PROVE FALSE
  OBVIOUS
<1> DEFINE S == Below(t, x) \ {c}
<1>1. S \in SUBSET Bus
  BY DEF Below
<1>2. Behind(t, x) \subseteq S
  BY BelowSteps, OneBus
<1>3. ASSUME NEW y \in S PROVE Behind(t, y) \subseteq S
  <2>1. y \in Bus /\ y # b
    BY <1>1, <1>3
  <2>2. c \notin Behind(t, y)
    BY <2>1, OneBus
  <2> QED
    BY <1>3, <2>2, BelowSteps
<1>4. c \in S
  BY <1>1, <1>2, <1>3 DEF Below
<1> QED
  BY <1>4

\* Nothing is above the root.
LEMMA RootIsTop ==
  ASSUME NEW t \in Trees, NEW b \in Bus
  PROVE  Root \notin Below(t, b)
<1> DEFINE S == Bus \ {Root}
<1>1. \A x \in Bus : Behind(t, x) \subseteq S
  BY OneBus DEF Behind
<1> QED
  BY <1>1 DEF Below

\* A bus that is read makes way for buses behind it: they are not yet scanned,
\* and what is scanned stays apart.
LEMMA Descent ==
  ASSUME NEW t \in Trees, NEW B \in SUBSET Bus, Apart(t, B), NEW b \in B,
         NEW K \in SUBSET Behind(t, b)
  PROVE  /\ K \cap B = {}
         /\ Apart(t, (B \ {b}) \cup K)
<1>1. b \in Bus /\ K \subseteq Bus /\ b \notin Below(t, b)
  BY DEF Apart, Behind
<1>2. K \cap B = {}
  BY BelowSteps DEF Apart
<1>3. ASSUME NEW x \in (B \ {b}) \cup K, NEW y \in (B \ {b}) \cup K, y \in Below(t, x)
      PROVE  FALSE
  <2>1. x \in Bus /\ y \in Bus
    BY <1>1
  <2>2. CASE x \in K /\ y \in K
    <3>1. b = x \/ b \in Below(t, x)
      BY <1>3, <2>1, <2>2, HangsBelow
    <3>2. x \in Below(t, b) /\ Below(t, x) \subseteq Below(t, b)
      BY <1>1, <2>2, BelowSteps
    <3> QED
      BY <1>1, <3>1, <3>2
  <2>3. CASE x \in K /\ y \in B
    <3>1. y \in Below(t, b)
      BY <1>1, <1>3, <2>3, BelowSteps
    <3> QED
      BY <2>3, <3>1 DEF Apart
  <2>4. CASE x \in B \ {b} /\ y \in K
    <3>1. b \in Below(t, x)
      BY <1>3, <2>1, <2>4, HangsBelow
    <3> QED
      BY <2>4, <3>1 DEF Apart
  <2>5. CASE x \in B /\ y \in B
    BY <1>3, <2>5 DEF Apart
  <2> QED
    BY <1>3, <2>2, <2>3, <2>4, <2>5
<1>4. Apart(t, (B \ {b}) \cup K)
  BY <1>3 DEF Apart
<1> QED
  BY <1>2, <1>4

LEMMA ChildApart ==
  ASSUME NEW t \in Trees, NEW b \in Bus, b \notin Below(t, b), NEW c \in Behind(t, b)
  PROVE  Apart(t, {c}) /\ c \in Bus /\ c \notin Below(t, c)
<1>1. Apart(t, {b})
  BY DEF Apart
<1>2. Apart(t, ({b} \ {b}) \cup {c})
  BY <1>1, Descent
<1> QED
  BY <1>2 DEF Apart, Behind

-----------------------------------------------------------------------------
(* Records and scans.                                                      *)

Kids(S) == {r.child : r \in S}

LEMMA RebasedRecord ==
  ASSUME Typed, NEW b \in Bus, tree[b] # NoTable, NEW base \in Int
  PROVE  /\ DOMAIN Rebased(b, base) = DOMAIN tree[b]
         /\ \A i \in DOMAIN tree[b] :
              /\ Rebased(b, base)[i].type = tree[b][i].type
              /\ Rebased(b, base)[i].child = tree[b][i].child
              /\ Rebased(b, base)[i].first \in Int /\ Rebased(b, base)[i].last \in Int
<1>1. tree \in Trees
  BY DEF Typed
<1>2. ASSUME NEW i \in DOMAIN tree[b]
      PROVE  /\ Rebased(b, base)[i].type = tree[b][i].type
             /\ Rebased(b, base)[i].child = tree[b][i].child
             /\ Rebased(b, base)[i].first \in Int /\ Rebased(b, base)[i].last \in Int
  <2>1. tree[b][i] \in [type : Type, id : Ids, first : Int, last : Int, child : Bus,
                        active : BOOLEAN]
    BY <1>1, TableOf, SdbAssumption DEF Record
  <2> DEFINE r == tree[b][i]
             R == Rebased(b, base)[i]
  <2>2. R = IF r.type = "msi" THEN r ELSE [r EXCEPT !.first = @ + base, !.last = @ + base]
    BY DEF Rebased
  <2> HIDE DEF r, R
  <2>3. r \in [type : Type, id : Ids, first : Int, last : Int, child : Bus,
               active : BOOLEAN]
    BY <2>1 DEF r
  <2>4. R.type = r.type /\ R.child = r.child
    BY <2>2, <2>3
  <2>5. R.first \in Int /\ R.last \in Int
    BY <2>2, <2>3
  <2> QED
    BY <2>4, <2>5 DEF r, R
<1> QED
  BY <1>2 DEF Rebased

\* A bridge as the callback sees it leads to a bus behind its own, each to another.
LEMMA BridgeLeads ==
  ASSUME Typed, NEW b \in Bus, tree[b] # NoTable, scan[b].base \in Int
  PROVE  /\ \A r \in Bridges(b) : r.child \in Behind(tree, b) /\ r.first \in Int
         /\ \A r, s \in Bridges(b) : r.child = s.child => r = s
         /\ IsFiniteSet(Bridges(b))
<1> DEFINE R == Rebased(b, scan[b].base)
<1>1. tree \in Trees /\ DOMAIN R = DOMAIN tree[b]
  BY RebasedRecord DEF Typed
<1>2. \A r \in Bridges(b) : \E i \in DOMAIN tree[b] : R[i] = r /\ tree[b][i].type = "bridge"
  BY <1>1, RebasedRecord DEF Bridges, Range
<1>3. ASSUME NEW r \in Bridges(b)
      PROVE  r.child \in Behind(tree, b) /\ r.first \in Int
  <2>1. PICK i \in DOMAIN tree[b] : R[i] = r /\ tree[b][i].type = "bridge"
    BY <1>2
  <2>2. R[i].child = tree[b][i].child /\ R[i].first \in Int
    BY RebasedRecord
  <2> HIDE DEF R
  <2>3. tree[b][i].child \in Bus
    BY <1>1, <2>1, TableOf, SdbAssumption DEF Record
  <2> QED
    BY <2>1, <2>2, <2>3 DEF Behind
<1>4. ASSUME NEW r \in Bridges(b), NEW s \in Bridges(b), r.child = s.child PROVE r = s
  <2>1. PICK i \in DOMAIN tree[b] : R[i] = r /\ tree[b][i].type = "bridge"
    BY <1>2
  <2>2. PICK j \in DOMAIN tree[b] : R[j] = s /\ tree[b][j].type = "bridge"
    BY <1>2
  <2>3. tree[b][i].child = tree[b][j].child
    BY <1>4, <2>1, <2>2, RebasedRecord
  <2> QED
    BY <1>1, <2>1, <2>2, <2>3, OneBridge
<1>5. IsFiniteSet(Bridges(b))
  <2>1. IsFiniteSet(DOMAIN tree[b])
    <3>1. DOMAIN tree[b] = 1..Len(tree[b]) /\ Len(tree[b]) \in Int
      BY <1>1, TableOf, SdbAssumption
    <3> QED
      BY <3>1, FS_Interval
  <2>2. R \in Surjection(DOMAIN tree[b], Range(R))
    <3>1. R \in [DOMAIN tree[b] -> Range(R)]
      BY DEF Range, Rebased
    <3> QED
      BY <1>1, <3>1 DEF Surjection, Range
  <2>3. IsFiniteSet(Range(R))
    BY <2>1, <2>2, FS_Surjection
  <2> QED
    BY <2>3, FS_Subset DEF Bridges
<1> QED
  BY <1>3, <1>4, <1>5

\* As many scans are begun as bridges are asked about.
LEMMA KidsCounted ==
  ASSUME NEW S, IsFiniteSet(S), \A r, s \in S : r.child = s.child => r = s
  PROVE  IsFiniteSet(Kids(S)) /\ Cardinality(Kids(S)) = Cardinality(S)
<1> DEFINE f == [r \in S |-> r.child]
<1>1. f \in Surjection(S, Kids(S)) /\ f \in Injection(S, Kids(S))
  <2>1. f \in [S -> Kids(S)]
    BY DEF Kids
  <2>2. \A r \in S : f[r] = r.child
    OBVIOUS
  <2> HIDE DEF f
  <2>3. f \in Surjection(S, Kids(S))
    BY <2>1, <2>2 DEF Surjection, Kids
  <2>4. f \in Injection(S, Kids(S))
    BY <2>1, <2>2 DEF Injection, IsInjective
  <2> QED
    BY <2>3, <2>4
<1> QED
  BY <1>1, FS_Surjection

LEMMA WindowTyped ==
  ASSUME Typed, NEW b \in Bus, tree[b] # NoTable, NEW above \in Pairs
  PROVE  Window(b, above) \in Pairs
<1>1. tree \in Trees /\ Top \in Int
  BY SdbAssumption DEF Typed
<1>2. NoWindow \in Pairs
  BY <1>1 DEF NoWindow, Pairs
<1>3. CASE Listeners(b) # {}
  <2> DEFINE i == CHOOSE i \in Listeners(b) : TRUE
  <2>1. i \in DOMAIN tree[b]
    BY <1>3 DEF Listeners
  <2>2. tree[b][i] \in [type : Type, id : Ids, first : Int, last : Int, child : Bus,
                        active : BOOLEAN]
    BY <1>1, <2>1, TableOf, SdbAssumption DEF Record
  <2>3. tree[b][i].first \in Int /\ tree[b][i].last \in Int
    BY <2>2
  <2>4. above[1] \in Int /\ above[2] \in Int
    BY DEF Pairs
  <2> HIDE DEF i
  <2>5. Window(b, above) = IF above[1] > above[2] THEN above
                           ELSE <<above[1] + tree[b][i].first,
                                  IF above[2] = 0 THEN tree[b][i].last
                                  ELSE above[2] + tree[b][i].first>>
    BY <1>3 DEF Window, i
  <2> QED
    BY <2>3, <2>4, <2>5 DEF Pairs
<1> QED
  BY <1>2, <1>3 DEF Window

LEMMA IdleTyped == Idle \in Scan
  BY DEF Idle, Scan, Stages, Pairs, Unset, Reasons

LEMMA ScanChanged ==
  ASSUME NEW s \in Scan
  PROVE  /\ \A v \in Stages : /\ [s EXCEPT !.stage = v] \in Scan
                              /\ [s EXCEPT !.stage = v].stage = v
         /\ \A v \in Int : /\ [s EXCEPT !.base = v] \in Scan
                           /\ [s EXCEPT !.base = v].stage = s.stage
         /\ \A v \in Int : /\ [s EXCEPT !.pending = v] \in Scan
                           /\ [s EXCEPT !.pending = v].stage = s.stage
                           /\ [s EXCEPT !.pending = v].pending = v
         /\ \A v \in Pairs : /\ [s EXCEPT !.window = v] \in Scan
                             /\ [s EXCEPT !.window = v].stage = s.stage
         /\ \A v \in Reasons \cup {"OK", "OOM"} :
              /\ [s EXCEPT !.status = v] \in Scan
              /\ [s EXCEPT !.status = v].stage = s.stage
              /\ [s EXCEPT !.status = v].pending = s.pending
         /\ \A v \in BOOLEAN :
              /\ [s EXCEPT !.damaged = v] \in Scan
              /\ [s EXCEPT !.damaged = v].stage = s.stage
              /\ [s EXCEPT !.damaged = v].pending = s.pending
  BY DEF Scan

LEMMA ReadingTyped ==
  ASSUME NEW stage \in Stages, NEW base \in Int, NEW window \in Pairs
  PROVE  /\ Reading(stage, base, window) \in Scan
         /\ Reading(stage, base, window).stage = stage
<1> DEFINE a == [Idle EXCEPT !.stage = stage]
           b == [a EXCEPT !.base = base]
           c == [b EXCEPT !.window = window]
<1>1. a \in Scan /\ a.stage = stage
  BY IdleTyped, ScanChanged
<1> HIDE DEF a
<1>2. b \in Scan /\ b.stage = stage
  BY <1>1, ScanChanged
<1> HIDE DEF b
<1>3. c \in Scan /\ c.stage = stage
  BY <1>2, ScanChanged
<1> HIDE DEF c
<1>4. [c EXCEPT !.pending = 1] \in Scan /\ [c EXCEPT !.pending = 1].stage = stage
  BY <1>3, ScanChanged
<1> QED
  BY <1>4 DEF Reading, a, b, c

\* Beginning scans leaves the others alone.
LEMMA BegunScans ==
  ASSUME NEW sc \in [Bus -> Scan], NEW window \in Pairs, NEW S,
         \A r \in S : r.child \in Bus /\ r.first \in Int
  PROVE  /\ Begun(sc, S, window) \in [Bus -> Scan]
         /\ \A c \in Bus : Begun(sc, S, window)[c].stage =
                             IF c \in Kids(S) THEN "header" ELSE sc[c].stage
         /\ \A c \in Bus \ Kids(S) : Begun(sc, S, window)[c] = sc[c]
<1> DEFINE B == Begun(sc, S, window)
<1>1. ASSUME NEW c \in Bus, c \in Kids(S)
      PROVE  B[c] \in Scan /\ B[c].stage = "header"
  <2> DEFINE r == CHOOSE r \in S : r.child = c
  <2>1. \E q \in S : q.child = c
    BY <1>1 DEF Kids
  <2>2. r \in S
    BY <2>1
  <2>3. r.first \in Int
    BY <2>2
  <2>4. B[c] = Reading("header", r.first, window)
    BY <2>1 DEF Begun
  <2> QED
    BY <2>3, <2>4, ReadingTyped DEF Stages
<1>2. ASSUME NEW c \in Bus, c \notin Kids(S) PROVE B[c] = sc[c]
  BY <1>2 DEF Begun, Kids
<1>3. B = [c \in Bus |-> B[c]]
  BY DEF Begun
<1> QED
  BY <1>1, <1>2, <1>3

-----------------------------------------------------------------------------
(* A scan that is over and the scans its callback begins.                  *)

LEMMA HandsOver ==
  ASSUME Typed, Counted, Separate, UNCHANGED tree,
         NEW b \in Scanned(scan), NEW p, OnWire(cycles, b) = {p},
         NEW S, \A r \in S : r.child \in Behind(tree, b) /\ r.first \in Int,
         NEW w \in Pairs,
         scan' = Begun(Over(b), S, w), cycles' = (cycles \ {<<b, p>>}) \cup Heads(S)
  PROVE  /\ scan' \in [Bus -> Scan] /\ cycles' \subseteq Bus \X (0..Top)
         /\ Counted' /\ Separate'
         /\ Scanned(scan') = (Scanned(scan) \ {b}) \cup Kids(S)
         /\ Kids(S) \cap Scanned(scan) = {}
<1>1. /\ tree \in Trees /\ b \in Bus /\ scan \in [Bus -> Scan] /\ Top \in Nat
      /\ Scanned(scan) \subseteq Bus /\ cycles \subseteq Bus \X (0..Top)
  BY SdbAssumption DEF Typed, Scanned
<1>2. Kids(S) \in SUBSET Behind(tree, b) /\ Kids(S) \subseteq Bus
  BY DEF Kids, Behind
<1>3. /\ Kids(S) \cap Scanned(scan) = {}
      /\ Apart(tree, (Scanned(scan) \ {b}) \cup Kids(S))
  <2>1. Apart(tree, Scanned(scan)) /\ Scanned(scan) \in SUBSET Bus
    BY <1>1 DEF Separate
  <2> QED
    BY ONLY <1>1, <1>2, <2>1, b \in Scanned(scan), Descent
<1>4. Over(b) \in [Bus -> Scan] /\ Over(b)[b] = Idle
      /\ \A c \in Bus \ {b} : Over(b)[c] = scan[c]
  BY <1>1, IdleTyped DEF Over
<1>5. /\ scan' \in [Bus -> Scan]
      /\ \A c \in Bus : scan'[c].stage = IF c \in Kids(S) THEN "header" ELSE Over(b)[c].stage
      /\ \A c \in Bus \ Kids(S) : scan'[c] = Over(b)[c]
  <2>1. \A r \in S : r.child \in Bus /\ r.first \in Int
    BY DEF Behind
  <2> QED
    BY <1>4, <2>1, BegunScans
<1>6. b \notin Kids(S)
  BY <1>3
<1>7. Idle.stage = "idle"
  BY DEF Idle
<1>8. Scanned(scan') = (Scanned(scan) \ {b}) \cup Kids(S)
  BY <1>1, <1>2, <1>4, <1>5, <1>6, <1>7 DEF Scanned
<1>9. Separate'
  BY <1>3, <1>8 DEF Separate
<1>10. Heads(S) = {<<c, 0>> : c \in Kids(S)}
  BY DEF Heads, Kids
<1>11. cycles' \subseteq Bus \X (0..Top)
  BY <1>1, <1>2, <1>10
<1>12. Counted'
  <2> SUFFICES ASSUME NEW d \in Bus
               PROVE  /\ scan'[d].stage = "idle" => scan'[d] = Idle /\ OnWire(cycles', d) = {}
                      /\ scan'[d].stage \in {"pointer", "header"} => OnWire(cycles', d) = {0}
                      /\ scan'[d].stage = "table" =>
                           /\ tree[d] # NoTable
                           /\ scan'[d].pending = Cardinality(OnWire(cycles', d))
                           /\ scan'[d].pending > 0
    BY DEF Counted
  <2>1. CASE d = b
    <3>1. OnWire(cycles', d) = {}
      BY <1>6, <1>10, <2>1 DEF OnWire
    <3> QED
      BY <1>4, <1>5, <1>6, <1>7, <2>1, <3>1
  <2>2. CASE d \in Kids(S)
    <3>1. scan[d].stage = "idle"
      BY <1>3, <2>2 DEF Scanned
    <3>2. OnWire(cycles, d) = {}
      BY <3>1 DEF Counted
    <3>3. OnWire(cycles', d) = {0}
      BY <1>1, <1>6, <1>10, <2>2, <3>2 DEF OnWire
    <3>4. scan'[d].stage = "header"
      BY <1>5, <2>2
    <3> QED
      BY <3>3, <3>4
  <2>3. CASE d # b /\ d \notin Kids(S)
    <3>1. scan'[d] = scan[d]
      BY <1>4, <1>5, <2>3
    <3>2. OnWire(cycles', d) = OnWire(cycles, d)
      BY <1>10, <2>3 DEF OnWire
    <3> QED
      BY <3>1, <3>2 DEF Counted
  <2> QED
    BY <2>1, <2>2, <2>3
<1> QED
  BY <1>3, <1>5, <1>8, <1>9, <1>11, <1>12

\* ... when it begins none.
LEMMA HandsOverNothing ==
  ASSUME Typed, Counted, Separate, UNCHANGED tree,
         NEW b \in Scanned(scan), NEW p, OnWire(cycles, b) = {p},
         scan' = Over(b), cycles' = cycles \ {<<b, p>>}
  PROVE  /\ scan' \in [Bus -> Scan] /\ cycles' \subseteq Bus \X (0..Top)
         /\ Counted' /\ Separate'
         /\ Scanned(scan') = Scanned(scan) \ {b}
<1>1. Unset \in Pairs
  BY DEF Unset, Pairs
<1>2. Over(b) \in [Bus -> Scan]
  BY IdleTyped DEF Typed, Over, Scanned
<1>3. Kids({}) = {} /\ Heads({}) = {}
  BY DEF Kids, Heads
<1>4. \A c \in Bus : Begun(Over(b), {}, Unset)[c] = Over(b)[c]
  BY <1>1, <1>2, <1>3, BegunScans
<1>5. Begun(Over(b), {}, Unset) = Over(b)
  <2>1. Begun(Over(b), {}, Unset) \in [Bus -> Scan]
    BY <1>1, <1>2, BegunScans
  <2> QED
    BY <1>2, <1>4, <2>1
<1>6. scan' = Begun(Over(b), {}, Unset) /\ cycles' = (cycles \ {<<b, p>>}) \cup Heads({})
  BY <1>3, <1>5
<1> QED
  BY <1>1, <1>3, <1>6, HandsOver

LEMMA ScannedFinite ==
  IsFiniteSet(Scanned(scan)) /\ Cardinality(Scanned(scan)) \in Nat
<1>1. IsFiniteSet(Scanned(scan))
  BY SdbAssumption, FS_Subset DEF Scanned
<1> QED
  BY <1>1, FS_CardinalityType

\* How many are scanned then
LEMMA HandedCount ==
  ASSUME NEW A, IsFiniteSet(A), NEW b \in A, NEW K, IsFiniteSet(K), K \cap A = {}
  PROVE  /\ IsFiniteSet((A \ {b}) \cup K)
         /\ Cardinality((A \ {b}) \cup K) = Cardinality(A) - 1 + Cardinality(K)
<1>1. IsFiniteSet(A \ {b}) /\ Cardinality(A \ {b}) = Cardinality(A) - 1
  BY FS_RemoveElement
<1>2. (A \ {b}) \cap K = {} /\ Cardinality({}) = 0
  BY FS_EmptySet
<1>3. /\ Cardinality(A) \in Nat /\ Cardinality(K) \in Nat
  BY FS_CardinalityType
<1>4. /\ IsFiniteSet((A \ {b}) \cup K)
      /\ Cardinality((A \ {b}) \cup K) =
           Cardinality(A \ {b}) + Cardinality(K) - Cardinality((A \ {b}) \cap K)
  BY ONLY <1>1, IsFiniteSet(K), FS_Union
<1>5. Cardinality((A \ {b}) \cap K) = 0
  BY ONLY <1>2, Zenon
<1> QED
  BY ONLY <1>1, <1>3, <1>4, <1>5

-----------------------------------------------------------------------------
(* Steps of one scan.                                                      *)

LEMMA Proceeds ==
  ASSUME SInv, UNCHANGED <<tree, find>>, NEW b \in Scanned(scan),
         scan' \in [Bus -> Scan], cycles' \subseteq Bus \X (0..Top),
         \A d \in Bus \ {b} :
           scan'[d] = scan[d] /\ OnWire(cycles', d) = OnWire(cycles, d),
         \/ scan'[b].stage = "header" /\ OnWire(cycles', b) = {0}
         \/ /\ scan'[b].stage = "table" /\ tree[b] # NoTable
            /\ scan'[b].pending = Cardinality(OnWire(cycles', b)) /\ scan'[b].pending > 0
  PROVE  SInv'
<1>1. b \in Bus /\ Scanned(scan') = Scanned(scan)
  BY DEF Scanned
<1>2. Counted'
  BY DEF SInv, Counted
<1>3. Separate' /\ Listed' /\ Typed'
  BY <1>1 DEF SInv, Separate, Listed, Typed, Client
<1>4. find.phase = "running" => Waiting'
  BY <1>1 DEF SInv, Waiting
<1> QED
  BY <1>1, <1>2, <1>3, <1>4 DEF SInv

LEMMA WireOf ==
  ASSUME SInv, NEW b \in Bus, NEW p, <<b, p>> \in cycles
  PROVE  /\ b \in Scanned(scan) /\ p \in OnWire(cycles, b)
         /\ scan[b].stage \in {"pointer", "header"} => p = 0 /\ OnWire(cycles, b) = {p}
         /\ scan[b].stage = "table" /\ scan[b].pending <= 1 => OnWire(cycles, b) = {p}
<1>1. p \in OnWire(cycles, b)
  BY DEF OnWire, SInv, Typed
<1>2. b \in Scanned(scan)
  BY <1>1 DEF Scanned, SInv, Counted
<1>3. IsFiniteSet(OnWire(cycles, b))
  <2>1. Top \in Int
    BY SdbAssumption
  <2> QED
    <3>1. IsFiniteSet(0..Top) /\ OnWire(cycles, b) \in SUBSET (0..Top)
      BY <2>1, FS_Interval DEF OnWire
    <3> QED
      BY ONLY <3>1, FS_Subset
<1>4. ASSUME scan[b].stage = "table", scan[b].pending <= 1 PROVE OnWire(cycles, b) = {p}
  <2>1. Cardinality(OnWire(cycles, b)) = 1
    <3>1. Cardinality(OnWire(cycles, b)) \in Nat
      BY <1>3, FS_CardinalityType
    <3> QED
      BY <1>4, <3>1 DEF SInv, Counted
  <2> QED
    BY <1>1, <1>3, <2>1, FS_Singleton
<1> QED
  BY <1>1, <1>2, <1>4 DEF SInv, Counted

\* The last scan of a search for an address or of the listing
LEMMA OnlyOne ==
  ASSUME NEW b \in Scanned(scan), Cardinality(Scanned(scan)) = 1
  PROVE  Scanned(scan) = {b}
  BY ScannedFinite, FS_Singleton

LEMMA FailedKeeps ==
  ASSUME SInv, Runs, UNCHANGED tree, NEW b \in Scanned(scan),
         NEW p, OnWire(cycles, b) = {p}, NEW s, Failed(b, s, cycles \ {<<b, p>>})
  PROVE  SInv'
<1>1. /\ scan' = Over(b) /\ cycles' = cycles \ {<<b, p>>}
      /\ find' = IF find.kind = "list" THEN [find EXCEPT !.phase = "exited", !.status = s]
                 ELSE IF find.kind = "identity"
                 THEN [find EXCEPT !.pending = @ - 1, !.status = s]
                 ELSE [find EXCEPT !.pending = 0, !.status = s]
  BY DEF Failed, Told
<1>2. /\ scan' \in [Bus -> Scan] /\ cycles' \subseteq Bus \X (0..Top)
      /\ Counted' /\ Separate' /\ Scanned(scan') = Scanned(scan) \ {b}
  BY <1>1, HandsOverNothing DEF SInv
<1>3. /\ Client' /\ find'.stack = find.stack /\ find'.kind = find.kind
      /\ find'.phase = IF find.kind = "list" THEN "exited" ELSE "running"
      /\ find.kind = "identity" => find'.pending = find.pending - 1
      /\ find.kind = "address" => find'.pending = 0
  BY <1>1 DEF SInv, Typed, Client, Fields, Runs
<1>4. Waiting /\ find.phase = "running"
  BY DEF SInv, Runs
<1>5. find'.phase = "running" => Waiting'
  <2>1. Cardinality(Scanned(scan')) = Cardinality(Scanned(scan)) - 1
    BY <1>2, ScannedFinite, FS_RemoveElement
  <2>2. ASSUME find.kind = "address" PROVE Scanned(scan') = {}
    <3>1. Scanned(scan) = {b}
      BY <1>4, <2>2, OnlyOne DEF Waiting
    <3> QED
      BY <1>2, <3>1
  <2> QED
    BY <1>3, <1>4, <2>1, <2>2 DEF Waiting
<1>6. Typed' /\ Listed'
  BY <1>2, <1>3 DEF SInv, Typed, Listed
<1> QED
  BY <1>2, <1>3, <1>5, <1>6 DEF SInv

-----------------------------------------------------------------------------
(* The callbacks of the clients.                                           *)

LEMMA ScanIs ==
  ASSUME SInv, NEW b \in Bus
  PROVE  scan[b].base \in Int /\ scan[b].window \in Pairs
  BY DEF SInv, Typed, Scan

\* The search for an identity waits for all scans it begins.
LEMMA IdentifyKeeps ==
  ASSUME SInv, Runs, UNCHANGED tree, NEW b \in Scanned(scan), tree[b] # NoTable,
         NEW p, OnWire(cycles, b) = {p}, NEW s, Identify(b, s, cycles \ {<<b, p>>})
  PROVE  SInv'
<1> DEFINE w == Window(b, scan[b].window)
           hits == [k \in DOMAIN Matching(b) |-> Entry(b, Matching(b)[k], w)]
<1>1. PICK F \in SUBSET Bridges(b) :
        /\ scan' = Begun(Over(b), Bridges(b) \ F, w)
        /\ cycles' = (cycles \ {<<b, p>>}) \cup Heads(Bridges(b) \ F)
        /\ find' = [find EXCEPT
             !.pending = @ - 1 + Waits(Cardinality(Bridges(b) \ F)),
             !.status  = IF F = {} THEN @ ELSE "OOM",
             !.count   = @ + Len(hits),
             !.output  = SubSeq(@ \o hits, 1,
                                IF Len(@) + Len(hits) < Room
                                THEN Len(@) + Len(hits) ELSE Room)]
  BY DEF Identify
<1> DEFINE S == Bridges(b) \ F
<1>2. b \in Bus /\ w \in Pairs
  BY ScanIs, WindowTyped DEF SInv, Scanned
<1>3. /\ \A r \in S : r.child \in Behind(tree, b) /\ r.first \in Int
      /\ \A q, r \in S : q.child = r.child => q = r
      /\ IsFiniteSet(S)
  BY <1>2, ScanIs, BridgeLeads, FS_Subset DEF SInv
<1> HIDE DEF w
<1>4. /\ scan' \in [Bus -> Scan] /\ cycles' \subseteq Bus \X (0..Top)
      /\ Counted' /\ Separate'
      /\ Scanned(scan') = (Scanned(scan) \ {b}) \cup Kids(S)
      /\ Kids(S) \cap Scanned(scan) = {}
  BY <1>1, <1>2, <1>3, HandsOver DEF SInv
<1>5. IsFiniteSet(Kids(S)) /\ Cardinality(Kids(S)) = Cardinality(S) /\ Cardinality(S) \in Nat
  BY <1>3, KidsCounted, FS_CardinalityType
<1>6. Cardinality(Scanned(scan')) = Cardinality(Scanned(scan)) - 1 + Cardinality(S)
  <2>1. /\ IsFiniteSet(Scanned(scan)) /\ b \in Scanned(scan)
        /\ Kids(S) \cap Scanned(scan) = {}
    BY <1>4, ScannedFinite
  <2> HIDE DEF S
  <2>2. Cardinality((Scanned(scan) \ {b}) \cup Kids(S)) =
          Cardinality(Scanned(scan)) - 1 + Cardinality(Kids(S))
    BY ONLY <1>5, <2>1, HandedCount
  <2>3. Cardinality(Scanned(scan')) = Cardinality((Scanned(scan) \ {b}) \cup Kids(S))
    BY ONLY <1>4, Zenon
  <2> QED
    BY ONLY <1>5, <2>2, <2>3
<1>7. find.kind = "identity" /\ find.phase = "running"
  BY DEF Identify, Goes, Runs
<1>8. /\ Client' /\ find'.stack = find.stack /\ find'.kind = find.kind
      /\ find'.phase = find.phase
      /\ find'.pending = find.pending - 1 + Cardinality(S)
  <2>1. /\ DOMAIN find' = Fields /\ find'.stack = find.stack /\ find'.kind = find.kind
        /\ find'.phase = find.phase
        /\ find'.pending = find.pending - 1 + Waits(Cardinality(S))
    BY <1>1 DEF SInv, Typed, Client, Fields
  <2> QED
    BY <1>5, <2>1 DEF SInv, Typed, Client, Waits
<1>9. Waiting'
  BY <1>6, <1>7, <1>8 DEF SInv, Waiting
<1>10. Typed' /\ Listed'
  BY <1>4, <1>8 DEF SInv, Typed, Listed
<1> QED
  BY <1>4, <1>7, <1>8, <1>9, <1>10 DEF SInv

Less == {ss \in Nat \X Nat : ss[1] < ss[2]}

LEMMA LessWellFounded == IsWellFoundedOn(Less, Nat)
  BY NatLessThanWellFounded, Zenon DEF OpToRel, Less

LEMMA Least ==
  ASSUME NEW T \in SUBSET Nat, T # {}
  PROVE  \E x \in T : \A y \in T : x <= y
<1>1. PICK x \in T : \A y \in T : ~ (<<y, x>> \in Less)
  BY LessWellFounded, WFMin, Zenon
<1>2. ASSUME NEW y \in T PROVE x <= y
  <2>1. <<y, x>> \notin Less
    BY <1>1
  <2> QED
    BY <2>1 DEF Less
<1> QED
  BY <1>2

\* The search for an address ends, or goes on with one bridge.
LEMMA LocateKeeps ==
  ASSUME SInv, Runs, UNCHANGED tree, NEW b \in Scanned(scan), tree[b] # NoTable,
         NEW p, OnWire(cycles, b) = {p}, NEW s, Locate(b, s, cycles \ {<<b, p>>})
  PROVE  SInv'
<1> DEFINE w == Window(b, scan[b].window)
           some == Covering(b, find.key)
           i == CHOOSE j \in some : \A k \in some : j <= k
           r == Rebased(b, scan[b].base)[i]
<1>1. /\ find.kind = "address" /\ find.phase = "running" /\ b \in Bus /\ tree \in Trees
      /\ w \in Pairs
  BY ScanIs, WindowTyped DEF Locate, Goes, Runs, SInv, Scanned, Typed
<1>2. Scanned(scan) = {b} /\ find.pending = 1
  <2>1. Waiting
    BY <1>1 DEF SInv
  <2> QED
    BY <1>1, <2>1, OnlyOne DEF Waiting
<1>3. ASSUME some # {}, r.type = "bridge"
      PROVE  r.child \in Behind(tree, b) /\ r.first \in Int
  <2>1. some \in SUBSET Nat /\ some \subseteq DOMAIN tree[b]
    BY <1>1, TableOf DEF Covering
  <2>2. i \in some
    <3>1. \E j \in some : \A k \in some : j <= k
      BY <1>3, <2>1, Least
    <3> QED
      BY <3>1
  <2> HIDE DEF i
  <2>3. /\ r.type = tree[b][i].type /\ r.child = tree[b][i].child /\ r.first \in Int
    BY <1>1, <2>1, <2>2, ScanIs, RebasedRecord DEF SInv
  <2> QED
    BY <1>1, <1>3, <2>1, <2>2, <2>3, TableOf DEF Behind
<1>4. CASE /\ scan' = Over(b) /\ cycles' = cycles \ {<<b, p>>}
           /\ \E c : \/ find' = [find EXCEPT !.pending = 0, !.status = c]
                     \/ \E o : find' = [find EXCEPT !.pending = 0, !.status = c, !.output = o]
  <2>1. /\ scan' \in [Bus -> Scan] /\ cycles' \subseteq Bus \X (0..Top)
        /\ Counted' /\ Separate' /\ Scanned(scan') = Scanned(scan) \ {b}
    BY <1>4, HandsOverNothing DEF SInv
  <2>2. /\ Client' /\ find'.stack = find.stack /\ find'.kind = find.kind
        /\ find'.phase = find.phase /\ find'.pending = 0
    <3>1. Client /\ DOMAIN find = Fields
      BY DEF SInv, Typed, Client
    <3>2. PICK c : \/ find' = [find EXCEPT !.pending = 0, !.status = c]
                   \/ \E o : find' = [find EXCEPT !.pending = 0, !.status = c, !.output = o]
      BY <1>4
    <3>3. CASE find' = [find EXCEPT !.pending = 0, !.status = c]
      BY <3>1, <3>3 DEF Client, Fields
    <3>4. CASE \E o : find' = [find EXCEPT !.pending = 0, !.status = c, !.output = o]
      <4>1. PICK o : find' = [find EXCEPT !.pending = 0, !.status = c, !.output = o]
        BY <3>4
      <4> QED
        BY <3>1, <4>1 DEF Client, Fields
    <3> QED
      BY <3>2, <3>3, <3>4
  <2>3. Scanned(scan') = {}
    BY <1>2, <2>1
  <2>4. Waiting'
    BY <1>1, <2>2, <2>3 DEF Waiting
  <2> QED
    BY <1>1, <2>1, <2>2, <2>3, <2>4 DEF SInv, Typed, Listed
<1>5. CASE /\ some # {} /\ r.type = "bridge" /\ UNCHANGED find
           /\ scan' = Begun(Over(b), {r}, w)
           /\ cycles' = (cycles \ {<<b, p>>}) \cup Heads({r})
  <2>1. \A q \in {r} : q.child \in Behind(tree, b) /\ q.first \in Int
    BY <1>3, <1>5
  <2> HIDE DEF w, r
  <2>2. /\ scan' \in [Bus -> Scan] /\ cycles' \subseteq Bus \X (0..Top)
        /\ Counted' /\ Separate'
        /\ Scanned(scan') = (Scanned(scan) \ {b}) \cup Kids({r})
    BY <1>1, <1>5, <2>1, HandsOver DEF SInv
  <2>3. Scanned(scan') = {r.child}
    BY <1>2, <2>2 DEF Kids
  <2>4. Cardinality(Scanned(scan')) = 1
    BY <2>3, FS_Singleton
  <2>5. Waiting'
    BY <1>1, <1>2, <1>5, <2>4 DEF Waiting
  <2> QED
    BY <1>1, <1>5, <2>2, <2>5 DEF SInv, Typed, Client, Listed
<1> HIDE DEF w, some, i, r
<1>6. QED
  <2>1. \/ /\ scan' = Over(b) /\ cycles' = cycles \ {<<b, p>>}
           /\ \/ find' = [find EXCEPT !.pending = 0, !.status = "ADDRESS"]
              \/ find' = [find EXCEPT !.pending = 0, !.status = "OK",
                                      !.output = <<Entry(b, i, w)>>]
              \/ find' = [find EXCEPT !.pending = 0, !.status = "OOM"]
        \/ /\ some # {} /\ r.type = "bridge" /\ UNCHANGED find
           /\ scan' = Begun(Over(b), {r}, w)
           /\ cycles' = (cycles \ {<<b, p>>}) \cup Heads({r})
    BY DEF Locate, Told, w, some, i, r
  <2> QED
    BY <1>4, <1>5, <2>1

\* A frame of the listing is as well formed as the one it came from.
LEMMA FrameChanged ==
  ASSUME NEW f \in Frame
  PROVE  /\ \A v \in BOOLEAN : /\ [f EXCEPT !.stop = v] \in Frame
                               /\ [f EXCEPT !.stop = v].bus = f.bus
                               /\ [f EXCEPT !.stop = v].stop = v
         /\ \A v \in Nat \ {0} : /\ [f EXCEPT !.at = v] \in Frame
                                 /\ [f EXCEPT !.at = v].bus = f.bus
                                 /\ [f EXCEPT !.at = v].stop = f.stop
         /\ \A v \in Pairs : /\ [f EXCEPT !.asked = v] \in Frame
                             /\ [f EXCEPT !.asked = v].bus = f.bus
                             /\ [f EXCEPT !.asked = v].stop = f.stop
  BY DEF Frame

\* The listing opens a frame for the bus and waits for nothing.
LEMMA ListKeeps ==
  ASSUME SInv, Runs, UNCHANGED tree, NEW b \in Scanned(scan), tree[b] # NoTable,
         NEW p, OnWire(cycles, b) = {p}, NEW s, List(b, s, cycles \ {<<b, p>>})
  PROVE  SInv'
<1> DEFINE w == Window(b, scan[b].window)
           below == find.stack
           frame == [bus |-> b, base |-> scan[b].base, window |-> w,
                     range |-> IF below = <<>> THEN <<0, Top>> ELSE Last(below).asked,
                     at |-> 1, stop |-> TRUE, asked |-> Unset]
           lifted == [k \in DOMAIN below |-> IF k = Len(below)
                                             THEN [below[k] EXCEPT !.stop = TRUE]
                                             ELSE below[k]]
<1>1. /\ find.kind = "list" /\ find.phase = "running" /\ b \in Bus /\ w \in Pairs
      /\ scan[b].base \in Int /\ Top \in Int /\ below \in Seq(Frame) /\ Client
  BY ScanIs, WindowTyped, SdbAssumption DEF List, Goes, Runs, SInv, Scanned, Typed, Client
<1>2. Scanned(scan) = {b}
  <2>1. Waiting
    BY <1>1 DEF SInv
  <2> QED
    BY <1>1, <2>1, OnlyOne DEF Waiting
<1>3. /\ scan' = Over(b) /\ cycles' = cycles \ {<<b, p>>}
      /\ find' = [find EXCEPT !.stack = lifted \o <<frame>>]
  BY DEF List, Told
<1>4. /\ scan' \in [Bus -> Scan] /\ cycles' \subseteq Bus \X (0..Top)
      /\ Counted' /\ Separate' /\ Scanned(scan') = {}
  <2>1. /\ scan' \in [Bus -> Scan] /\ cycles' \subseteq Bus \X (0..Top)
        /\ Counted' /\ Separate' /\ Scanned(scan') = Scanned(scan) \ {b}
    BY <1>3, HandsOverNothing DEF SInv
  <2> QED
    BY <1>2, <2>1
<1>5. frame \in Frame
  <2>1. <<0, Top>> \in Pairs /\ Unset \in Pairs
    BY <1>1 DEF Pairs, Unset
  <2>2. ASSUME below # <<>> PROVE Last(below).asked \in Pairs
    <3>1. Last(below) \in Frame
      BY <1>1, <2>2 DEF Last
    <3> QED
      BY <3>1 DEF Frame
  <2>3. (IF below = <<>> THEN <<0, Top>> ELSE Last(below).asked) \in Pairs
    BY <2>1, <2>2
  <2> HIDE DEF w, below
  <2> QED
    BY <1>1, <2>1, <2>3 DEF Frame
<1>6. /\ lifted \in Seq(Frame) /\ Len(lifted) = Len(below)
      /\ \A k \in 1..Len(below) : lifted[k].bus = below[k].bus
  <2> HIDE DEF below
  <2>1. DOMAIN below = 1..Len(below) /\ Len(below) \in Nat
        /\ \A k \in 1..Len(below) : below[k] \in Frame
    BY <1>1
  <2>2. \A k \in 1..Len(below) : lifted[k] \in Frame /\ lifted[k].bus = below[k].bus
    BY <2>1, FrameChanged
  <2>3. DOMAIN lifted = 1..Len(below)
    BY <2>1
  <2>4. lifted \in [1..Len(below) -> Frame]
    BY <2>2, <2>3
  <2> QED
    BY <2>1, <2>2, <2>4
<1>7. frame.bus = b
  OBVIOUS
<1> HIDE DEF frame, lifted, w, below
<1>8. /\ lifted \o <<frame>> \in Seq(Frame) /\ Len(lifted \o <<frame>>) = Len(below) + 1
      /\ \A k \in 1..Len(below) : (lifted \o <<frame>>)[k] = lifted[k]
      /\ (lifted \o <<frame>>)[Len(below) + 1] = frame
  BY <1>1, <1>5, <1>6
<1>9. Client' /\ find'.stack = lifted \o <<frame>> /\ find'.kind = find.kind
      /\ find'.phase = find.phase
  BY <1>1, <1>3, <1>8 DEF Client, Fields
<1>10. Listed'
  <2> SUFFICES ASSUME NEW k \in 1..Len(below) + 1
               PROVE  LET d == (lifted \o <<frame>>)[k].bus
                      IN  tree[d] # NoTable /\ d \notin Below(tree, d)
    BY <1>8, <1>9 DEF Listed
  <2>1. CASE k = Len(below) + 1
    <3>1. b \notin Below(tree, b)
      BY DEF SInv, Separate, Apart
    <3> QED
      BY <1>7, <1>8, <2>1, <3>1
  <2>2. CASE k # Len(below) + 1
    <3>1. k \in 1..Len(below)
      BY <1>1, <2>2 DEF below
    <3>2. (lifted \o <<frame>>)[k].bus = below[k].bus
      BY <1>6, <1>8, <3>1
    <3> QED
      BY <3>1, <3>2 DEF SInv, Listed, below
  <2> QED
    BY <2>1, <2>2
<1>11. Waiting'
  BY <1>1, <1>4, <1>9 DEF Waiting
<1>12. Typed'
  BY <1>4, <1>9 DEF SInv, Typed
<1> QED
  BY <1>1, <1>4, <1>9, <1>10, <1>11, <1>12 DEF SInv

-----------------------------------------------------------------------------
(* The first scan of a search and the next one of the listing.             *)

LEMMA NothingScanned ==
  ASSUME SInv, Scanned(scan) = {}
  PROVE  cycles = {} /\ \A b \in Bus : scan[b] = Idle
<1>1. \A b \in Bus : scan[b] = Idle /\ OnWire(cycles, b) = {}
  BY DEF SInv, Counted, Scanned
<1>2. cycles \subseteq Bus \X (0..Top)
  BY DEF SInv, Typed
<1>3. ASSUME NEW e \in cycles PROVE FALSE
  <2>1. e[1] \in Bus /\ e[2] \in 0..Top /\ e = <<e[1], e[2]>>
    BY <1>2
  <2>2. e[2] \in OnWire(cycles, e[1])
    BY <1>3, <2>1 DEF OnWire
  <2> QED
    BY <1>1, <2>1, <2>2
<1> QED
  BY <1>1, <1>3

LEMMA Begins ==
  ASSUME SInv, Scanned(scan) = {}, UNCHANGED tree, NEW c \in Bus, Apart(tree, {c}),
         scan' \in [Bus -> Scan], scan'[c].stage \in {"pointer", "header"},
         \A d \in Bus \ {c} : scan'[d] = scan[d], cycles' = cycles \cup {<<c, 0>>}
  PROVE  /\ cycles' \subseteq Bus \X (0..Top) /\ Counted' /\ Separate'
         /\ Scanned(scan') = {c} /\ Cardinality(Scanned(scan')) = 1
<1>1. cycles = {} /\ (\A b \in Bus : scan[b] = Idle) /\ Idle.stage = "idle" /\ Top \in Nat
  BY NothingScanned, SdbAssumption DEF Idle
<1>2. Scanned(scan') = {c}
  BY <1>1 DEF Scanned
<1>3. Separate'
  BY <1>2 DEF Separate
<1>4. cycles' \subseteq Bus \X (0..Top)
  BY <1>1
<1>5. \A d \in Bus : OnWire(cycles', d) = IF d = c THEN {0} ELSE {}
  BY <1>1 DEF OnWire
<1>6. Counted'
  BY <1>1, <1>5 DEF Counted
<1> QED
  BY <1>2, <1>3, <1>4, <1>6, FS_Singleton

\* ... on the bus behind a bridge.
LEMMA BeginsBehind ==
  ASSUME SInv, Scanned(scan) = {}, UNCHANGED tree, NEW b \in Bus, b \notin Below(tree, b),
         NEW r, r.child \in Behind(tree, b), r.first \in Int, NEW w \in Pairs,
         scan' = Begun(scan, {r}, w), cycles' = cycles \cup Heads({r})
  PROVE  /\ scan' \in [Bus -> Scan]
         /\ cycles' \subseteq Bus \X (0..Top) /\ Counted' /\ Separate'
         /\ Cardinality(Scanned(scan')) = 1
<1>1. tree \in Trees /\ scan \in [Bus -> Scan]
  BY DEF SInv, Typed
<1>2. Apart(tree, {r.child}) /\ r.child \in Bus
  BY <1>1, ChildApart
<1>3. Kids({r}) = {r.child} /\ Heads({r}) = {<<r.child, 0>>}
  BY DEF Kids, Heads
<1>4. \A q \in {r} : q.child \in Bus /\ q.first \in Int
  BY <1>2
<1> DEFINE B == Begun(scan, {r}, w)
<1>5. /\ B \in [Bus -> Scan]
      /\ \A c \in Bus : B[c].stage = IF c \in Kids({r}) THEN "header" ELSE scan[c].stage
      /\ \A c \in Bus \ Kids({r}) : B[c] = scan[c]
  BY ONLY <1>1, <1>4, w \in Pairs, BegunScans
<1>6. /\ scan' \in [Bus -> Scan] /\ scan'[r.child].stage = "header"
      /\ \A d \in Bus \ {r.child} : scan'[d] = scan[d]
  <2>1. scan' = B
    OBVIOUS
  <2> HIDE DEF B
  <2> QED
    BY ONLY <1>2, <1>3, <1>5, <2>1
<1> QED
  BY <1>2, <1>3, <1>6, Begins

-----------------------------------------------------------------------------
(* Every step keeps the invariant.                                         *)

LEMMA AskedIs ==
  ASSUME DOMAIN find = Fields, NEW kind, NEW key, NEW b
  PROVE  /\ DOMAIN Asked(kind, key, b) = Fields /\ Asked(kind, key, b).kind = kind
         /\ Asked(kind, key, b).phase = "running" /\ Asked(kind, key, b).pending = 1
         /\ Asked(kind, key, b).stack = find.stack
<1> DEFINE f1 == [find EXCEPT !.kind = kind]
           f2 == [f1 EXCEPT !.key = key]
           f3 == [f2 EXCEPT !.start = b]
           f4 == [f3 EXCEPT !.phase = "running"]
<1>1. DOMAIN f1 = Fields /\ f1.kind = kind /\ f1.stack = find.stack
  BY DEF Fields
<1> HIDE DEF f1
<1>2. DOMAIN f2 = Fields /\ f2.kind = kind /\ f2.stack = find.stack
  BY <1>1 DEF Fields
<1> HIDE DEF f2
<1>3. DOMAIN f3 = Fields /\ f3.kind = kind /\ f3.stack = find.stack
  BY <1>2 DEF Fields
<1> HIDE DEF f3
<1>4. DOMAIN f4 = Fields /\ f4.kind = kind /\ f4.stack = find.stack /\ f4.phase = "running"
  BY <1>3 DEF Fields
<1>5. Asked(kind, key, b) = [f4 EXCEPT !.pending = 1]
  BY DEF Asked, f1, f2, f3
<1> HIDE DEF f4
<1> QED
  BY <1>4, <1>5 DEF Fields


LEMMA Starts == Init => SInv
<1> SUFFICES ASSUME Init PROVE SInv
  OBVIOUS
<1>1. Scanned(scan) = {} /\ \A b \in Bus : OnWire(cycles, b) = {}
  BY DEF Init, Scanned, OnWire, Idle
<1>2. scan \in [Bus -> Scan]
  BY IdleTyped DEF Init
<1>3. Client /\ Listed /\ find.phase = "idle" /\ find.stack = <<>>
  BY DEF Init, Client, Listed, Fields
<1>4. Counted
  BY <1>1 DEF Init, Counted, Idle
<1> QED
  BY <1>1, <1>2, <1>3, <1>4 DEF Init, SInv, Typed, Separate, Apart

\* The client once it has asked, and once it was refused
LEMMA AskedClient ==
  ASSUME Client, NEW kind \in {"identity", "address", "list"}, NEW key, NEW b
  PROVE  /\ find' = Asked(kind, key, b) =>
              /\ Client' /\ find'.stack = find.stack /\ find'.phase = "running"
              /\ find'.kind = kind /\ find'.pending = 1
         /\ \A s : find' = [Asked(kind, key, b) EXCEPT !.phase = "returned", !.status = s] =>
              Client' /\ find'.stack = find.stack /\ find'.phase = "returned"
<1> DEFINE a == Asked(kind, key, b)
<1>1. DOMAIN find = Fields /\ find.stack \in Seq(Frame)
  BY DEF Client
<1>2. /\ DOMAIN a = Fields /\ a.kind = kind /\ a.phase = "running" /\ a.pending = 1
      /\ a.stack = find.stack
  BY <1>1, AskedIs
<1> HIDE DEF a
<1>3. ASSUME find' = a
      PROVE  /\ Client' /\ find'.stack = find.stack /\ find'.phase = "running"
             /\ find'.kind = kind /\ find'.pending = 1
  BY <1>1, <1>2, <1>3 DEF Client
<1>4. ASSUME NEW s, find' = [a EXCEPT !.phase = "returned", !.status = s]
      PROVE  Client' /\ find'.stack = find.stack /\ find'.phase = "returned"
  <2>1. /\ DOMAIN find' = Fields /\ find'.phase = "returned" /\ find'.kind = a.kind
        /\ find'.pending = a.pending /\ find'.stack = a.stack
    BY <1>2, <1>4 DEF Fields
  <2> QED
    BY <1>1, <1>2, <2>1 DEF Client
<1> QED
  BY <1>3, <1>4 DEF a

LEMMA FindKeeps ==
  ASSUME SInv, NEW kind \in {"identity", "address", "list"}, NEW key, Find(kind, key)
  PROVE  SInv'
<1>1. /\ find.phase = "idle" /\ Scanned(scan) = {} /\ find.stack = <<>> /\ UNCHANGED tree
      /\ Client /\ Root \in Bus /\ scan \in [Bus -> Scan] /\ tree \in Trees /\ cycles = {}
  BY NothingScanned, SdbAssumption DEF Find, SInv, Typed
<1>2. CASE /\ scan' = [scan EXCEPT ![Root] = Reading("pointer", 0, Unset)]
           /\ cycles' = {<<Root, 0>>} /\ find' = Asked(kind, key, Root)
  <2>1. Reading("pointer", 0, Unset) \in Scan /\ Reading("pointer", 0, Unset).stage = "pointer"
    BY ReadingTyped DEF Stages, Unset, Pairs
  <2>2. /\ scan' \in [Bus -> Scan] /\ scan'[Root].stage = "pointer"
        /\ \A d \in Bus \ {Root} : scan'[d] = scan[d]
    BY <1>1, <1>2, <2>1
  <2>3. Apart(tree, {Root})
    BY <1>1, RootIsTop DEF Apart
  <2>4. /\ cycles' \subseteq Bus \X (0..Top) /\ Counted' /\ Separate'
        /\ Cardinality(Scanned(scan')) = 1
    BY <1>1, <1>2, <2>2, <2>3, Begins
  <2>5. /\ Client' /\ find'.stack = <<>> /\ find'.phase = "running" /\ find'.kind = kind
        /\ find'.pending = 1
    BY <1>1, <1>2, AskedClient
  <2>6. Waiting' /\ Listed'
    BY <2>4, <2>5 DEF Waiting, Listed
  <2> QED
    BY <1>1, <2>2, <2>4, <2>5, <2>6 DEF SInv, Typed
<1>3. CASE /\ find' = [Asked(kind, key, Root) EXCEPT !.phase = "returned", !.status = "OOM"]
           /\ UNCHANGED <<scan, cycles>>
  <2>1. Client' /\ find'.stack = <<>> /\ find'.phase = "returned"
    BY <1>1, <1>3, AskedClient
  <2> QED
    BY <1>1, <1>3, <2>1 DEF SInv, Typed, Counted, Separate, Listed
<1> QED
  BY <1>2, <1>3 DEF Find

LEMMA FindAtKeeps ==
  ASSUME SInv, NEW key, NEW i \in DOMAIN tree[Root], FindAt(key, i)
  PROVE  SInv'
<1> DEFINE r == Rebased(Root, 0)[i]
<1>1. /\ find.phase = "idle" /\ Scanned(scan) = {} /\ find.stack = <<>> /\ UNCHANGED tree
      /\ Client /\ Root \in Bus /\ scan \in [Bus -> Scan] /\ tree \in Trees /\ cycles = {}
      /\ tree[Root] # NoTable /\ Unset \in Pairs
  BY NothingScanned, SdbAssumption DEF FindAt, SInv, Typed, Unset, Pairs
<1>2. CASE /\ r.type = "bridge" /\ scan' = Begun(scan, {r}, Unset) /\ cycles' = Heads({r})
           /\ find' = Asked("identity", key, r.child)
  <2>1. r.child \in Behind(tree, Root) /\ r.first \in Int
    <3>1. r.type = tree[Root][i].type /\ r.child = tree[Root][i].child /\ r.first \in Int
      BY <1>1, RebasedRecord DEF SInv
    <3> QED
      BY <1>1, <1>2, <3>1, TableOf DEF Behind
  <2> HIDE DEF r
  <2>2. /\ scan' \in [Bus -> Scan]
        /\ cycles' \subseteq Bus \X (0..Top) /\ Counted' /\ Separate'
        /\ Cardinality(Scanned(scan')) = 1
    BY <1>1, <1>2, <2>1, RootIsTop, BeginsBehind
  <2>3. /\ Client' /\ find'.stack = <<>> /\ find'.phase = "running"
        /\ find'.kind = "identity" /\ find'.pending = 1
    BY <1>1, <1>2, AskedClient
  <2>4. Waiting' /\ Listed'
    BY <2>2, <2>3 DEF Waiting, Listed
  <2> QED
    BY <1>1, <2>2, <2>3, <2>4 DEF SInv, Typed
<1>3. CASE /\ find' = [Asked("identity", key, Root) EXCEPT
                         !.phase = "returned", !.status = "ADDRESS"]
           /\ UNCHANGED <<scan, cycles>>
  <2>1. Client' /\ find'.stack = <<>> /\ find'.phase = "returned"
    BY <1>1, <1>3, AskedClient
  <2> QED
    BY <1>1, <1>3, <2>1 DEF SInv, Typed, Counted, Separate, Listed
<1> QED
  BY <1>2, <1>3 DEF FindAt

LEMMA GotPointerKeeps ==
  ASSUME SInv, NEW b \in Bus, GotPointer(b)
  PROVE  SInv'
<1>1. Runs /\ <<b, 0>> \in cycles /\ scan[b].stage = "pointer" /\ UNCHANGED tree
  BY DEF GotPointer, Answered
<1>2. b \in Scanned(scan) /\ OnWire(cycles, b) = {0}
  BY <1>1, WireOf
<1>3. CASE scan' = [scan EXCEPT ![b].stage = "header"] /\ UNCHANGED <<cycles, find>>
  <2>1. scan \in [Bus -> Scan] /\ cycles \subseteq Bus \X (0..Top)
    BY DEF SInv, Typed
  <2>2. [scan[b] EXCEPT !.stage = "header"] \in Scan
        /\ [scan[b] EXCEPT !.stage = "header"].stage = "header"
    BY <2>1, ScanChanged DEF Stages
  <2>3. /\ scan' \in [Bus -> Scan] /\ scan'[b].stage = "header"
        /\ \A d \in Bus \ {b} : scan'[d] = scan[d]
    BY <1>3, <2>1, <2>2
  <2>4. \A d \in Bus \ {b} : scan'[d] = scan[d] /\ OnWire(cycles', d) = OnWire(cycles, d)
    BY <1>3, <2>3
  <2> QED
    BY <1>1, <1>2, <1>3, <2>1, <2>3, <2>4, Proceeds
<1>4. CASE \E s : Failed(b, s, cycles \ {<<b, 0>>})
  BY <1>1, <1>2, <1>4, FailedKeeps
<1> QED
  BY <1>3, <1>4 DEF GotPointer, Ruin

LEMMA GotHeaderKeeps ==
  ASSUME SInv, NEW b \in Bus, GotHeader(b)
  PROVE  SInv'
<1> DEFINE rest == cycles \ {<<b, 0>>}
           parts == 0..Len(tree[b])
           one(F) == [scan[b] EXCEPT !.stage = "table"]
           two(F) == [one(F) EXCEPT !.pending = StillPending(Len(tree[b]) + 1, F)]
           three(F) == [two(F) EXCEPT !.status = IF F = {} THEN "OK" ELSE "OOM"]
<1>1. Runs /\ <<b, 0>> \in cycles /\ scan[b].stage = "header" /\ UNCHANGED tree
  BY DEF GotHeader, Answered
<1>2. b \in Scanned(scan) /\ OnWire(cycles, b) = {0}
  BY <1>1, WireOf
<1>3. CASE \E s : Failed(b, s, rest)
  BY <1>1, <1>2, <1>3, FailedKeeps
<1>4. CASE /\ tree[b] # NoTable /\ UNCHANGED find
           /\ \E F \in SUBSET parts :
                /\ F # parts
                /\ scan' = [scan EXCEPT ![b] = three(F)]
                /\ cycles' = rest \cup {<<b, q>> : q \in parts \ F}
  <2>1. PICK F \in SUBSET parts :
                /\ F # parts
                /\ scan' = [scan EXCEPT ![b] = three(F)]
                /\ cycles' = rest \cup {<<b, q>> : q \in parts \ F}
    BY <1>4
  <2>2. /\ scan \in [Bus -> Scan] /\ cycles \subseteq Bus \X (0..Top) /\ tree \in Trees
        /\ Top \in Nat
    BY SdbAssumption DEF SInv, Typed
  <2>3. Len(tree[b]) \in 0..Top
    BY <1>4, <2>2, TableOf
  <2>4. parts \subseteq 0..Top
    BY <2>2, <2>3
  <2>5. /\ IsFiniteSet(parts) /\ Cardinality(parts) = Len(tree[b]) + 1
    <3> DEFINE n == Len(tree[b])
    <3>1. n \in Int /\ 0 \in Int /\ n >= 0
      BY <2>3
    <3> HIDE DEF n
    <3>2. IsFiniteSet(0..n) /\ Cardinality(0..n) = n + 1
      BY ONLY <3>1, FS_Interval
    <3> QED
      BY <3>2 DEF n
  <2> DEFINE left == parts \ F
  <2>6. IsFiniteSet(F) /\ IsFiniteSet(left) /\ left # {}
    <3>1. left \in SUBSET parts /\ F \in SUBSET parts
      OBVIOUS
    <3>2. left # {}
      BY <2>1
    <3> HIDE DEF parts, left
    <3> QED
      BY ONLY <2>5, <3>1, <3>2, FS_Subset
  <2>7. Cardinality(left) = Len(tree[b]) + 1 - Cardinality(F)
    <3>1. parts \cap F = F
      OBVIOUS
    <3>2. Cardinality(left) = Cardinality(parts) - Cardinality(parts \cap F)
      <4> HIDE DEF parts
      <4> QED
        BY ONLY <2>5, FS_Difference
    <3>3. Cardinality(parts \cap F) = Cardinality(F)
      BY ONLY <3>1, Zenon
    <3>4. Len(tree[b]) \in Int /\ Cardinality(F) \in Int
      BY <2>3, <2>6, FS_CardinalityType
    <3> HIDE DEF left, parts
    <3> QED
      BY ONLY <2>5, <3>2, <3>3, <3>4
  <2>8. Cardinality(left) \in Nat /\ Cardinality(left) # 0
    <3> HIDE DEF left
    <3> QED
      BY ONLY <2>6, FS_CardinalityType, FS_EmptySet
  <2>9. StillPending(Len(tree[b]) + 1, F) = Cardinality(left)
    <3>1. Len(tree[b]) \in Int /\ Cardinality(F) \in Int
      BY <2>3, <2>6, FS_CardinalityType
    <3> HIDE DEF left
    <3> QED
      BY ONLY <2>7, <3>1 DEF StillPending
  <2>10. three(F) \in Scan /\ three(F).stage = "table" /\ three(F).pending = Cardinality(left)
    <3>1. one(F) \in Scan /\ one(F).stage = "table"
      BY <2>2, ScanChanged DEF Stages
    <3> HIDE DEF one
    <3>2. /\ two(F) \in Scan /\ two(F).stage = "table"
          /\ two(F).pending = Cardinality(left)
      BY <2>8, <2>9, <3>1, ScanChanged
    <3> HIDE DEF two
    <3> QED
      BY <3>2, ScanChanged
  <2> HIDE DEF three
  <2>11. /\ scan' \in [Bus -> Scan] /\ scan'[b] = three(F)
         /\ \A d \in Bus \ {b} : scan'[d] = scan[d]
    BY <2>1, <2>2, <2>10
  <2>12. cycles' \subseteq Bus \X (0..Top)
    BY <2>1, <2>2, <2>4
  <2>13. OnWire(cycles', b) = left
    <3>1. \A q \in 0..Top : <<b, q>> \in rest => FALSE
      BY <1>2 DEF OnWire
    <3> QED
      BY <2>1, <2>4, <3>1 DEF OnWire
  <2>14. \A d \in Bus \ {b} : OnWire(cycles', d) = OnWire(cycles, d)
    BY <2>1 DEF OnWire
  <2>15. /\ scan'[b].stage = "table" /\ tree[b] # NoTable
         /\ scan'[b].pending = Cardinality(OnWire(cycles', b)) /\ scan'[b].pending > 0
    <3>1. Cardinality(OnWire(cycles', b)) = Cardinality(left)
      BY ONLY <2>13, Zenon
    <3> HIDE DEF left
    <3> QED
      BY <1>4, <2>8, <2>10, <2>11, <3>1
  <2> QED
    BY <1>1, <1>2, <1>4, <2>11, <2>12, <2>14, <2>15, Proceeds
<1>5. QED
  <2>1. ASSUME NEW F, scan' = [scan EXCEPT
                          ![b].stage   = "table",
                          ![b].pending = StillPending(Len(tree[b]) + 1, F),
                          ![b].status  = IF F = {} THEN "OK" ELSE "OOM"]
        PROVE  scan' = [scan EXCEPT ![b] = three(F)]
    BY <2>1 DEF SInv, Typed
  <2> HIDE DEF three
  <2> QED
    BY <1>3, <1>4, <2>1 DEF GotHeader, Ruin

LEMMA GotRecordKeeps ==
  ASSUME SInv, NEW b \in Bus, NEW p \in 0..Top, GotRecord(b, p)
  PROVE  SInv'
<1> DEFINE rest == cycles \ {<<b, p>>}
           less == [scan[b] EXCEPT !.pending = @ - 1]
<1>1. Runs /\ <<b, p>> \in cycles /\ scan[b].stage = "table" /\ UNCHANGED tree
  BY DEF GotRecord, Answered
<1>2. b \in Scanned(scan) /\ p \in OnWire(cycles, b)
  BY <1>1, WireOf
<1>3. /\ scan \in [Bus -> Scan] /\ cycles \subseteq Bus \X (0..Top) /\ tree[b] # NoTable
      /\ scan[b].pending = Cardinality(OnWire(cycles, b)) /\ Top \in Nat
  BY <1>1, SdbAssumption DEF SInv, Typed, Counted
<1>4. CASE /\ scan[b].pending > 1 /\ UNCHANGED find /\ cycles' = rest
           /\ \/ scan' = [scan EXCEPT ![b] = less]
              \/ \E s \in Reasons \cup {"OOM"} :
                   scan' = [scan EXCEPT ![b] = [less EXCEPT !.status = s]]
              \/ scan' = [scan EXCEPT ![b] = [less EXCEPT !.damaged = TRUE]]
  <2>1. PICK new : /\ scan' = [scan EXCEPT ![b] = new]
                   /\ \/ new = less
                      \/ \E s \in Reasons \cup {"OOM"} : new = [less EXCEPT !.status = s]
                      \/ new = [less EXCEPT !.damaged = TRUE]
    BY <1>4
  <2>2. scan[b].pending \in Int /\ scan[b] \in Scan
    BY <1>3 DEF Scan
  <2>3. less \in Scan /\ less.stage = "table" /\ less.pending = scan[b].pending - 1
    BY <1>1, <2>2, ScanChanged
  <2> HIDE DEF less
  <2>4. new \in Scan /\ new.stage = "table" /\ new.pending = scan[b].pending - 1
    <3>1. CASE new = less
      BY <2>3, <3>1
    <3>2. CASE \E s \in Reasons \cup {"OOM"} : new = [less EXCEPT !.status = s]
      BY <2>3, <3>2, ScanChanged
    <3>3. CASE new = [less EXCEPT !.damaged = TRUE]
      BY <2>3, <3>3, ScanChanged
    <3> QED
      BY <2>1, <3>1, <3>2, <3>3
  <2>5. OnWire(cycles', b) = OnWire(cycles, b) \ {p}
    BY <1>4 DEF OnWire
  <2>6. \A d \in Bus \ {b} : OnWire(cycles', d) = OnWire(cycles, d)
    BY <1>4 DEF OnWire
  <2>7. Cardinality(OnWire(cycles, b) \ {p}) = Cardinality(OnWire(cycles, b)) - 1
    <3>1. IsFiniteSet(OnWire(cycles, b))
      <4>1. 0 \in Int /\ Top \in Int /\ OnWire(cycles, b) \in SUBSET (0..Top)
        BY <1>3 DEF OnWire
      <4> QED
        BY ONLY <4>1, FS_Interval, FS_Subset
    <3> QED
      BY ONLY <1>2, <3>1, FS_RemoveElement
  <2>8. Cardinality(OnWire(cycles', b)) = Cardinality(OnWire(cycles, b) \ {p})
    BY ONLY <2>5, Zenon
  <2>9. /\ scan' \in [Bus -> Scan] /\ scan'[b] = new
        /\ \A d \in Bus \ {b} : scan'[d] = scan[d]
    BY <1>3, <2>1, <2>4
  <2>10. /\ scan'[b].stage = "table" /\ tree[b] # NoTable
         /\ scan'[b].pending = Cardinality(OnWire(cycles', b)) /\ scan'[b].pending > 0
    BY <1>3, <1>4, <2>2, <2>4, <2>7, <2>8, <2>9
  <2>11. cycles' \subseteq Bus \X (0..Top)
    BY <1>3, <1>4
  <2> QED
    BY <1>1, <1>2, <1>4, <2>6, <2>9, <2>10, <2>11, Proceeds
<1>5. CASE /\ ~(scan[b].pending > 1)
           /\ \E s : \/ Failed(b, s, rest) \/ Identify(b, s, rest)
                     \/ Locate(b, s, rest) \/ List(b, s, rest)
  <2>1. OnWire(cycles, b) = {p}
    <3>1. scan[b].pending <= 1
      BY <1>3, <1>5 DEF Scan
    <3> QED
      BY <1>1, <3>1, WireOf
  <2>2. PICK s : \/ Failed(b, s, rest) \/ Identify(b, s, rest)
                 \/ Locate(b, s, rest) \/ List(b, s, rest)
    BY <1>5
  <2>3. CASE Failed(b, s, rest)
    BY <1>1, <1>2, <2>1, <2>3, FailedKeeps
  <2>4. CASE Identify(b, s, rest)
    BY <1>1, <1>2, <1>3, <2>1, <2>4, IdentifyKeeps
  <2>5. CASE Locate(b, s, rest)
    BY <1>1, <1>2, <1>3, <2>1, <2>5, LocateKeeps
  <2>6. CASE List(b, s, rest)
    BY <1>1, <1>2, <1>3, <2>1, <2>6, ListKeeps
  <2> QED
    BY <2>2, <2>3, <2>4, <2>5, <2>6
<1>6. QED
  <2>1. CASE scan[b].pending > 1
    <3>1. ASSUME scan' = [scan EXCEPT ![b].pending = @ - 1]
          PROVE  scan' = [scan EXCEPT ![b] = less]
      BY <1>3, <3>1
    <3>2. ASSUME NEW s, scan' = [scan EXCEPT ![b].pending = @ - 1, ![b].status = s]
          PROVE  scan' = [scan EXCEPT ![b] = [less EXCEPT !.status = s]]
      BY <1>3, <3>2
    <3>3. ASSUME scan' = [scan EXCEPT ![b].pending = @ - 1, ![b].damaged = TRUE]
          PROVE  scan' = [scan EXCEPT ![b] = [less EXCEPT !.damaged = TRUE]]
      BY <1>3, <3>3
    <3> HIDE DEF less
    <3> QED
      BY <1>4, <2>1, <3>1, <3>2, <3>3 DEF GotRecord
  <2>2. CASE ~(scan[b].pending > 1)
    BY <1>5, <2>2 DEF GotRecord, Deliver, Ruin
  <2> QED
    BY <2>1, <2>2

LEMMA ReturnKeeps == ASSUME SInv, Return PROVE SInv'
<1>1. /\ find.kind \in {"identity", "address"} /\ find.phase = "running"
      /\ find.pending <= 0 /\ find' = [find EXCEPT !.phase = "returned"]
      /\ UNCHANGED <<tree, scan, cycles>>
  BY DEF Return
<1>2. Waiting /\ Client
  BY <1>1 DEF SInv, Typed
<1>3. Scanned(scan) = {}
  <2>1. CASE find.kind = "identity"
    <3>1. Cardinality(Scanned(scan)) \in Nat /\ Cardinality(Scanned(scan)) <= 0
      BY <1>1, <1>2, <2>1, ScannedFinite DEF Waiting
    <3>2. Cardinality(Scanned(scan)) = 0
      BY ONLY <3>1
    <3> QED
      BY ONLY <3>2, ScannedFinite, FS_EmptySet
  <2>2. CASE find.kind = "address"
    BY <1>1, <1>2, <2>2 DEF Waiting
  <2> QED
    BY <1>1, <2>1, <2>2
<1>4. Client' /\ find'.stack = find.stack /\ find'.phase = "returned"
  BY <1>1, <1>2 DEF Client, Fields
<1> QED
  BY <1>1, <1>3, <1>4 DEF SInv, Typed, Counted, Separate, Listed

\* The topmost frame of the listing, when it waits for nothing
LEMMA Topmost ==
  ASSUME SInv, find.kind = "list", find.phase = "running", find.stack # <<>>,
         Last(find.stack).stop
  PROVE  /\ Scanned(scan) = {} /\ Client /\ Len(find.stack) \in Nat \ {0}
         /\ Last(find.stack) = find.stack[Len(find.stack)] /\ Last(find.stack) \in Frame
         /\ tree \in Trees /\ Last(find.stack).bus \in Bus
         /\ tree[Last(find.stack).bus] # NoTable
         /\ Last(find.stack).bus \notin Below(tree, Last(find.stack).bus)
<1>1. Client /\ Waiting /\ find.stack \in Seq(Frame) /\ tree \in Trees
  BY DEF SInv, Typed, Client
<1>2. Len(find.stack) \in Nat \ {0} /\ Last(find.stack) = find.stack[Len(find.stack)]
  BY <1>1 DEF Last
<1>3. Last(find.stack) \in Frame
  BY <1>1, <1>2
<1>4. Scanned(scan) = {}
  BY <1>1, <1>2 DEF Waiting
<1>5. LET b == find.stack[Len(find.stack)].bus
      IN  tree[b] # NoTable /\ b \notin Below(tree, b)
  BY <1>2 DEF SInv, Listed
<1> QED
  BY <1>1, <1>2, <1>3, <1>4, <1>5 DEF Frame

\* A frame is replaced by one for the same bus.
LEMMA FrameReplaced ==
  ASSUME Listed, Client, UNCHANGED tree, Len(find.stack) \in Nat \ {0},
         NEW f \in Frame, f.bus = find.stack[Len(find.stack)].bus,
         find'.stack = [find.stack EXCEPT ![Len(find.stack)] = f],
         DOMAIN find' = Fields, find'.kind = find.kind, find'.phase = find.phase,
         find'.pending = find.pending
  PROVE  /\ Client' /\ Listed' /\ Len(find'.stack) = Len(find.stack)
         /\ find'.stack[Len(find'.stack)] = f
<1> DEFINE s == find.stack
           t == [s EXCEPT ![Len(s)] = f]
<1>1. s \in Seq(Frame) /\ Len(s) \in 1..Len(s)
  BY DEF Client
<1> HIDE DEF s
<1>2. /\ t \in Seq(Frame) /\ Len(t) = Len(s) /\ t[Len(s)] = f
      /\ \A k \in 1..Len(s) : k # Len(s) => t[k] = s[k]
  BY <1>1
<1>3. \A k \in 1..Len(s) : t[k].bus = s[k].bus
  BY <1>2 DEF s
<1>4. find'.stack = t
  BY DEF s
<1> HIDE DEF t
<1>5. Client'
  BY <1>2, <1>4 DEF Client
<1>6. Listed'
  BY <1>2, <1>3, <1>4 DEF Listed, s
<1> QED
  BY <1>2, <1>4, <1>5, <1>6 DEF s

LEMMA PrintRecordKeeps == ASSUME SInv, PrintRecord PROVE SInv'
<1> DEFINE f == Last(find.stack)
           r == Rebased(f.bus, f.base)[f.at]
           n == Len(find.stack)
           next == [f EXCEPT !.at = @ + 1]
           stops == [next EXCEPT !.stop = FALSE]
           waits == [stops EXCEPT !.asked = <<r.first, r.last>>]
           printed == [find EXCEPT
             !.output = Append(@, [bus |-> f.bus, at |-> f.at, first |-> r.first,
                                   window |-> f.window]),
             !.stack[Len(find.stack)].at = @ + 1]
           waiting == [printed EXCEPT
             !.stack[Len(find.stack)].stop = FALSE,
             !.stack[Len(find.stack)].asked = <<r.first, r.last>>]
<1>1. /\ find.kind = "list" /\ find.phase = "running" /\ find.stack # <<>> /\ f.stop
      /\ f.at <= Len(tree[f.bus]) /\ UNCHANGED tree
  BY DEF PrintRecord, More
<1>2. /\ Scanned(scan) = {} /\ Client /\ n \in Nat \ {0} /\ f = find.stack[n] /\ f \in Frame
      /\ tree \in Trees /\ f.bus \in Bus /\ tree[f.bus] # NoTable
      /\ f.bus \notin Below(tree, f.bus)
  BY <1>1, Topmost
<1>3. f.at \in DOMAIN tree[f.bus] /\ f.base \in Int /\ f.window \in Pairs /\ f.at \in Nat \ {0}
  BY <1>1, <1>2, TableOf DEF Frame
<1>4. /\ r.type = tree[f.bus][f.at].type /\ r.child = tree[f.bus][f.at].child
      /\ r.first \in Int /\ r.last \in Int
  BY <1>2, <1>3, RebasedRecord DEF SInv
<1>5. next \in Frame /\ next.bus = f.bus /\ next.stop = f.stop
  <2>1. f.at + 1 \in Nat \ {0}
    BY <1>3
  <2> HIDE DEF f
  <2> QED
    BY <1>2, <2>1, FrameChanged
<1>6. waits \in Frame /\ waits.bus = f.bus /\ waits.stop = FALSE
  <2> HIDE DEF next
  <2>1. stops \in Frame /\ stops.bus = f.bus /\ stops.stop = FALSE
    BY <1>5, FrameChanged
  <2>2. <<r.first, r.last>> \in Pairs
    BY <1>4 DEF Pairs
  <2> HIDE DEF stops
  <2> QED
    BY <2>1, <2>2, FrameChanged
<1>7. /\ DOMAIN printed = Fields /\ printed.stack = [find.stack EXCEPT ![n] = next]
      /\ printed.kind = find.kind /\ printed.phase = find.phase
      /\ printed.pending = find.pending
  <2>1. DOMAIN find = Fields /\ find.stack \in Seq(Frame) /\ n \in DOMAIN find.stack
    BY <1>2 DEF Client
  <2>2. [find.stack EXCEPT ![n].at = @ + 1] = [find.stack EXCEPT ![n] = next]
    BY <1>2, <2>1
  <2> HIDE DEF next, r, f
  <2> QED
    BY <2>1, <2>2 DEF Fields
<1>8. /\ DOMAIN waiting = Fields /\ waiting.stack = [find.stack EXCEPT ![n] = waits]
      /\ waiting.kind = find.kind /\ waiting.phase = find.phase
      /\ waiting.pending = find.pending
  <2> HIDE DEF printed
  <2>1. n \in DOMAIN find.stack /\ find.stack \in Seq(Frame)
    BY <1>2 DEF Client
  <2> DEFINE one == [find.stack EXCEPT ![n] = next]
             two == [find.stack EXCEPT ![n] = stops]
  <2>2. [one EXCEPT ![n].stop = FALSE] = two
    <3> HIDE DEF next
    <3> QED
      BY <2>1
  <2>3. [two EXCEPT ![n].asked = <<r.first, r.last>>] = [find.stack EXCEPT ![n] = waits]
    <3> HIDE DEF stops
    <3> QED
      BY <2>1
  <2> DEFINE stopped == [printed EXCEPT !.stack[Len(find.stack)].stop = FALSE]
  <2>4. waiting = [stopped EXCEPT !.stack[Len(find.stack)].asked = <<r.first, r.last>>]
    OBVIOUS
  <2>5. /\ DOMAIN stopped = Fields /\ stopped.stack = two
        /\ stopped.kind = find.kind /\ stopped.phase = find.phase
        /\ stopped.pending = find.pending
    <3> HIDE DEF two, one
    <3>1. /\ DOMAIN stopped = Fields /\ stopped.stack = [printed.stack EXCEPT ![n].stop = FALSE]
          /\ stopped.kind = printed.kind /\ stopped.phase = printed.phase
          /\ stopped.pending = printed.pending
      BY <1>7 DEF Fields
    <3> QED
      BY <1>7, <2>2, <3>1 DEF one
  <2> HIDE DEF stopped, waiting, waits, two
  <2>6. /\ DOMAIN waiting = Fields
        /\ waiting.stack = [stopped.stack EXCEPT ![n].asked = <<r.first, r.last>>]
        /\ waiting.kind = stopped.kind /\ waiting.phase = stopped.phase
        /\ waiting.pending = stopped.pending
    BY <2>4, <2>5 DEF Fields
  <2> QED
    BY <2>3, <2>5, <2>6
<1> HIDE DEF next, stops, waits, printed, waiting
<1>9. CASE find' = printed /\ UNCHANGED <<scan, cycles>>
  <2>1. /\ Client' /\ Listed' /\ find'.kind = find.kind /\ find'.phase = find.phase
    BY <1>1, <1>2, <1>5, <1>7, <1>9, FrameReplaced DEF SInv
  <2>2. Waiting'
    BY <1>1, <1>2, <1>9, <2>1 DEF Waiting
  <2> QED
    BY <1>1, <1>2, <1>9, <2>1, <2>2 DEF SInv, Typed, Counted, Separate
<1>10. ASSUME find' = waiting
       PROVE  /\ Client' /\ Listed' /\ find'.kind = "list" /\ find'.phase = "running"
              /\ ~find'.stack[Len(find'.stack)].stop
  <2>1. /\ Client' /\ Listed' /\ find'.kind = find.kind /\ find'.phase = find.phase
        /\ find'.stack[Len(find'.stack)] = waits
    BY <1>1, <1>2, <1>6, <1>8, <1>10, FrameReplaced DEF SInv
  <2> QED
    BY <1>1, <1>6, <2>1
<1>11. CASE /\ find' = waiting /\ r.type = "bridge"
            /\ scan' = Begun(scan, {r}, f.window) /\ cycles' = cycles \cup Heads({r})
  <2>1. r.child \in Behind(tree, f.bus)
    BY <1>2, <1>3, <1>4, <1>11, TableOf DEF Behind
  <2> HIDE DEF r, f
  <2>2. /\ scan' \in [Bus -> Scan]
        /\ cycles' \subseteq Bus \X (0..Top) /\ Counted' /\ Separate'
        /\ Cardinality(Scanned(scan')) = 1
    BY <1>1, <1>2, <1>3, <1>4, <1>11, <2>1, BeginsBehind
  <2>3. Waiting'
    BY <1>10, <1>11, <2>2 DEF Waiting
  <2> QED
    BY <1>1, <1>2, <1>10, <1>11, <2>2, <2>3 DEF SInv, Typed
<1>12. CASE find' = waiting /\ UNCHANGED <<scan, cycles>>
  <2>1. Waiting'
    BY <1>2, <1>10, <1>12 DEF Waiting
  <2> QED
    BY <1>1, <1>2, <1>10, <1>12, <2>1 DEF SInv, Typed, Counted, Separate
<1>13. QED
  BY <1>9, <1>11, <1>12 DEF PrintRecord, printed, waiting

LEMMA ListReturnsKeeps == ASSUME SInv, ListReturns PROVE SInv'
<1> DEFINE s == find.stack
<1>1. /\ find.kind = "list" /\ find.phase = "running" /\ s # <<>> /\ Last(s).stop
      /\ find' = [find EXCEPT !.stack = Front(@),
                              !.phase = IF Len(find.stack) = 1 THEN "returned" ELSE @]
      /\ UNCHANGED <<tree, scan, cycles>>
  BY DEF ListReturns
<1>2. Scanned(scan) = {} /\ Client /\ Len(s) \in Nat \ {0} /\ s \in Seq(Frame)
  BY <1>1, Topmost DEF Client
<1>3. Front(s) \in Seq(Frame) /\ \A k \in 1..Len(Front(s)) : k \in 1..Len(s) /\ Front(s)[k] = s[k]
  BY <1>2 DEF Front
<1>4. /\ Client' /\ find'.stack = Front(s) /\ find'.kind = "list"
      /\ find'.phase \in {"running", "returned"}
  BY <1>1, <1>2, <1>3 DEF Client, Fields
<1>5. Listed'
  BY <1>1, <1>3, <1>4 DEF SInv, Listed
<1>6. Waiting'
  BY <1>1, <1>2, <1>4 DEF Waiting
<1> QED
  BY <1>1, <1>2, <1>4, <1>5, <1>6 DEF SInv, Typed, Counted, Separate

LEMMA StepKeeps == ASSUME SInv, [Next]_vars PROVE SInv'
<1>1. CASE UNCHANGED vars
  BY <1>1 DEF vars, SInv, Typed, Client, Counted, Separate, Waiting, Listed
<1>2. CASE \E k \in Ids : Find("identity", k)
  BY <1>2, FindKeeps
<1>3. CASE \E a \in Places : Find("address", a)
  BY <1>3, FindKeeps
<1>4. CASE Find("list", 0)
  BY <1>4, FindKeeps
<1>5. CASE \E k \in Ids : \E i \in DOMAIN tree[Root] : FindAt(k, i)
  BY <1>5, FindAtKeeps
<1>6. CASE \E b \in Bus : GotPointer(b)
  BY <1>6, GotPointerKeeps
<1>7. CASE \E b \in Bus : GotHeader(b)
  BY <1>7, GotHeaderKeeps
<1>8. CASE \E b \in Bus : \E p \in 0..Top : GotRecord(b, p)
  BY <1>8, GotRecordKeeps
<1>9. CASE Return
  BY <1>9, ReturnKeeps
<1>10. CASE PrintRecord
  BY <1>10, PrintRecordKeeps
<1>11. CASE ListReturns
  BY <1>11, ListReturnsKeeps
<1> QED
  BY <1>1, <1>2, <1>3, <1>4, <1>5, <1>6, <1>7, <1>8, <1>9, <1>10, <1>11
  DEF Next, Progress

THEOREM Invariance == Spec => []SInv
<1>1. SInv /\ [Next]_vars => SInv'
  BY StepKeeps
<1> QED
  BY <1>1, Starts, PTL DEF Spec

\* When a search has returned, no cycle of a scan is on the wire and no scan is under
\* way that could still write to the caller's stack.  (eb_sdb_find_by_identity_real,
\* eb_sdb_find_by_address_msi, tools/eb-ls.c)
THEOREM NothingOutlives == Spec => []NothingOutlivesTheSearch
<1>1. SInv => NothingOutlivesTheSearch
  BY NothingScanned DEF SInv, NothingOutlivesTheSearch
<1> QED
  BY <1>1, Invariance, PTL

-----------------------------------------------------------------------------
(* The programs that use a search (EbTools).                               *)

LEMMA ScansInTools == ToolsSpec => []SInv
<1>1. ToolsInit => SInv
  BY Starts DEF ToolsInit
<1>2. SInv /\ [ToolsNext]_toolsVars => SInv'
  <2> SUFFICES ASSUME SInv, [ToolsNext]_toolsVars PROVE SInv'
    OBVIOUS
  <2>1. CASE UNCHANGED sdbVars
    BY <2>1 DEF sdbVars, SInv, Typed, Client, Counted, Separate, Waiting, Listed
  <2>2. CASE Next
    BY <2>2, StepKeeps
  <2>3. [ToolsNext]_toolsVars => Next \/ UNCHANGED sdbVars
    BY DEF ToolsNext, Start, Advances, Lead, Batch, Trail, Ends, Access, Merge, Prints,
       Waited, Transferred, Stops, Lost, Late, toolsVars, vars, sdbVars
  <2> QED
    BY <2>1, <2>2, <2>3
<1> QED
  BY <1>1, <1>2, PTL DEF ToolsSpec

\* The same while one of the programs that move data runs, which searches first and
\* goes on with what it found.  (main of eb-put.c, eb-get.c, eb-read.c, eb-write.c)
THEOREM NothingOutlivesInTools == ToolsSpec => []NothingOutlivesTheSearch
<1>1. SInv => NothingOutlivesTheSearch
  BY NothingScanned DEF SInv, NothingOutlivesTheSearch
<1> QED
  BY <1>1, ScansInTools, PTL

-----------------------------------------------------------------------------
(* The range of a transfer.                                                *)

\* What an operation of eb-put may write, and that eb-get writes nothing
Fits(o) ==
  /\ o.at \in Nat /\ o.size \in Nat
  /\ cmd.tool = "put" => cmd.at <= o.at /\ o.at + o.size <= End
  /\ cmd.tool = "get" => o.data = <<>>

AllFit(cs) == \A c \in cs : \A k \in DOMAIN c : Fits(c[k])

RangeInv ==
  /\ cmd = NoCommand \/ cmd \in Command
  /\ run = "idle" => wire = {} /\ written = Empty
  /\ Transfers(cmd) =>
       /\ run # "idle" /\ pos \in Nat /\ cmd.at <= pos
       /\ run # "failed" => form.sizes \subseteq Width /\ form.sizes # {}
       /\ run \in {"lead", "bulk", "last", "done", "failed"}
       /\ AllFit(wire)
       /\ OnlyItsRange

LEMMA SizesBounded ==
  ASSUME form.sizes \subseteq Width, form.sizes # {}
  PROVE  Bulk \in Width /\ Edge \in Width
<1> DEFINE S == form.sizes
<1>1. \E x \in S : \A y \in S : x >= y
  BY DEF Width
<1>2. \E x \in S : \A y \in S : x <= y
  BY DEF Width
<1> QED
  BY <1>1, <1>2 DEF Bulk, Edge, Max, Min

LEMMA Lesser ==
  ASSUME NEW n \in Nat, NEW m \in Nat
  PROVE  Min({n, m}) \in Nat /\ Min({n, m}) <= n /\ Min({n, m}) <= m
<1>1. \E x \in {n, m} : \A y \in {n, m} : x <= y
  OBVIOUS
<1> QED
  BY <1>1 DEF Min

LEMMA Rounded ==
  ASSUME NEW a \in Nat, NEW s \in Width
  PROVE  /\ Down(a, s) \in Nat /\ Down(a, s) <= a
         /\ Up(a, s) \in Nat /\ a <= Up(a, s)
BY DEF Down, Up, Width

\* n whole words fit where n * s bytes do.
LEMMA WordsFit ==
  ASSUME NEW d \in Nat, NEW s \in Width, NEW n \in Nat, n <= d \div s
  PROVE  d \div s \in Nat /\ n * s \in Nat /\ n * s <= d
<1>1. CASE s = 1
  BY <1>1
<1>2. CASE s = 2
  BY <1>2
<1>3. CASE s = 4
  BY <1>3
<1>4. CASE s = 8
  BY <1>4
<1> QED
  BY <1>1, <1>2, <1>3, <1>4 DEF Width

\* Every cycle of a transfer begins in it.
LEMMA SplitParts ==
  ASSUME NEW s \in Width, NEW n \in Nat \ {0}, NEW from \in Nat, NEW to \in Nat,
         NEW c \in Split(from, to, s, n)
  PROVE  \E x \in from .. to - 1 : c = Transfer(x, s, Min({n, (to - x) \div s}))
<1>1. PICK i \in 0 .. to - from :
        /\ from + i * (s * n) < to
        /\ c = Transfer(from + i * (s * n), s, Min({n, (to - (from + i * (s * n))) \div s}))
  BY DEF Split
<1>2. s * n \in Nat
  BY DEF Width
<1>3. i * (s * n) \in Nat
  BY <1>2
<1> DEFINE x == from + i * (s * n)
<1>4. x \in from .. to - 1
  BY <1>1, <1>3
<1> WITNESS x \in from .. to - 1
<1> QED
  BY <1>1

LEMMA SplitFits ==
  ASSUME RangeInv, Transfers(cmd), NEW s \in Width, NEW n \in Nat \ {0},
         NEW from \in Nat, NEW to \in Nat, cmd.at <= from, ~ShortRead(to)
  PROVE  AllFit(Split(from, to, s, n))
<1> SUFFICES ASSUME NEW c \in Split(from, to, s, n), NEW k \in DOMAIN c
             PROVE  Fits(c[k])
  BY DEF AllFit
<1> PICK x \in from .. to - 1 : c = Transfer(x, s, Min({n, (to - x) \div s}))
  BY SplitParts
<1> DEFINE m == Min({n, (to - x) \div s})
          at == x + (k - 1) * s
<1>1. (to - x) \div s \in Nat
  BY DEF Width
<1>2. m \in Nat /\ m <= (to - x) \div s
  BY <1>1, Lesser
<1>3. k \in 1..m
  BY <1>2 DEF Transfer
<1>4. k * s \in Nat /\ k * s <= to - x
  BY <1>1, <1>2, <1>3, WordsFit
<1>5. at \in Nat /\ at + s = x + k * s /\ x <= at
  BY <1>3, <1>4 DEF Width
<1>6. Transfer(x, s, m)[k] =
        IF cmd.tool = "get" THEN Read(at, s)
        ELSE Write(at, s, Word([j \in 1..s |-> Firmware(at - cmd.at + j - 1)]))
  BY <1>3 DEF Transfer
<1>7. cmd \in Command
  BY DEF RangeInv, Transfers, NoCommand
<1>8. cmd.tool = "put" => cmd.at <= at /\ at + s <= End
  BY <1>4, <1>5, <1>7 DEF ShortRead, End, Command
<1> QED
  BY <1>5, <1>6, <1>8 DEF Fits, Read, Write, Width

LEMMA Untouched ==
  ASSUME RangeInv, Transfers(cmd), NEW c \in wire, NEW bad \in SUBSET DOMAIN c
  PROVE  /\ cmd.tool = "put" => DOMAIN Performed(c, bad) \subseteq cmd.at .. End - 1
         /\ cmd.tool = "get" => Performed(c, bad) = Empty
<1>1. \A k \in DOMAIN c : Fits(c[k])
  BY DEF RangeInv, AllFit
<1>2. cmd \in Command /\ OnlyItsRange
  BY DEF RangeInv, Transfers, NoCommand
<1> DEFINE hit(k) == {a \in c[k].at .. c[k].at + c[k].size - 1 : Touches(c[k], a)}
          all == UNION {hit(k) : k \in DOMAIN c \ bad}
<1>3. DOMAIN Performed(c, bad) = DOMAIN written \cup all
  BY DEF Performed
<1>4. CASE cmd.tool = "put"
  <2>1. all \subseteq cmd.at .. End - 1
    <3> SUFFICES ASSUME NEW k \in DOMAIN c, NEW a \in hit(k) PROVE a \in cmd.at .. End - 1
      OBVIOUS
    <3> QED
      BY <1>1, <1>2, <1>4 DEF Fits, End, Command
  <2> QED
    BY <1>2, <1>3, <1>4, <2>1 DEF OnlyItsRange
<1>5. CASE cmd.tool = "get"
  <2>1. all = {}
    BY <1>1, <1>5 DEF Fits, Touches
  <2>2. DOMAIN Performed(c, bad) = {}
    BY <1>2, <1>3, <1>5, <2>1 DEF OnlyItsRange, Empty
  <2>3. Performed(c, bad) = [a \in {} |-> 0]
    BY <2>2 DEF Performed
  <2> QED
    BY <1>5, <2>3 DEF Empty
<1> QED
  BY <1>4, <1>5 DEF Transfers

LEMMA StartKeepsRange == ASSUME RangeInv, NEW c \in Commands, Start(c) PROVE RangeInv'
<1>1. /\ run = "idle" /\ wire = {} /\ written = Empty /\ wire' = {} /\ written' = Empty
      /\ cmd' = c /\ c \in Command /\ pos' = c.at /\ run' # "idle"
  BY ToolsAssumption DEF Start, RangeInv
<1>2. Transfers(c) => /\ run' \in {"failed", "lead"}
                      /\ run' # "failed" => form'.sizes \subseteq Width /\ form'.sizes # {}
  <2>1. CASE run' = "failed" /\ UNCHANGED form
    BY <2>1
  <2>2. CASE \E w \in Lines :
          /\ form' = [line |-> w, endian |-> Order(c), sizes |-> Usable(c, w)]
          /\ run' = IF \/ Usable(c, w) = {}
                       \/ Transfers(c) /\ Order(c) = "none" THEN "failed"
                    ELSE IF Transfers(c) THEN "lead" ELSE "access"
    BY <2>2 DEF Usable
  <2> QED
    BY <2>1, <2>2 DEF Start
<1>3. OnlyItsRange' /\ AllFit(wire)'
  BY <1>1 DEF OnlyItsRange, AllFit, Empty
<1> QED
  BY <1>1, <1>2, <1>3 DEF RangeInv, Transfers, Command

\* The cycles of a transfer change by some that fit.
LEMMA SendsKeepsRange ==
  ASSUME RangeInv, Transfers(cmd), NEW cs, AllFit(cs), Sends(cs),
         UNCHANGED <<cmd, form, written>>, run # "failed", pos' \in Nat, cmd.at <= pos',
         run' \in {"bulk", "last"}
  PROVE  RangeInv'
<1>1. AllFit(wire)' /\ OnlyItsRange' /\ Transfers(cmd)'
  BY DEF Sends, AllFit, RangeInv, OnlyItsRange, Transfers, Fits, End
<1> QED
  BY <1>1 DEF RangeInv

LEMMA LeadKeepsRange == ASSUME RangeInv, Transfers(cmd), Lead PROVE RangeInv'
<1> DEFINE to == Up(cmd.at, Bulk)
<1>1. /\ run = "lead" /\ cmd \in Command /\ Bulk \in Width /\ Edge \in Width
      /\ pos \in Nat /\ cmd.at <= pos /\ UNCHANGED <<cmd, form, written>>
  BY SizesBounded DEF Lead, RangeInv, Transfers, NoCommand
<1>2. to \in Nat /\ cmd.at <= to
  BY <1>1, Rounded DEF Command
<1>3. CASE Fails
  BY <1>1, <1>3 DEF Fails, RangeInv, OnlyItsRange, AllFit, Fits, Transfers, End
<1>4. CASE ~ShortRead(to) /\ Sends(Split(pos, to, Edge, 1)) /\ pos' = to /\ run' = "bulk"
  BY <1>1, <1>2, <1>4, SplitFits, SendsKeepsRange
<1> QED
  BY <1>3, <1>4 DEF Lead

LEMMA WordsLeft ==
  ASSUME RangeInv, Transfers(cmd), run = "bulk"
  PROVE  /\ Words \in Nat /\ Words * Bulk \in Nat
         /\ \A n \in 0..Words : /\ n * Bulk \in Nat
                                /\ n > 0 => pos + n * Bulk <= End
<1>1. /\ cmd \in Command /\ Bulk \in Width /\ pos \in Nat
  BY SizesBounded DEF RangeInv, Transfers, NoCommand
<1>2. End \in Nat
  BY <1>1 DEF End, Command
<1> DEFINE b == Down(End, Bulk)
<1>3. b \in Nat /\ b <= End
  BY <1>1, <1>2, Rounded
<1>4. CASE pos < b
  <2>1. b - pos \in Nat /\ Words = (b - pos) \div Bulk
    BY <1>1, <1>3, <1>4 DEF Words
  <2>2. Words \in Nat
    BY <1>1, <2>1 DEF Width
  <2>3. \A n \in 0..Words : n * Bulk \in Nat /\ n * Bulk <= b - pos
    BY <1>1, <2>1, <2>2, WordsFit
  <2> QED
    BY <1>1, <1>2, <1>3, <2>1, <2>2, <2>3
<1>5. CASE ~(pos < b)
  BY <1>1, <1>5 DEF Words, Width
<1> QED
  BY <1>4, <1>5

LEMMA BatchKeepsRange == ASSUME RangeInv, Transfers(cmd), Batch PROVE RangeInv'
<1> DEFINE n == Min({Words, cmd.batch * OpsPerCycle})
          to == pos + n * Bulk
<1>1. /\ run = "bulk" /\ run' = "bulk" /\ cmd \in Command /\ Bulk \in Width
      /\ pos \in Nat /\ cmd.at <= pos /\ UNCHANGED <<cmd, form, written>>
      /\ Sends(Split(pos, to, Bulk, OpsPerCycle)) /\ pos' = to
  BY SizesBounded DEF Batch, RangeInv, Transfers, NoCommand
<1>2. cmd.batch * OpsPerCycle \in Nat /\ OpsPerCycle \in Nat \ {0}
  BY <1>1, ToolsAssumption DEF Command
<1>3. n \in 0..Words /\ Words \in Nat
  BY <1>1, <1>2, Lesser, WordsLeft
<1>4. n * Bulk \in Nat /\ (n > 0 => to <= End) /\ (n = 0 => to = pos)
  <2>1. n * Bulk \in Nat /\ (n > 0 => pos + n * Bulk <= End)
    BY <1>1, <1>3, WordsLeft
  <2>2. ASSUME n = 0 PROVE to = pos
    BY <1>1, <2>2 DEF Width
  <2> QED
    BY <2>1, <2>2
<1>5. to \in Nat /\ cmd.at <= to
  BY <1>1, <1>4 DEF Command
<1>6. AllFit(Split(pos, to, Bulk, OpsPerCycle))
  <2>1. CASE n > 0
    BY <1>1, <1>2, <1>4, <1>5, <2>1, SplitFits DEF ShortRead, End, Command
  <2>2. CASE n = 0
    <3>1. pos .. to - 1 = {}
      BY <1>1, <1>4, <2>2
    <3>2. Split(pos, to, Bulk, OpsPerCycle) = {}
      BY <1>1, <1>2, <1>5, <3>1, SplitParts
    <3> QED
      BY <3>2 DEF AllFit
  <2> QED
    BY <1>3, <2>1, <2>2
<1> QED
  BY <1>1, <1>5, <1>6, SendsKeepsRange

LEMMA TrailKeepsRange == ASSUME RangeInv, Transfers(cmd), Trail PROVE RangeInv'
<1> DEFINE mid == pos + Words * Bulk
          to == IF End > mid THEN mid + Up(End - mid, Edge) ELSE mid
<1>1. /\ run = "bulk" /\ cmd \in Command /\ Bulk \in Width /\ Edge \in Width
      /\ pos \in Nat /\ cmd.at <= pos /\ UNCHANGED <<cmd, form, written>>
  BY SizesBounded DEF Trail, RangeInv, Transfers, NoCommand
<1>2. mid \in Nat /\ cmd.at <= mid
  BY <1>1, WordsLeft DEF Command
<1>3. to \in Nat /\ mid <= to
  BY <1>1, <1>2, Rounded DEF End, Command
<1>4. CASE Fails
  BY <1>1, <1>4 DEF Fails, RangeInv, OnlyItsRange, AllFit, Fits, Transfers, End
<1>5. CASE /\ ~ShortRead(to) /\ pos' = to /\ run' = "last"
           /\ Sends(Split(pos, mid, Bulk, OpsPerCycle) \cup Split(mid, to, Edge, 1))
  <2>1. ~ShortRead(mid)
    BY <1>1, <1>2, <1>3, <1>5 DEF ShortRead, End, Command
  <2>2. AllFit(Split(pos, mid, Bulk, OpsPerCycle))
    BY <1>1, <1>2, <2>1, SplitFits, ToolsAssumption
  <2>3. AllFit(Split(mid, to, Edge, 1))
    BY <1>1, <1>2, <1>3, <1>5, SplitFits
  <2>4. AllFit(Split(pos, mid, Bulk, OpsPerCycle) \cup Split(mid, to, Edge, 1))
    BY <2>2, <2>3 DEF AllFit
  <2>5. cmd.at <= to
    BY <1>1, <1>2, <1>3 DEF Command
  <2> QED
    BY <1>1, <1>3, <1>5, <2>4, <2>5, SendsKeepsRange
<1> QED
  BY <1>4, <1>5 DEF Trail

\* An answer takes a cycle off the wire and performs it.
LEMMA AnswerKeepsRange ==
  ASSUME RangeInv, Transfers(cmd), NEW c \in wire, NEW bad \in SUBSET DOMAIN c,
         Answer(c, bad), UNCHANGED <<cmd, form, pos>>, run' \in {run, "failed"}
  PROVE  RangeInv'
<1>1. OnlyItsRange'
  BY Untouched DEF Answer, OnlyItsRange, End
<1>2. AllFit(wire)'
  BY DEF Answer, AllFit, RangeInv, Fits, End
<1> QED
  BY <1>1, <1>2 DEF RangeInv, Transfers

LEMMA RangeInTools == ToolsSpec => []RangeInv
<1>1. ToolsInit => RangeInv
  BY DEF ToolsInit, RangeInv, Transfers, NoCommand
<1>2. RangeInv /\ [ToolsNext]_toolsVars => RangeInv'
  <2> SUFFICES ASSUME RangeInv, [ToolsNext]_toolsVars PROVE RangeInv'
    OBVIOUS
  <2>1. CASE UNCHANGED toolVars
    BY <2>1 DEF toolVars, transferVars, RangeInv, Transfers, AllFit, Fits, OnlyItsRange, End,
       Bulk, Edge
  <2>2. ASSUME NEW c \in Commands, Start(c) PROVE RangeInv'
    BY <2>2, StartKeepsRange
  <2>3. CASE Transfers(cmd) /\ (Lead \/ Batch \/ Trail)
    BY <2>3, LeadKeepsRange, BatchKeepsRange, TrailKeepsRange
  <2>4. CASE Transfers(cmd) /\ Ends
    BY <2>4 DEF Ends, transferVars, RangeInv, Transfers, AllFit, Fits, OnlyItsRange, End
  <2>5. ASSUME NEW c \in wire, NEW bad \in SUBSET DOMAIN c, Transfers(cmd),
               Transferred(c, bad) \/ Late(c, bad)
        PROVE  RangeInv'
    BY <2>5, AnswerKeepsRange DEF Transferred, Late, transferVars
  <2>6. ASSUME NEW c \in wire, Transfers(cmd), Lost(c) PROVE RangeInv'
    BY <2>6 DEF Lost, Fails, RangeInv, Transfers, AllFit, Fits, OnlyItsRange, End
  <2>7. CASE Transfers(cmd) /\ (Access \/ Merge \/ Prints \/ \E c \in wire :
               \E bad \in SUBSET DOMAIN c : Stops(c, bad))
    BY <2>7 DEF Access, Merge, Prints, Stops, RangeInv
  <2>8. CASE ~Transfers(cmd) /\ (Advances \/ \E c \in wire : Lost(c) \/
               \E bad \in SUBSET DOMAIN c : Late(c, bad))
    <3>1. UNCHANGED cmd /\ run' # "idle"
      BY <2>8 DEF Advances, Lead, Batch, Trail, Ends, Access, Merge, Prints, Waited,
         Transferred, Stops, Lost, Late, Fails, RangeInv
    <3> QED
      BY <2>8, <3>1 DEF RangeInv, Transfers
  <2> QED
    BY <2>1, <2>2, <2>3, <2>4, <2>5, <2>6, <2>7, <2>8
    DEF ToolsNext, Advances, Waited, toolsVars
<1> QED
  BY <1>1, <1>2, PTL DEF ToolsSpec

\* eb-put writes only where its file goes, and eb-get writes nothing, whatever the range
\* is, however the cycles are answered and whether or not they fail or come late.
\* (main, transfer and dec_todo of eb-put.c and eb-get.c)
THEOREM TransfersStayInRange == ToolsSpec => []OnlyItsRange
<1>1. RangeInv => OnlyItsRange
  BY DEF RangeInv, OnlyItsRange, Transfers
<1> QED
  BY <1>1, RangeInTools, PTL

-----------------------------------------------------------------------------
(* What a transfer moves.                                                  *)

\* A word made of a word is the bytes again.
LEMMA WordTwice ==
  ASSUME NEW s \in Nat, NEW f, f = [j \in 1..s |-> f[j]]
  PROVE  /\ Word(f) = [j \in 1..s |-> Word(f)[j]]
         /\ Word(Word(f)) = f
<1> DEFINE r == [j \in 1..s |-> f[s - j + 1]]
<1>1. ASSUME NEW g, g = [j \in 1..s |-> g[j]]
      PROVE  Reverse(g) = [j \in 1..s |-> g[s - j + 1]]
  <2>1. DOMAIN g = 1..s
    BY <1>1
  <2>2. Len(g) = s
    BY <2>1
  <2> QED
    BY <2>2 DEF Reverse
<1>2. Reverse(f) = r
  BY <1>1
<1>3. Reverse(r) = [j \in 1..s |-> r[s - j + 1]]
  BY <1>1
<1>4. \A j \in 1..s : r[s - j + 1] = f[j]
  OBVIOUS
<1>5. Reverse(r) = f
  BY <1>3, <1>4
<1> HIDE DEF r
<1> QED
  BY <1>2, <1>5 DEF Word, r

LEMMA Greatest ==
  ASSUME NEW n \in Nat, NEW T \in SUBSET (1..n), T # {}
  PROVE  Max(T) \in T
<1> DEFINE U == {u \in 0..n : n - u \in T}
<1>1. PICK t \in T : TRUE
  OBVIOUS
<1>2. n - t \in U
  BY <1>1
<1>3. PICK x \in U : \A y \in U : x <= y
  <2>1. U \in SUBSET Nat
    OBVIOUS
  <2>2. U # {}
    BY <1>2
  <2> HIDE DEF U
  <2> QED
    BY <2>1, <2>2, Least
<1>4. \A y \in T : n - y \in U
  OBVIOUS
<1>5. n - x \in T /\ \A y \in T : n - x >= y
  BY <1>3, <1>4
<1> QED
  BY <1>5 DEF Max

\* The large accesses are aligned for the small ones.
LEMMA LargerAligned ==
  ASSUME form.sizes \subseteq Width, form.sizes # {}
  PROVE  /\ Edge <= Bulk
         /\ \A a \in Nat : a % Bulk = 0 => a % Edge = 0
<1>1. Bulk \in Width /\ Edge \in Width
  BY SizesBounded
<1>2. Edge <= Bulk
  <2> DEFINE S == form.sizes
  <2>1. \E x \in S : \A y \in S : x >= y
    BY DEF Width
  <2>2. \E x \in S : \A y \in S : x <= y
    BY DEF Width
  <2> QED
    BY <1>1, <2>1, <2>2 DEF Bulk, Edge, Max, Min, Width
<1> QED
  BY <1>1, <1>2 DEF Width

LEMMA Aligns ==
  ASSUME NEW s \in Width
  PROVE  /\ \A a \in Nat : Up(a, s) % s = 0
         /\ \A a \in Nat : a % s = 0 => Up(a, s) = a
         /\ \A a, b \in Nat : a % s = 0 /\ b % s = 0 => (a + b) % s = 0
         /\ \A a, b \in Nat : a % s = 0 /\ b % s = 0 /\ a <= b => (b - a) % s = 0
         /\ \A n \in Nat : n * s \in Nat /\ (n * s) % s = 0
<1>1. CASE s = 1
  BY <1>1 DEF Up, Down
<1>2. CASE s = 2
  BY <1>2 DEF Up, Down
<1>3. CASE s = 4
  BY <1>3 DEF Up, Down
<1>4. CASE s = 8
  BY <1>4 DEF Up, Down
<1> QED
  BY <1>1, <1>2, <1>3, <1>4 DEF Width

\* A place is in one of the parts of equal length.
LEMMA PartOf ==
  ASSUME NEW x \in Nat, NEW d \in Nat \ {0}
  PROVE  \E i \in 0..x : i * d \in Nat /\ i * d <= x /\ x < i * d + d
<1> DEFINE T == {i \in Nat : x < i * d + d}
<1>1. x * d \in Nat /\ x <= x * d
  OBVIOUS
<1>2. x \in T
  BY <1>1
<1> HIDE DEF T
<1>3. PICK i \in T : \A j \in T : i <= j
  <2>1. T \in SUBSET Nat /\ T # {}
    BY <1>2 DEF T
  <2> QED
    BY <2>1, Least
<1>4. i \in 0..x /\ i * d \in Nat /\ x < i * d + d
  BY <1>2, <1>3 DEF T
<1>5. CASE i = 0
  BY <1>4, <1>5
<1>6. CASE i # 0
  <2>1. i - 1 \in Nat /\ i - 1 \notin T
    BY <1>3, <1>4, <1>6
  <2>2. (i - 1) * d + d = i * d
    BY <1>4
  <2> QED
    BY <1>4, <2>1, <2>2 DEF T
<1> QED
  BY <1>5, <1>6

\* An operation of a transfer: where it goes, and what eb-put sends
Sent(o) == [j \in 1..o.size |-> Firmware(o.at - cmd.at + j - 1)]
Carries(o, to) ==
  /\ o.at \in Nat /\ o.size \in Width
  /\ cmd.at <= o.at /\ o.at + o.size <= to
  /\ cmd.tool = "put" => o.data = Word(Sent(o))
  /\ cmd.tool = "get" => o.data = <<>>

\* A cycle of them, all before an address
Carrying(c, to) == \E m \in Nat : DOMAIN c = 1..m /\ \A k \in 1..m : Carries(c[k], to)

\* An address that an operation of the cycle is about
Within(c, a) == \E k \in DOMAIN c : c[k].at <= a /\ a < c[k].at + c[k].size

LEMMA TransferIs ==
  ASSUME NEW s \in Width, NEW from \in Nat, NEW m \in Nat
  PROVE  /\ DOMAIN Transfer(from, s, m) = 1..m
         /\ \A k \in 1..m : /\ Transfer(from, s, m)[k].at = from + (k - 1) * s
                            /\ Transfer(from, s, m)[k].size = s
BY DEF Transfer, Read, Write

LEMMA TransferCarries ==
  ASSUME Transfers(cmd), cmd \in Command, NEW s \in Width, NEW from \in Nat, NEW to \in Nat,
         cmd.at <= from, from <= to, NEW m \in Nat, m <= (to - from) \div s, NEW k \in 1..m
  PROVE  Carries(Transfer(from, s, m)[k], to)
<1> DEFINE at == from + (k - 1) * s
           o == Transfer(from, s, m)[k]
<1>1. k * s \in Nat /\ k * s <= to - from
  <2>1. to - from \in Nat /\ (to - from) \div s \in Nat
    BY DEF Width
  <2>2. k \in Nat /\ k <= (to - from) \div s
    BY <2>1
  <2> QED
    BY <2>1, <2>2, WordsFit
<1>2. at \in Nat /\ at + s = from + k * s /\ from <= at
  BY <1>1 DEF Width
<1>3. o = IF cmd.tool = "get" THEN Read(at, s)
          ELSE Write(at, s, Word([j \in 1..s |-> Firmware(at - cmd.at + j - 1)]))
  BY DEF Transfer
<1>4. o.at = at /\ o.size = s
  BY <1>3 DEF Read, Write
<1>5. cmd.tool = "put" => o.data = Word(Sent(o))
  BY <1>3, <1>4 DEF Write, Sent
<1>6. cmd.tool = "get" => o.data = <<>>
  BY <1>3 DEF Read
<1> HIDE DEF o
<1>7. Carries(o, to)
  BY <1>1, <1>2, <1>4, <1>5, <1>6 DEF Carries, Command
<1> QED
  BY <1>7 DEF o

LEMMA SplitCarries ==
  ASSUME Transfers(cmd), cmd \in Command, NEW s \in Width, NEW n \in Nat \ {0},
         NEW from \in Nat, NEW to \in Nat, cmd.at <= from
  PROVE  /\ \A c \in Split(from, to, s, n) : Carrying(c, to)
         /\ IsFiniteSet(Split(from, to, s, n))
<1>1. ASSUME NEW c \in Split(from, to, s, n) PROVE Carrying(c, to)
  <2>1. PICK x \in from .. to - 1 : c = Transfer(x, s, Min({n, (to - x) \div s}))
    <3>1. \A d \in Split(from, to, s, n) :
            \E x \in from .. to - 1 : d = Transfer(x, s, Min({n, (to - x) \div s}))
      BY SplitParts
    <3> QED
      BY <3>1
  <2> DEFINE m == Min({n, (to - x) \div s})
  <2>2. (to - x) \div s \in Nat
    BY DEF Width
  <2>3. m \in Nat /\ m <= (to - x) \div s
    BY <2>2, Lesser
  <2>4. x \in Nat /\ cmd.at <= x /\ x <= to
    BY DEF Command
  <2> QED
    <3>1. DOMAIN c = 1..m
      BY <2>1, <2>3, <2>4, TransferIs
    <3>2. ASSUME NEW k \in 1..m PROVE Carries(c[k], to)
      BY <2>1, <2>3, <2>4, TransferCarries
    <3> QED
      BY <2>3, <3>1, <3>2 DEF Carrying
<1>2. IsFiniteSet(Split(from, to, s, n))
  <2> DEFINE start(i) == from + i * (s * n)
             I == {k \in 0 .. to - from : start(k) < to}
             f == [i \in I |-> Transfer(start(i), s, Min({n, (to - start(i)) \div s}))]
  <2>1. IsFiniteSet(I)
    <3>1. IsFiniteSet(0 .. to - from)
      BY FS_Interval
    <3>2. I \in SUBSET (0 .. to - from)
      OBVIOUS
    <3> QED
      BY ONLY <3>1, <3>2, FS_Subset
  <2>2. Split(from, to, s, n) = {f[i] : i \in I}
    BY DEF Split
  <2>3. f \in Surjection(I, {f[i] : i \in I})
    BY DEF Surjection
  <2> HIDE DEF I, f
  <2> QED
    BY <2>1, <2>2, <2>3, FS_Surjection
<1> QED
  BY <1>1, <1>2

\* A range of whole accesses is covered.
LEMMA SplitCovers ==
  ASSUME Transfers(cmd), cmd \in Command, NEW s \in Width, NEW n \in Nat \ {0},
         NEW from \in Nat, NEW to \in Nat, cmd.at <= from, from <= to, (to - from) % s = 0,
         NEW a \in from .. to - 1
  PROVE  \E c \in Split(from, to, s, n) : Within(c, a)
<1> DEFINE d == s * n
<1>1. d \in Nat \ {0}
  BY DEF Width
<1>2. PICK i \in 0 .. a - from : i * d \in Nat /\ i * d <= a - from /\ a - from < i * d + d
  <2>1. a - from \in Nat
    OBVIOUS
  <2> HIDE DEF d
  <2> QED
    BY <1>1, <2>1, PartOf
<1> DEFINE x == from + i * d
           m == Min({n, (to - x) \div s})
           k == (a - x) \div s + 1
<1>3. x \in Nat /\ x <= a /\ a - x < d /\ from <= x /\ x < to
  BY <1>1, <1>2
<1>4. (to - x) % s = 0
  <2>1. i * d = (i * n) * s /\ i * n \in Nat
    BY <1>2 DEF Width
  <2>2. (i * d) % s = 0
    BY <2>1, Aligns
  <2>3. to - from \in Nat /\ i * d \in Nat /\ i * d <= to - from
    BY <1>2, <1>3
  <2>4. to - x = (to - from) - i * d
    BY <1>2
  <2> HIDE DEF x, d
  <2>5. ((to - from) - i * d) % s = 0
    BY <2>2, <2>3, Aligns
  <2> QED
    BY <2>4, <2>5
<1> HIDE DEF x
<1>5. (a - x) \div s \in Nat /\ (a - x) \div s < (to - x) \div s
      /\ x + (k - 1) * s <= a /\ a < x + (k - 1) * s + s
  <2>1. CASE s = 1
    BY <1>3, <1>4, <2>1
  <2>2. CASE s = 2
    BY <1>3, <1>4, <2>2
  <2>3. CASE s = 4
    BY <1>3, <1>4, <2>3
  <2>4. CASE s = 8
    BY <1>3, <1>4, <2>4
  <2> QED
    BY <2>1, <2>2, <2>3, <2>4 DEF Width
<1>6. (a - x) \div s < n
  <2>1. CASE s = 1
    BY <1>3, <2>1
  <2>2. CASE s = 2
    BY <1>3, <2>2
  <2>3. CASE s = 4
    BY <1>3, <2>3
  <2>4. CASE s = 8
    BY <1>3, <2>4
  <2> QED
    BY <2>1, <2>2, <2>3, <2>4 DEF Width
<1>7. m = n \/ m = (to - x) \div s
  <2>1. (to - x) \div s \in Nat
    BY <1>3 DEF Width
  <2>2. \E y \in {n, (to - x) \div s} : \A z \in {n, (to - x) \div s} : y <= z
    BY <2>1
  <2> QED
    BY <2>2 DEF Min
<1>8. (to - x) \div s \in Nat
  BY <1>3 DEF Width
<1>9. m \in Nat /\ m <= (to - x) \div s
  BY <1>8, Lesser
<1>10. k \in 1..m
  BY <1>5, <1>6, <1>7, <1>8
<1>11. cmd.at <= x
  BY <1>3 DEF Command
<1> HIDE DEF m, k
<1>12. /\ DOMAIN Transfer(x, s, m) = 1..m
       /\ Transfer(x, s, m)[k].at = x + (k - 1) * s
       /\ Transfer(x, s, m)[k].size = s
  <2>1. x \in Nat /\ m \in Nat
    BY <1>3, <1>9
  <2>2. /\ DOMAIN Transfer(x, s, m) = 1..m
        /\ \A j \in 1..m : /\ Transfer(x, s, m)[j].at = x + (j - 1) * s
                           /\ Transfer(x, s, m)[j].size = s
    BY <2>1, TransferIs
  <2> QED
    BY <1>10, <2>2
<1>13. Within(Transfer(x, s, m), a)
  BY <1>5, <1>10, <1>12 DEF Within, k
<1>14. Transfer(x, s, m) \in Split(from, to, s, n)
  <2>1. i \in 0 .. to - from
    BY <1>2
  <2> QED
    BY <1>3, <2>1 DEF Split, x, m
<1> QED
  BY <1>13, <1>14

LEMMA CarryingOn ==
  ASSUME NEW c, NEW x \in Nat, NEW y \in Nat, x <= y, Carrying(c, x), cmd.at \in Nat
  PROVE  Carrying(c, y)
<1>1. PICK m \in Nat : DOMAIN c = 1..m /\ \A k \in 1..m : Carries(c[k], x)
  BY DEF Carrying
<1>2. ASSUME NEW k \in 1..m PROVE Carries(c[k], y)
  BY <1>1 DEF Carries, Width
<1> QED
  BY <1>1, <1>2 DEF Carrying

\* How far a transfer is
Placed ==
  /\ run = "lead" => pos = cmd.at
  /\ run = "bulk" => pos % Bulk = 0 /\ (cmd.tool = "get" /\ Granted => pos <= End)
  /\ run \in {"last", "done"} /\ (cmd.tool = "put" \/ Granted) => pos = End

\* Its cycles, and that it waits for all that call back
WireInv ==
  /\ run = "idle" => todo = 0
  /\ Transfers(cmd) =>
       /\ \A c \in wire : Carrying(c, pos)
       /\ run # "failed" =>
            /\ Placed
            /\ IsFiniteSet(wire) /\ todo \in Nat /\ Awaited(wire) <= todo
            /\ run = "done" => todo = 0

\* The program sends cycles for the addresses up to the next to transfer.
Proceeding(cs) ==
  /\ Sends(cs) /\ IsFiniteSet(cs)
  /\ pos' \in Nat /\ pos <= pos'
  /\ \A c \in cs : Carrying(c, pos')
  /\ \A a \in pos .. pos' - 1 : \E c \in cs : Within(c, a)
  /\ UNCHANGED <<cmd, form, written, file, faults>>

LEMMA LeadProceeds ==
  ASSUME RangeInv, WireInv, Transfers(cmd), Lead, run' # "failed"
  PROVE  Placed' /\ run' = "bulk" /\ \E cs : Proceeding(cs)
<1> DEFINE to == Up(cmd.at, Bulk)
           cs == Split(pos, to, Edge, 1)
<1>1. /\ run = "lead" /\ cmd \in Command /\ Bulk \in Width /\ Edge \in Width
      /\ UNCHANGED <<cmd, form, written, file, faults>>
      /\ form.sizes \subseteq Width /\ form.sizes # {}
  BY SizesBounded DEF Lead, RangeInv, Transfers, NoCommand
<1>2. pos = cmd.at /\ cmd.at \in Nat /\ cmd.len \in Nat
  BY <1>1 DEF WireInv, Placed, Command
<1>3. cmd.at % Edge = 0 /\ Sends(cs) /\ pos' = to /\ run' = "bulk"
  BY DEF Lead, Fails
<1>4. to \in Nat /\ pos <= to /\ to % Bulk = 0 /\ (to - pos) % Edge = 0
  <2>1. to \in Nat /\ cmd.at <= to /\ to % Bulk = 0
    BY <1>1, <1>2, Rounded, Aligns
  <2>2. to % Edge = 0
    BY <1>1, <2>1, LargerAligned
  <2> HIDE DEF to
  <2>3. (to - cmd.at) % Edge = 0
    BY <1>1, <1>2, <1>3, <2>1, <2>2, Aligns
  <2> QED
    BY <1>2, <2>1, <2>3
<1>5. Placed'
  <2>1. UNCHANGED <<cmd, form>>
    BY <1>1
  <2>2. Granted' = Granted /\ Bulk' = Bulk /\ End' = End
    BY <2>1 DEF Granted, Bulk, Edge, End
  <2> QED
    BY <1>2, <1>3, <1>4, <2>2 DEF Placed, Granted
<1>6. Proceeding(cs)
  <2>1. (\A c \in cs : Carrying(c, to)) /\ IsFiniteSet(cs)
    BY <1>1, <1>2, <1>4, SplitCarries
  <2>2. \A a \in pos .. to - 1 : \E c \in cs : Within(c, a)
    BY <1>1, <1>2, <1>4, SplitCovers
  <2> HIDE DEF to, cs
  <2> QED
    BY <1>1, <1>3, <1>4, <2>1, <2>2 DEF Proceeding
<1> QED
  BY <1>3, <1>5, <1>6

LEMMA BatchProceeds ==
  ASSUME RangeInv, WireInv, Transfers(cmd), Batch
  PROVE  Placed' /\ run' = "bulk" /\ \E cs : Proceeding(cs)
<1> DEFINE n == Min({Words, cmd.batch * OpsPerCycle})
           to == pos + n * Bulk
           cs == Split(pos, to, Bulk, OpsPerCycle)
<1>1. /\ run = "bulk" /\ run' = "bulk" /\ cmd \in Command /\ Bulk \in Width
      /\ pos \in Nat /\ cmd.at <= pos /\ UNCHANGED <<cmd, form, written, file, faults>>
      /\ Sends(cs) /\ pos' = to
  BY SizesBounded DEF Batch, RangeInv, Transfers, NoCommand
<1>2. cmd.batch * OpsPerCycle \in Nat /\ OpsPerCycle \in Nat \ {0} /\ cmd.at \in Nat
  BY <1>1, ToolsAssumption DEF Command
<1>3. n \in 0..Words /\ Words \in Nat
  BY <1>1, <1>2, Lesser, WordsLeft
<1>4. n * Bulk \in Nat /\ (n * Bulk) % Bulk = 0 /\ (n > 0 => to <= End) /\ (n = 0 => to = pos)
  <2>1. n * Bulk \in Nat /\ (n > 0 => pos + n * Bulk <= End)
    BY <1>1, <1>3, WordsLeft
  <2>2. ASSUME n = 0 PROVE to = pos
    BY <1>1, <2>2 DEF Width
  <2>3. n \in Nat
    BY <1>3
  <2>4. (n * Bulk) % Bulk = 0
    BY <1>1, <2>3, Aligns
  <2> QED
    BY <2>1, <2>2, <2>4
<1>5. pos % Bulk = 0 /\ (cmd.tool = "get" /\ Granted => pos <= End)
  BY <1>1 DEF WireInv, Placed
<1>6. to \in Nat /\ pos <= to /\ to % Bulk = 0 /\ (to - pos) % Bulk = 0
  <2>1. to \in Nat /\ pos <= to
    BY <1>1, <1>4
  <2>2. to % Bulk = 0
    BY <1>1, <1>4, <1>5, Aligns
  <2> QED
    BY <1>1, <1>5, <2>1, <2>2, Aligns
<1>7. cmd.tool = "get" /\ Granted => to <= End
  BY <1>3, <1>4, <1>5
<1> HIDE DEF n, to
<1>8. Placed'
  <2>1. Granted' = Granted /\ Bulk' = Bulk /\ End' = End
    BY <1>1 DEF Granted, Bulk, Edge, End
  <2> QED
    BY <1>1, <1>6, <1>7, <2>1 DEF Placed
<1>9. Proceeding(cs)
  <2>1. (\A c \in cs : Carrying(c, to)) /\ IsFiniteSet(cs)
    BY <1>1, <1>2, <1>6, SplitCarries
  <2>2. \A a \in pos .. to - 1 : \E c \in cs : Within(c, a)
    BY <1>1, <1>2, <1>6, SplitCovers
  <2> HIDE DEF cs
  <2> QED
    BY <1>1, <1>6, <2>1, <2>2 DEF Proceeding
<1> QED
  BY <1>1, <1>8, <1>9

LEMMA TrailProceeds ==
  ASSUME RangeInv, WireInv, Transfers(cmd), Trail, run' # "failed"
  PROVE  Placed' /\ run' = "last" /\ \E cs : Proceeding(cs)
<1> DEFINE mid == pos + Words * Bulk
           to == IF End > mid THEN mid + Up(End - mid, Edge) ELSE mid
           large == Split(pos, mid, Bulk, OpsPerCycle)
           small == Split(mid, to, Edge, 1)
<1>1. /\ run = "bulk" /\ cmd \in Command /\ Bulk \in Width /\ Edge \in Width
      /\ pos \in Nat /\ cmd.at <= pos /\ UNCHANGED <<cmd, form, written, file, faults>>
      /\ form.sizes \subseteq Width /\ form.sizes # {}
  BY SizesBounded DEF Trail, RangeInv, Transfers, NoCommand
<1>2. ~ShortRead(to) /\ Sends(large \cup small) /\ pos' = to /\ run' = "last"
  BY DEF Trail, Fails
<1>3. cmd.at \in Nat /\ cmd.len \in Nat /\ End \in Nat /\ OpsPerCycle \in Nat \ {0}
  BY <1>1, ToolsAssumption DEF Command, End
<1>4. pos % Bulk = 0 /\ (cmd.tool = "get" /\ Granted => pos <= End)
  BY <1>1 DEF WireInv, Placed
<1>5. /\ mid \in Nat /\ pos <= mid /\ mid % Bulk = 0 /\ (mid - pos) % Bulk = 0
      /\ mid % Edge = 0 /\ (cmd.tool = "get" /\ Granted => mid <= End)
  <2>1. Words \in Nat /\ Words * Bulk \in Nat /\ (Words > 0 => mid <= End)
    BY <1>1, WordsLeft
  <2>2. (Words * Bulk) % Bulk = 0
    BY <1>1, <2>1, Aligns
  <2>3. mid \in Nat /\ pos <= mid /\ mid % Bulk = 0
    <3> DEFINE w == Words * Bulk
    <3>1. w \in Nat /\ w % Bulk = 0 /\ mid = pos + w
      BY <2>1, <2>2
    <3> HIDE DEF w, mid
    <3> QED
      BY <1>1, <1>4, <3>1, Aligns
  <2>4. Words = 0 => mid = pos
    BY <1>1 DEF Width
  <2>5. (mid - pos) % Bulk = 0
    BY <1>1, <1>4, <2>3, Aligns
  <2>6. mid % Edge = 0
    BY <1>1, <2>3, LargerAligned
  <2> HIDE DEF mid
  <2> QED
    BY <1>4, <2>1, <2>3, <2>4, <2>5, <2>6
<1> HIDE DEF mid
<1>6. to \in Nat /\ mid <= to /\ End <= to /\ (to - mid) % Edge = 0
  <2>1. CASE End > mid
    <3>1. End - mid \in Nat
      BY <1>3, <1>5, <2>1
    <3>2. /\ Up(End - mid, Edge) \in Nat /\ End - mid <= Up(End - mid, Edge)
          /\ Up(End - mid, Edge) % Edge = 0
      BY <1>1, <3>1, Rounded, Aligns
    <3>3. to - mid = Up(End - mid, Edge)
      BY <1>5, <2>1, <3>2
    <3> QED
      BY <1>3, <1>5, <2>1, <3>2, <3>3
  <2>2. CASE ~(End > mid)
    <3>1. to = mid /\ to - mid = 0 /\ 0 % Edge = 0
      BY <1>1, <1>5, <2>2 DEF Width
    <3> QED
      BY <1>3, <1>5, <2>2, <3>1
  <2> QED
    BY <2>1, <2>2
<1>7. cmd.tool = "put" \/ Granted => to = End
  <2>1. CASE cmd.tool = "put"
    BY <1>2, <1>3, <1>6, <2>1 DEF ShortRead
  <2>2. CASE cmd.tool = "get" /\ Granted
    <3>1. mid <= End /\ mid % Edge = 0
      BY <1>5, <2>2
    <3>2. End % Edge = 0
      BY <1>1, <1>3, <2>2, Aligns DEF Granted, End
    <3>3. End - mid \in Nat /\ (End - mid) % Edge = 0
      BY <1>1, <1>3, <1>5, <3>1, <3>2, Aligns
    <3>4. Up(End - mid, Edge) = End - mid
      BY <1>1, <3>3, Aligns
    <3> QED
      BY <1>3, <1>5, <3>1, <3>4
  <2> QED
    BY <2>1, <2>2 DEF Transfers
<1> HIDE DEF to
<1>8. Placed'
  <2>1. Granted' = Granted /\ End' = End
    BY <1>1 DEF Granted, Bulk, Edge, End
  <2> QED
    BY <1>1, <1>2, <1>7, <2>1 DEF Placed
<1>9. Proceeding(large \cup small)
  <2>1. (\A c \in large : Carrying(c, mid)) /\ IsFiniteSet(large)
    BY <1>1, <1>3, <1>5, SplitCarries
  <2>2. (\A c \in small : Carrying(c, to)) /\ IsFiniteSet(small)
    <3>1. cmd.at <= mid
      BY <1>1, <1>3, <1>5
    <3> QED
      BY <1>1, <1>5, <1>6, <3>1, SplitCarries
  <2>3. \A a \in pos .. mid - 1 : \E c \in large : Within(c, a)
    BY <1>1, <1>3, <1>5, SplitCovers
  <2>4. \A a \in mid .. to - 1 : \E c \in small : Within(c, a)
    <3>1. /\ cmd.at <= mid /\ mid <= to /\ mid \in Nat /\ to \in Nat
          /\ cmd \in Command /\ Edge \in Width /\ (to - mid) % Edge = 0
      BY <1>1, <1>3, <1>5, <1>6
    <3> QED
      BY <3>1, SplitCovers
  <2> HIDE DEF large, small
  <2>5. \A c \in large : Carrying(c, to)
    BY <1>3, <1>5, <1>6, <2>1, CarryingOn
  <2>6. IsFiniteSet(large \cup small)
    BY <2>1, <2>2, FS_Union
  <2>7. \A a \in pos .. to - 1 : \E c \in large \cup small : Within(c, a)
    <3> SUFFICES ASSUME NEW a \in pos .. to - 1 PROVE \E c \in large \cup small : Within(c, a)
      OBVIOUS
    <3>1. a \in pos .. mid - 1 \/ a \in mid .. to - 1
      BY <1>1, <1>5, <1>6
    <3> QED
      BY <2>3, <2>4, <3>1
  <2>8. pos <= to
    BY <1>1, <1>5, <1>6
  <2> QED
    BY <1>1, <1>2, <1>6, <2>2, <2>5, <2>6, <2>7, <2>8 DEF Proceeding
<1> QED
  BY <1>2, <1>8, <1>9

LEMMA ProceedingKeeps ==
  ASSUME RangeInv, WireInv, Transfers(cmd), run # "failed", NEW cs, Proceeding(cs),
         Placed', run' \in {"bulk", "last"}
  PROVE  WireInv'
<1> DEFINE A == {c \in wire : ~Mute(c)}
           B == {c \in cs : ~Mute(c)}
<1>1. UNCHANGED <<cmd, form>> /\ wire' = wire \cup cs /\ todo' = todo + Cardinality(B)
  BY DEF Proceeding, Sends, Awaited
<1>2. cmd \in Command /\ cmd.at \in Nat /\ pos \in Nat /\ pos' \in Nat /\ pos <= pos'
  BY DEF RangeInv, Transfers, NoCommand, Command, Proceeding
<1>3. \A c \in wire' : Carrying(c, pos')
  <2>1. \A c \in wire : Carrying(c, pos)
    BY DEF WireInv
  <2>2. \A c \in cs : Carrying(c, pos')
    BY DEF Proceeding
  <2> QED
    BY <1>1, <1>2, <2>1, <2>2, CarryingOn
<1>4. (\A c \in wire : Carrying(c, pos))'
  BY <1>1, <1>3 DEF Carrying, Carries, Sent, Word
<1>5. IsFiniteSet(wire) /\ IsFiniteSet(cs) /\ todo \in Nat /\ Cardinality(A) <= todo
  BY DEF WireInv, Proceeding, Awaited
<1>6. /\ IsFiniteSet(A) /\ IsFiniteSet(B) /\ Cardinality(A) \in Nat /\ Cardinality(B) \in Nat
  BY <1>5, FS_Subset, FS_CardinalityType
<1>7. IsFiniteSet(wire')
  BY <1>1, <1>5, FS_Union
<1>8. todo' \in Nat
  BY <1>1, <1>5, <1>6
<1>9. Awaited(wire)' <= todo'
  <2>1. Awaited(wire)' = Cardinality(A \cup B)
    <3>1. {c \in wire' : ~Mute(c)'} = A \cup B
      BY <1>1 DEF Mute
    <3> QED
      BY <3>1 DEF Awaited
  <2> HIDE DEF A, B
  <2>2. Cardinality(A \cup B) = Cardinality(A) + Cardinality(B) - Cardinality(A \cap B)
    BY <1>6, FS_Union
  <2>3. Cardinality(A \cap B) \in Nat
    BY <1>6, FS_Subset, FS_CardinalityType
  <2> QED
    BY <1>1, <1>5, <1>6, <2>1, <2>2, <2>3
<1> QED
  BY <1>4, <1>7, <1>8, <1>9 DEF WireInv

LEMMA CarryingStays ==
  ASSUME UNCHANGED <<cmd, form, pos>>
  PROVE  \A c : Carrying(c, pos) => Carrying(c, pos)'
BY DEF Carrying, Carries, Sent, Word

\* An answer, whatever failed
LEMMA AnswerKeepsWire ==
  ASSUME RangeInv, WireInv, Transfers(cmd), NEW c \in wire, wire' = wire \ {c},
         UNCHANGED <<cmd, form, pos>>, run' \in {run, "failed"},
         todo' = IF Mute(c) THEN todo ELSE todo - 1, run = "done" => Mute(c)
  PROVE  WireInv'
<1>1. (\A d \in wire : Carrying(d, pos))'
  <2>1. \A d \in wire : Carrying(d, pos)
    BY DEF WireInv
  <2> QED
    BY <2>1, CarryingStays
<1>2. ASSUME run' # "failed"
      PROVE  /\ Placed' /\ IsFiniteSet(wire') /\ todo' \in Nat /\ Awaited(wire)' <= todo'
             /\ run' = "done" => todo' = 0
  <2> DEFINE A == {d \in wire : ~Mute(d)}
  <2>1. /\ run' = run /\ Placed /\ IsFiniteSet(wire) /\ todo \in Nat
        /\ Cardinality(A) <= todo /\ (run = "done" => todo = 0)
    BY <1>2 DEF WireInv, Awaited
  <2>2. Placed'
    BY <2>1 DEF Placed, Granted, Bulk, Edge, End
  <2>3. IsFiniteSet(wire')
    BY <2>1, FS_Subset
  <2>4. IsFiniteSet(A) /\ Cardinality(A) \in Nat
    BY <2>1, FS_Subset, FS_CardinalityType
  <2>5. Awaited(wire)' = Cardinality(A \ {c})
    <3>1. {d \in wire' : ~Mute(d)'} = A \ {c}
      BY DEF Mute
    <3> QED
      BY <3>1 DEF Awaited
  <2>6. CASE Mute(c)
    <3>1. A \ {c} = A
      BY <2>6
    <3> QED
      BY <2>1, <2>2, <2>3, <2>5, <2>6, <3>1
  <2>7. CASE ~Mute(c)
    <3>1. c \in A
      BY <2>7
    <3>2. Cardinality(A \ {c}) = Cardinality(A) - 1 /\ Cardinality(A \ {c}) \in Nat
      BY <2>4, <3>1, FS_RemoveElement, FS_CardinalityType
    <3>3. todo' = todo - 1 /\ run' # "done"
      BY <2>1, <2>7
    <3> HIDE DEF A
    <3>4. Cardinality(A) - 1 <= todo - 1 /\ todo - 1 \in Nat
      BY <2>1, <2>4, <3>2
    <3>5. Awaited(wire)' = Cardinality(A) - 1
      BY <2>5, <3>2
    <3> QED
      BY <2>2, <2>3, <3>3, <3>4, <3>5
  <2> QED
    BY <2>6, <2>7
<1>3. run # "idle"
  BY DEF RangeInv
<1> QED
  BY <1>1, <1>2, <1>3 DEF WireInv

LEMMA StartKeepsWire ==
  ASSUME RangeInv, WireInv, NEW c \in Commands, Start(c)
  PROVE  WireInv'
<1>1. /\ run = "idle" /\ wire' = {} /\ todo' = 0 /\ cmd' = c /\ c \in Command /\ pos' = c.at
      /\ run' # "idle"
  BY ToolsAssumption DEF Start, RangeInv, WireInv
<1>2. Transfers(c) => run' \in {"failed", "lead"}
  <2>1. CASE run' = "failed" /\ UNCHANGED form
    BY <2>1
  <2>2. CASE \E w \in Lines :
          /\ form' = [line |-> w, endian |-> Order(c), sizes |-> Usable(c, w)]
          /\ run' = IF \/ Usable(c, w) = {}
                       \/ Transfers(c) /\ Order(c) = "none" THEN "failed"
                    ELSE IF Transfers(c) THEN "lead" ELSE "access"
    BY <2>2
  <2> QED
    BY <2>1, <2>2 DEF Start
<1>3. Transfers(cmd)' => run' \in {"failed", "lead"}
  BY <1>1, <1>2 DEF Transfers
<1>4. IsFiniteSet(wire)' /\ Awaited(wire)' = 0
  <2>1. {d \in wire' : ~Mute(d)'} = {}
    BY <1>1
  <2> QED
    BY <1>1, <2>1, FS_EmptySet DEF Awaited
<1>5. (run = "lead" => pos = cmd.at)'
  BY <1>1
<1> QED
  BY <1>1, <1>3, <1>4, <1>5 DEF WireInv, Placed

\* The cycles of a transfer stay on the wire when its program fails.
LEMMA FailureKeepsWire ==
  ASSUME WireInv, Transfers(cmd), UNCHANGED <<cmd, form, pos, wire>>, run' = "failed"
  PROVE  WireInv'
BY DEF WireInv, Carrying, Carries, Sent, Word

LEMMA WireInTools == ToolsSpec => []WireInv
<1>1. ToolsInit => WireInv
  BY DEF ToolsInit, WireInv, Transfers, NoCommand
<1>2. RangeInv /\ WireInv /\ [ToolsNext]_toolsVars => WireInv'
  <2> SUFFICES ASSUME RangeInv, WireInv, [ToolsNext]_toolsVars PROVE WireInv'
    OBVIOUS
  <2>1. CASE UNCHANGED toolVars
    BY <2>1 DEF toolVars, transferVars, WireInv, Transfers, Carrying, Carries, Sent, Word,
       Placed, Granted, Bulk, Edge, End, Awaited, Mute
  <2>2. ASSUME NEW c \in Commands, Start(c) PROVE WireInv'
    BY <2>2, StartKeepsWire
  <2>3. CASE Transfers(cmd) /\ (Lead \/ Batch \/ Trail)
    <3>1. CASE run' = "failed"
      <4>1. UNCHANGED <<cmd, form, pos, wire>>
        BY <2>3, <3>1 DEF Lead, Batch, Trail, Fails
      <4> QED
        BY <2>3, <3>1, <4>1, FailureKeepsWire
    <3>2. CASE run' # "failed"
      <4>1. run # "failed"
        BY <2>3 DEF Lead, Batch, Trail
      <4> QED
        BY <2>3, <3>2, <4>1, LeadProceeds, BatchProceeds, TrailProceeds, ProceedingKeeps
    <3> QED
      BY <3>1, <3>2
  <2>4. CASE Transfers(cmd) /\ Ends
    <3>1. /\ run = "last" /\ run' = "done" /\ todo = 0
          /\ UNCHANGED <<cmd, form, pos, wire, todo>>
      BY <2>4 DEF Ends, transferVars
    <3>2. (\A c \in wire : Carrying(c, pos))'
      BY <2>4, <3>1, CarryingStays DEF WireInv
    <3>3. Placed'
      BY <2>4, <3>1 DEF WireInv, Placed, Granted, Bulk, Edge, End
    <3>4. (IsFiniteSet(wire) /\ todo \in Nat /\ Awaited(wire) <= todo)'
      BY <2>4, <3>1 DEF WireInv, Awaited, Mute
    <3> QED
      BY <3>1, <3>2, <3>3, <3>4 DEF WireInv
  <2>5. ASSUME NEW c \in wire, NEW bad \in SUBSET DOMAIN c, Transfers(cmd),
               Transferred(c, bad) \/ Late(c, bad)
        PROVE  WireInv'
    <3>1. /\ wire' = wire \ {c} /\ UNCHANGED <<cmd, form, pos>> /\ run' \in {run, "failed"}
          /\ run = "done" => Mute(c)
      BY <2>5 DEF Transferred, Late, Answer, transferVars
    <3>2. CASE run' = "failed"
      <4>1. (\A d \in wire : Carrying(d, pos))'
        BY <2>5, <3>1, CarryingStays DEF WireInv
      <4> QED
        BY <3>2, <4>1 DEF WireInv
    <3>3. CASE run' # "failed"
      <4>1. todo' = IF Mute(c) THEN todo ELSE todo - 1
        BY <2>5, <3>3 DEF Transferred, Late
      <4> QED
        BY <2>5, <3>1, <4>1, AnswerKeepsWire
    <3> QED
      BY <3>2, <3>3
  <2>6. ASSUME NEW c \in wire, Transfers(cmd), Lost(c) PROVE WireInv'
    BY <2>6, FailureKeepsWire DEF Lost, Fails
  <2>7. CASE Transfers(cmd) /\ (Access \/ Merge \/ Prints \/ \E c \in wire :
               \E bad \in SUBSET DOMAIN c : Stops(c, bad))
    BY <2>7 DEF Access, Merge, Prints, Stops, RangeInv
  <2>8. CASE ~Transfers(cmd) /\ (Advances \/ \E c \in wire : Lost(c) \/
               \E bad \in SUBSET DOMAIN c : Late(c, bad))
    <3>1. UNCHANGED cmd /\ run' # "idle"
      BY <2>8 DEF Advances, Lead, Batch, Trail, Ends, Access, Merge, Prints, Waited,
         Transferred, Stops, Lost, Late, Fails, RangeInv
    <3> QED
      BY <2>8, <3>1 DEF WireInv, Transfers
  <2> QED
    BY <2>1, <2>2, <2>3, <2>4, <2>5, <2>6, <2>7, <2>8
    DEF ToolsNext, Advances, Waited, toolsVars
<1> QED
  BY <1>1, <1>2, RangeInTools, PTL DEF ToolsSpec

-----------------------------------------------------------------------------
(* The contents of a transfer.                                             *)

\* As many faults as there are: a number
LEMMA FaultsCounted == ASSUME SInv, faults \in Nat, [Next]_vars PROVE faults' \in Nat
<1>1. \A b \in Bus : tree[b] # NoTable =>
        /\ \A F \in SUBSET Bridges(b) : Cardinality(F) \in Nat
        /\ \A F \in SUBSET (0..Len(tree[b])) : Cardinality(F) \in Nat
  <2> SUFFICES ASSUME NEW b \in Bus, tree[b] # NoTable
               PROVE  /\ \A F \in SUBSET Bridges(b) : Cardinality(F) \in Nat
                      /\ \A F \in SUBSET (0..Len(tree[b])) : Cardinality(F) \in Nat
    OBVIOUS
  <2>1. IsFiniteSet(Bridges(b))
    BY ScanIs, BridgeLeads DEF SInv
  <2>2. Len(tree[b]) \in Int
    BY TableOf DEF SInv, Typed
  <2>3. IsFiniteSet(0..Len(tree[b]))
    BY <2>2, FS_Interval
  <2>4. \A F \in SUBSET Bridges(b) : Cardinality(F) \in Nat
    BY <2>1, FS_Subset, FS_CardinalityType
  <2>5. \A F \in SUBSET (0..Len(tree[b])) : Cardinality(F) \in Nat
    BY <2>3, FS_Subset, FS_CardinalityType
  <2> QED
    BY <2>4, <2>5
<1>2. ASSUME NEW b \in Bus, NEW p, GotRecord(b, p) PROVE faults' \in Nat
  <2>1. tree[b] # NoTable
    BY <1>2 DEF GotRecord, Answered, SInv, Counted
  <2>2. \/ UNCHANGED faults \/ faults' = faults + 1
        \/ \E F \in SUBSET Bridges(b) : faults' = faults + Cardinality(F)
    BY <1>2 DEF GotRecord, Deliver, Ruin, Identify, Locate, List
  <2> QED
    BY <1>1, <2>1, <2>2
<1>3. ASSUME NEW b \in Bus, GotHeader(b) PROVE faults' \in Nat
  <2>1. \/ UNCHANGED faults \/ faults' = faults + 1
        \/ /\ tree[b] # NoTable
           /\ \E F \in SUBSET (0..Len(tree[b])) : faults' = faults + Cardinality(F)
    BY <1>3 DEF GotHeader, Ruin
  <2> QED
    BY <1>1, <2>1
<1>4. CASE UNCHANGED vars
  BY <1>4 DEF vars
<1>5. ASSUME NEW kind, NEW key, Find(kind, key) PROVE faults' \in Nat
  BY <1>5 DEF Find
<1>6. CASE \E k \in Ids : \E i \in DOMAIN tree[Root] : FindAt(k, i)
  BY <1>6 DEF FindAt
<1>7. CASE \E b \in Bus : GotPointer(b)
  BY <1>7 DEF GotPointer, Ruin
<1>8. CASE Return \/ PrintRecord \/ ListReturns
  BY <1>8 DEF Return, PrintRecord, ListReturns
<1> QED
  BY <1>2, <1>3, <1>4, <1>5, <1>6, <1>7, <1>8 DEF Next, Progress

\* A transfer that goes well, or of which it is not known otherwise
Well == Transfers(cmd) /\ run # "failed" /\ (cmd.quietly => faults = 0)

\* What is in place is right, and what is not is on its way.
Moved(a) == IF cmd.tool = "put" THEN a \in DOMAIN written ELSE a - cmd.at \in DOMAIN file
Right ==
  /\ cmd.tool = "put" => written = [a \in DOMAIN written |-> Firmware(a - cmd.at)]
  /\ cmd.tool = "get" =>
       /\ DOMAIN file \subseteq 0 .. pos - cmd.at - 1
       /\ file = [j \in DOMAIN file |-> Memory(cmd.at + j)]
  /\ \A a \in cmd.at .. pos - 1 : Moved(a) \/ \E c \in wire : Within(c, a)

RightInv ==
  /\ run = "idle" \/ Transfers(cmd) => faults \in Nat
  /\ run = "idle" => file = Empty
  /\ Well => Right

\* What the remote device has after a cycle of eb-put without errors
LEMMA PerformedRight ==
  ASSUME cmd.tool = "put", cmd.at \in Nat, NEW c, NEW to, Carrying(c, to),
         written = [a \in DOMAIN written |-> Firmware(a - cmd.at)]
  PROVE  LET p == Performed(c, {}) IN
         /\ p = [a \in DOMAIN p |-> Firmware(a - cmd.at)]
         /\ DOMAIN written \subseteq DOMAIN p
         /\ \A a \in Nat : Within(c, a) => a \in DOMAIN p
<1> DEFINE p == Performed(c, {})
           hit(a) == {k \in DOMAIN c : Touches(c[k], a)}
           all == UNION {{a \in c[k].at .. c[k].at + c[k].size - 1 : Touches(c[k], a)} :
                           k \in DOMAIN c}
<1>1. PICK m \in Nat : DOMAIN c = 1..m /\ \A k \in 1..m : Carries(c[k], to)
  BY DEF Carrying
<1>2. p = [a \in DOMAIN written \cup all |->
             IF hit(a) = {} THEN written[a]
             ELSE Word(c[Max(hit(a))].data)[a - c[Max(hit(a))].at + 1]]
  <2>1. DOMAIN c \ {} = DOMAIN c
    OBVIOUS
  <2> QED
    BY <2>1 DEF Performed
<1>3. ASSUME NEW k \in 1..m
      PROVE  /\ c[k].at \in Nat /\ c[k].size \in Nat \ {0} /\ c[k].data # <<>>
             /\ Word(c[k].data) = Sent(c[k])
  <2>1. c[k].at \in Nat /\ c[k].size \in Width /\ c[k].data = Word(Sent(c[k]))
    BY <1>1 DEF Carries
  <2>2. c[k].size \in Nat \ {0}
    BY <2>1 DEF Width
  <2>3. Sent(c[k]) = [j \in 1..c[k].size |-> Sent(c[k])[j]]
    BY DEF Sent
  <2>4. /\ c[k].data = [j \in 1..c[k].size |-> c[k].data[j]]
        /\ Word(c[k].data) = Sent(c[k])
    <3> DEFINE f == Sent(c[k])
               s == c[k].size
    <3>1. s \in Nat /\ f = [j \in 1..s |-> f[j]]
      BY <2>2, <2>3
    <3> HIDE DEF f, s
    <3>2. Word(f) = [j \in 1..s |-> Word(f)[j]] /\ Word(Word(f)) = f
      BY <3>1, WordTwice
    <3> QED
      BY <2>1, <3>2 DEF f, s
  <2>5. c[k].data # <<>>
    <3>1. 1 \in DOMAIN c[k].data
      BY <2>2, <2>4
    <3> QED
      BY <3>1
  <2> QED
    BY <2>1, <2>2, <2>4, <2>5
<1>4. ASSUME NEW a \in DOMAIN written \cup all PROVE p[a] = Firmware(a - cmd.at)
  <2>1. CASE hit(a) = {}
    <3>1. a \notin all
      BY <2>1
    <3> QED
      BY <1>2, <1>4, <2>1, <3>1
  <2>2. CASE hit(a) # {}
    <3> DEFINE k == Max(hit(a))
    <3>1. k \in hit(a)
      <4>1. hit(a) \in SUBSET (1..m)
        BY <1>1
      <4> HIDE DEF hit
      <4> QED
        BY <2>2, <4>1, Greatest
    <3> HIDE DEF k
    <3>2. k \in 1..m /\ a \in c[k].at .. c[k].at + c[k].size - 1
      BY <1>1, <3>1 DEF Touches
    <3>3. p[a] = Sent(c[k])[a - c[k].at + 1]
      BY <1>2, <1>3, <1>4, <2>2, <3>2 DEF k
    <3>4. a - c[k].at + 1 \in 1..c[k].size
      BY <1>3, <3>2
    <3>5. Sent(c[k])[a - c[k].at + 1] =
            Firmware(c[k].at - cmd.at + (a - c[k].at + 1) - 1)
      BY <3>4 DEF Sent
    <3>6. c[k].at - cmd.at + (a - c[k].at + 1) - 1 = a - cmd.at
      BY <1>3, <3>2
    <3> QED
      BY <3>3, <3>5, <3>6
  <2> QED
    BY <2>1, <2>2
<1>5. DOMAIN p = DOMAIN written \cup all
  BY <1>2
<1>6. p = [a \in DOMAIN p |-> p[a]]
  BY <1>2
<1>7. p = [a \in DOMAIN p |-> Firmware(a - cmd.at)]
  <2> HIDE DEF p, all
  <2> QED
    BY <1>4, <1>5, <1>6
<1>8. ASSUME NEW a \in Nat, Within(c, a) PROVE a \in all
  <2>1. PICK k \in 1..m : c[k].at <= a /\ a < c[k].at + c[k].size
    BY <1>1, <1>8 DEF Within
  <2>2. a \in c[k].at .. c[k].at + c[k].size - 1
    BY <1>3, <2>1
  <2>3. Touches(c[k], a)
    BY <1>3, <2>2 DEF Touches
  <2> QED
    BY <1>1, <2>2, <2>3
<1> QED
  BY <1>5, <1>7, <1>8

\* What eb-get has stored after a cycle without errors
LEMMA StoredRight ==
  ASSUME cmd.tool = "get", cmd.at \in Nat, NEW c, NEW to \in Nat, Carrying(c, to),
         written = Empty, file = [j \in DOMAIN file |-> Memory(cmd.at + j)],
         DOMAIN file \subseteq 0 .. to - cmd.at - 1
  PROVE  LET f == Stored(c, {}, DOMAIN c) IN
         /\ f = [j \in DOMAIN f |-> Memory(cmd.at + j)]
         /\ DOMAIN file \subseteq DOMAIN f /\ DOMAIN f \subseteq 0 .. to - cmd.at - 1
         /\ \A a \in Nat : Within(c, a) => a - cmd.at \in DOMAIN f
<1> DEFINE f == Stored(c, {}, DOMAIN c)
           part(k) == Place(c, k) .. Place(c, k) + c[k].size - 1
           by(j) == {k \in DOMAIN c : j \in part(k)}
           all == UNION {part(k) : k \in DOMAIN c}
<1>1. PICK m \in Nat : DOMAIN c = 1..m /\ \A k \in 1..m : Carries(c[k], to)
  BY DEF Carrying
<1>2. f = [j \in DOMAIN file \cup all |->
             IF by(j) = {} THEN file[j]
             ELSE Word(Value(c, {}, Max(by(j))))[j - Place(c, Max(by(j))) + 1]]
  BY DEF Stored
<1>3. ASSUME NEW k \in 1..m
      PROVE  /\ c[k].at \in Nat /\ c[k].size \in Nat \ {0}
             /\ cmd.at <= c[k].at /\ c[k].at + c[k].size <= to
             /\ Place(c, k) = c[k].at - cmd.at
             /\ Word(Value(c, {}, k)) = Bytes(c[k].at, c[k].size)
  <2>1. /\ c[k].at \in Nat /\ c[k].size \in Width
        /\ cmd.at <= c[k].at /\ c[k].at + c[k].size <= to
    BY <1>1 DEF Carries
  <2>2. c[k].size \in Nat \ {0}
    BY <2>1 DEF Width
  <2>3. Value(c, {}, k) = Word(Bytes(c[k].at, c[k].size))
    BY DEF Value
  <2>4. Bytes(c[k].at, c[k].size) = [j \in 1..c[k].size |-> Bytes(c[k].at, c[k].size)[j]]
    BY DEF Bytes
  <2>5. Word(Word(Bytes(c[k].at, c[k].size))) = Bytes(c[k].at, c[k].size)
    BY <2>2, <2>4, WordTwice
  <2> QED
    BY <2>1, <2>2, <2>3, <2>5 DEF Place
<1>4. ASSUME NEW j \in DOMAIN file \cup all PROVE f[j] = Memory(cmd.at + j)
  <2>1. CASE by(j) = {}
    <3>1. j \notin all
      BY <2>1
    <3> QED
      BY <1>2, <1>4, <2>1, <3>1
  <2>2. CASE by(j) # {}
    <3> DEFINE k == Max(by(j))
    <3>1. k \in by(j)
      <4>1. by(j) \in SUBSET (1..m)
        BY <1>1
      <4> HIDE DEF by
      <4> QED
        BY <2>2, <4>1, Greatest
    <3> HIDE DEF k
    <3>2. k \in 1..m /\ j \in part(k)
      BY <1>1, <3>1
    <3>3. f[j] = Bytes(c[k].at, c[k].size)[j - Place(c, k) + 1]
      BY <1>2, <1>3, <1>4, <2>2, <3>2 DEF k
    <3> DEFINE x == j - (c[k].at - cmd.at) + 1
    <3>4. x \in 1..c[k].size /\ j - Place(c, k) + 1 = x
      BY <1>3, <3>2
    <3>5. c[k].at + x - 1 = cmd.at + j
      BY <1>3, <3>2
    <3> HIDE DEF x
    <3>6. Bytes(c[k].at, c[k].size)[x] = Now(c[k].at + x - 1)
      BY <3>4 DEF Bytes
    <3>7. Now(cmd.at + j) = Memory(cmd.at + j)
      BY DEF Now, Empty
    <3> QED
      BY <3>3, <3>4, <3>5, <3>6, <3>7
  <2> QED
    BY <2>1, <2>2
<1>5. DOMAIN f = DOMAIN file \cup all
  BY <1>2
<1>6. f = [j \in DOMAIN f |-> f[j]]
  BY <1>2
<1>7. f = [j \in DOMAIN f |-> Memory(cmd.at + j)]
  <2> HIDE DEF f, all
  <2> QED
    BY <1>4, <1>5, <1>6
<1>8. ASSUME NEW a \in Nat, Within(c, a) PROVE a - cmd.at \in all
  <2>1. PICK k \in 1..m : c[k].at <= a /\ a < c[k].at + c[k].size
    BY <1>1, <1>8 DEF Within
  <2>2. a - cmd.at \in part(k)
    BY <1>3, <2>1
  <2> QED
    BY <1>1, <2>2
<1>9. all \subseteq 0 .. to - cmd.at - 1
  <2> SUFFICES ASSUME NEW k \in 1..m, NEW j \in part(k) PROVE j \in 0 .. to - cmd.at - 1
    BY <1>1
  <2> QED
    BY <1>3
<1> QED
  BY <1>5, <1>7, <1>8, <1>9

LEMMA StartRight == ASSUME RangeInv, RightInv, NEW c \in Commands, Start(c) PROVE RightInv'
<1>1. /\ run = "idle" /\ written' = Empty /\ file' = Empty /\ cmd' = c /\ c \in Command
      /\ pos' = c.at /\ run' # "idle" /\ faults' \in Nat
  BY ToolsAssumption DEF Start, RangeInv, RightInv
<1>2. DOMAIN Empty = {}
  BY DEF Empty
<1>3. \A a \in c.at .. c.at - 1 : FALSE
  BY <1>1 DEF Command
<1>4. Empty = [a \in {} |-> Firmware(a - c.at)] /\ Empty = [j \in {} |-> Memory(c.at + j)]
  BY DEF Empty
<1>5. Right'
  BY <1>1, <1>2, <1>3, <1>4 DEF Right
<1> QED
  BY <1>1, <1>5 DEF RightInv

\* Cycles that are sent are for all that is not in place.
LEMMA ProceedingKeepsRight ==
  ASSUME RangeInv, RightInv, Transfers(cmd), run # "failed", NEW cs, Proceeding(cs),
         run' # "idle"
  PROVE  RightInv'
<1>1. /\ UNCHANGED <<cmd, form, written, file, faults>> /\ wire' = wire \cup cs
      /\ pos' \in Nat /\ pos <= pos'
      /\ \A a \in pos .. pos' - 1 : \E c \in cs : Within(c, a)
  BY DEF Proceeding, Sends
<1>2. cmd \in Command /\ cmd.at \in Nat /\ pos \in Nat
  BY DEF RangeInv, Transfers, NoCommand, Command
<1>3. ASSUME Well' PROVE Right'
  <2>1. Right
    BY <1>1, <1>3 DEF RightInv, Well
  <2>2. (cmd.tool = "put" => written = [a \in DOMAIN written |-> Firmware(a - cmd.at)])'
    BY <1>1, <2>1 DEF Right
  <2>3. (cmd.tool = "get" =>
           /\ DOMAIN file \subseteq 0 .. pos - cmd.at - 1
           /\ file = [j \in DOMAIN file |-> Memory(cmd.at + j)])'
    BY <1>1, <1>2, <2>1 DEF Right
  <2>4. ASSUME NEW a, a \in cmd.at .. pos' - 1
        PROVE  Moved(a)' \/ \E c \in wire' : Within(c, a)
    <3>1. CASE a \in pos .. pos' - 1
      BY <1>1, <3>1
    <3>2. CASE a \in cmd.at .. pos - 1
      BY <1>1, <2>1, <3>2 DEF Right, Moved
    <3>3. a \in pos .. pos' - 1 \/ a \in cmd.at .. pos - 1
      <4> DEFINE to == pos'
      <4>1. to \in Nat /\ a \in cmd.at .. to - 1
        BY <1>1, <2>4
      <4> HIDE DEF to
      <4>2. a \in pos .. to - 1 \/ a \in cmd.at .. pos - 1
        BY <1>2, <4>1
      <4> QED
        BY <4>2 DEF to
    <3> QED
      BY <3>1, <3>2, <3>3
  <2>5. (\A a \in cmd.at .. pos - 1 : Moved(a) \/ \E c \in wire : Within(c, a))'
    BY <1>1, <2>4 DEF Within, Moved
  <2> QED
    BY <2>2, <2>3, <2>5 DEF Right
<1> QED
  BY <1>1, <1>3 DEF RightInv, Transfers

\* An answer puts in place what its cycle carries, unless the transfer no longer goes well.
LEMMA AnswerKeepsRight ==
  ASSUME RangeInv, WireInv, RightInv, Transfers(cmd), NEW c \in wire,
         NEW bad \in SUBSET DOMAIN c, Transferred(c, bad) \/ Late(c, bad)
  PROVE  RightInv'
<1>1. /\ wire' = wire \ {c} /\ UNCHANGED <<cmd, form, pos>> /\ run' \in {run, "failed"}
      /\ faults' = faults + Cardinality(bad) /\ written' = Performed(c, bad)
      /\ run # "idle" /\ faults \in Nat
  BY DEF Transferred, Late, Answer, transferVars, RangeInv, RightInv
<1>2. PICK m \in Nat : DOMAIN c = 1..m /\ \A k \in 1..m : Carries(c[k], pos)
  BY DEF WireInv, Carrying
<1>3. IsFiniteSet(bad) /\ Cardinality(bad) \in Nat
  <2>1. IsFiniteSet(1..m)
    BY FS_Interval
  <2> QED
    BY <1>2, <2>1, FS_Subset, FS_CardinalityType
<1>4. cmd \in Command /\ cmd.at \in Nat /\ pos \in Nat /\ Carrying(c, pos)
  BY DEF RangeInv, WireInv, Transfers, NoCommand, Command
<1>5. ASSUME Well' PROVE Right'
  <2>1. run # "failed" /\ run' # "failed"
    BY <1>1, <1>5 DEF Well
  <2>2. bad = {}
    <3>1. CASE ~cmd.quietly
      BY <2>1, <3>1 DEF Transferred, Late, Mute
    <3>2. CASE cmd.quietly
      <4>1. faults + Cardinality(bad) = 0
        BY <1>1, <1>5, <3>2 DEF Well
      <4>2. Cardinality(bad) = 0
        BY <1>1, <1>3, <4>1
      <4> QED
        BY <1>3, <4>2, FS_EmptySet
    <3> QED
      BY <3>1, <3>2
  <2>3. Right
    <3>1. cmd.quietly => faults = 0
      BY <1>1, <1>3, <1>5 DEF Well
    <3> QED
      BY <2>1, <3>1 DEF RightInv, Well
  <2>4. CASE cmd.tool = "put"
    <3>1. written = [a \in DOMAIN written |-> Firmware(a - cmd.at)]
      BY <2>3, <2>4 DEF Right
    <3>2. /\ written' = [a \in DOMAIN written' |-> Firmware(a - cmd.at)]
          /\ DOMAIN written \subseteq DOMAIN written'
          /\ \A a \in Nat : Within(c, a) => a \in DOMAIN written'
      BY <1>1, <1>4, <2>2, <2>4, <3>1, PerformedRight
    <3>3. ASSUME NEW a \in cmd.at .. pos - 1
          PROVE  a \in DOMAIN written' \/ \E d \in wire' : Within(d, a)
      <4>1. a \in DOMAIN written \/ \E d \in wire : Within(d, a)
        BY <2>3, <2>4 DEF Right, Moved
      <4>2. a \in Nat
        BY <1>4
      <4> QED
        BY <1>1, <3>2, <4>1, <4>2
    <3>4. (\A a \in cmd.at .. pos - 1 : Moved(a) \/ \E d \in wire : Within(d, a))'
      BY <1>1, <2>4, <3>3 DEF Within, Moved
    <3> QED
      BY <1>1, <2>4, <3>2, <3>4 DEF Right
  <2>5. CASE cmd.tool = "get"
    <3>1. /\ file = [j \in DOMAIN file |-> Memory(cmd.at + j)]
          /\ DOMAIN file \subseteq 0 .. pos - cmd.at - 1
      BY <2>3, <2>5 DEF Right
    <3>2. /\ file' = [j \in DOMAIN file' |-> Memory(cmd.at + j)]
          /\ DOMAIN file \subseteq DOMAIN file' /\ DOMAIN file' \subseteq 0 .. pos - cmd.at - 1
          /\ \A a \in Nat : Within(c, a) => a - cmd.at \in DOMAIN file'
      <4>1. CASE Transferred(c, bad)
        <5>1. file' = Stored(c, {}, DOMAIN c)
          BY <2>2, <2>5, <4>1 DEF Transferred
        <5>2. written = Empty
          BY <2>5 DEF RangeInv, OnlyItsRange
        <5> QED
          BY <1>4, <2>5, <3>1, <5>1, <5>2, StoredRight
      <4>2. CASE Late(c, bad)
        <5>1. file' = file /\ Mute(c)
          BY <2>1, <4>2 DEF Late, transferVars
        <5>2. \A k \in DOMAIN c : FALSE
          BY <1>2, <2>5, <5>1 DEF Mute, Carries
        <5>3. \A a \in Nat : ~Within(c, a)
          BY <5>2 DEF Within
        <5> QED
          BY <3>1, <5>1, <5>3
      <4> QED
        BY <4>1, <4>2
    <3>3. ASSUME NEW a \in cmd.at .. pos - 1
          PROVE  a - cmd.at \in DOMAIN file' \/ \E d \in wire' : Within(d, a)
      <4>1. a - cmd.at \in DOMAIN file \/ \E d \in wire : Within(d, a)
        BY <2>3, <2>5 DEF Right, Moved
      <4>2. a \in Nat
        BY <1>4
      <4> QED
        BY <1>1, <3>2, <4>1, <4>2
    <3>4. (\A a \in cmd.at .. pos - 1 : Moved(a) \/ \E d \in wire : Within(d, a))'
      BY <1>1, <2>5, <3>3 DEF Within, Moved
    <3> QED
      BY <1>1, <2>5, <3>2, <3>4 DEF Right
  <2> QED
    BY <2>4, <2>5 DEF Transfers
<1> QED
  BY <1>1, <1>3, <1>5 DEF RightInv

\* When a transfer ends well, the range holds the file of eb-put, or the file of eb-get
\* what the range held, byte for byte, and nothing else was touched, for any file, any
\* memory, any accesses that device and line take and in whichever order the cycles
\* are answered.  (main, transfer and dec_todo of eb-put.c and eb-get.c)
THEOREM TransfersAreExact == ToolsSpec => []TransfersExactly
<1>1. ToolsInit => RightInv
  BY DEF ToolsInit, Init, RightInv, Well, Transfers, NoCommand
<1>2. SInv /\ RangeInv /\ WireInv /\ RightInv /\ [ToolsNext]_toolsVars => RightInv'
  <2> SUFFICES ASSUME SInv, RangeInv, WireInv, RightInv, [ToolsNext]_toolsVars
               PROVE  RightInv'
    OBVIOUS
  <2>1. CASE run = "idle" /\ Next /\ UNCHANGED toolVars
    <3>1. faults' \in Nat
      BY <2>1, FaultsCounted DEF RightInv
    <3>2. ~Transfers(cmd)' /\ run' = "idle" /\ file' = file
      BY <2>1 DEF RangeInv, toolVars, transferVars, Transfers
    <3> QED
      BY <2>1, <3>1, <3>2 DEF RightInv, Well
  <2>2. CASE UNCHANGED toolsVars
    BY <2>2 DEF toolsVars, vars, toolVars, transferVars, RightInv, Well, Right, Transfers,
       Moved, Within
  <2>3. ASSUME NEW c \in Commands, Start(c) PROVE RightInv'
    BY <2>3, StartRight
  <2>4. CASE Transfers(cmd) /\ (Lead \/ Batch \/ Trail)
    <3>1. run \notin {"failed", "idle"} /\ run' # "idle"
      BY <2>4 DEF Lead, Batch, Trail, Fails
    <3>2. CASE run' = "failed"
      <4>1. UNCHANGED <<cmd, faults>>
        BY <2>4 DEF Lead, Batch, Trail
      <4> QED
        BY <2>4, <3>2, <4>1 DEF RightInv, Well, Transfers
    <3>3. CASE run' # "failed"
      BY <2>4, <3>1, <3>3, LeadProceeds, BatchProceeds, TrailProceeds, ProceedingKeepsRight
    <3> QED
      BY <3>2, <3>3
  <2>5. CASE Transfers(cmd) /\ Ends
    BY <2>5 DEF Ends, transferVars, RightInv, Well, Right, Transfers, Moved, Within
  <2>6. ASSUME NEW c \in wire, NEW bad \in SUBSET DOMAIN c, Transfers(cmd),
               Transferred(c, bad) \/ Late(c, bad)
        PROVE  RightInv'
    BY <2>6, AnswerKeepsRight
  <2>7. ASSUME NEW c \in wire, Transfers(cmd), Lost(c) PROVE RightInv'
    BY <2>7 DEF Lost, Fails, RightInv, Well, Transfers
  <2>8. CASE Transfers(cmd) /\ (Access \/ Merge \/ Prints \/ \E c \in wire :
               \E bad \in SUBSET DOMAIN c : Stops(c, bad))
    BY <2>8 DEF Access, Merge, Prints, Stops, RangeInv
  <2>9. CASE ~Transfers(cmd) /\ (Advances \/ \E c \in wire : Lost(c) \/
               \E bad \in SUBSET DOMAIN c : Late(c, bad))
    <3>1. UNCHANGED cmd /\ run' # "idle"
      BY <2>9 DEF Advances, Lead, Batch, Trail, Ends, Access, Merge, Prints, Waited,
         Transferred, Stops, Lost, Late, Fails, RangeInv
    <3> QED
      BY <2>9, <3>1 DEF RightInv, Transfers, Well
  <2> QED
    BY <2>1, <2>2, <2>3, <2>4, <2>5, <2>6, <2>7, <2>8, <2>9
    DEF ToolsNext, Advances, Waited
<1>3. RangeInv /\ WireInv /\ RightInv => TransfersExactly
  <2> SUFFICES ASSUME RangeInv, WireInv, RightInv PROVE TransfersExactly
    OBVIOUS
  <2>1. OnlyItsRange
    BY DEF RangeInv, OnlyItsRange, Transfers
  <2>2. ASSUME run = "done", cmd.quietly => wire = {} /\ faults = 0, Transfers(cmd),
               cmd.tool = "put" \/ Granted
        PROVE  /\ cmd.tool = "put" =>
                    written = [a \in cmd.at .. End - 1 |-> Firmware(a - cmd.at)]
               /\ cmd.tool = "get" =>
                    file = [j \in 0 .. cmd.len - 1 |-> Memory(cmd.at + j)]
    <3>1. Right /\ pos = End
      BY <2>2 DEF Well, RightInv, WireInv, Placed
    <3>2. wire = {}
      <4>1. CASE cmd.quietly
        BY <2>2, <4>1
      <4>2. CASE ~cmd.quietly
        <5>1. {c \in wire : ~Mute(c)} = wire
          BY <4>2 DEF Mute
        <5>2. IsFiniteSet(wire) /\ Cardinality(wire) <= 0
          BY <2>2, <5>1 DEF WireInv, Awaited
        <5>3. Cardinality(wire) \in Nat
          BY <5>2, FS_CardinalityType
        <5> QED
          BY <5>2, <5>3, FS_EmptySet
      <4> QED
        BY <4>1, <4>2
    <3>3. \A a \in cmd.at .. End - 1 : Moved(a)
      BY <3>1, <3>2 DEF Right
    <3>4. cmd.at \in Nat /\ cmd.len \in Nat /\ End = cmd.at + cmd.len
      BY <2>2 DEF RangeInv, Transfers, NoCommand, Command, End
    <3>5. ASSUME cmd.tool = "put"
          PROVE  written = [a \in cmd.at .. End - 1 |-> Firmware(a - cmd.at)]
      <4>1. DOMAIN written = cmd.at .. End - 1
        BY <2>1, <3>3, <3>5 DEF OnlyItsRange, Moved
      <4> QED
        BY <3>1, <3>5, <4>1 DEF Right
    <3>6. ASSUME cmd.tool = "get"
          PROVE  file = [j \in 0 .. cmd.len - 1 |-> Memory(cmd.at + j)]
      <4>1. ASSUME NEW j \in 0 .. cmd.len - 1 PROVE j \in DOMAIN file
        <5>1. cmd.at + j \in cmd.at .. End - 1 /\ (cmd.at + j) - cmd.at = j
          BY <3>4
        <5> QED
          BY <3>3, <3>6, <5>1 DEF Moved
      <4>2. DOMAIN file \subseteq 0 .. cmd.len - 1
        BY <3>1, <3>4, <3>6 DEF Right
      <4>3. DOMAIN file = 0 .. cmd.len - 1
        BY <4>1, <4>2
      <4> QED
        BY <3>1, <3>6, <4>3 DEF Right
    <3> QED
      BY <3>5, <3>6
  <2> QED
    BY <2>1, <2>2 DEF TransfersExactly, Transfers
<1> QED
  BY <1>1, <1>2, <1>3, ScansInTools, RangeInTools, WireInTools, PTL DEF ToolsSpec
=============================================================================
