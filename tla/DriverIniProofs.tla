-------------------------- MODULE DriverIniProofs --------------------------
(***************************************************************************)
(* The driver's configuration file stays right through any edits: no two   *)
(* devices share a name or an address, the counts cover the devices, every *)
(* device is served after a boot, and Remove takes one device out.         *)
(***************************************************************************)
EXTENDS DriverIni, FiniteSetTheorems, WellFoundedInduction, TLAPS

-----------------------------------------------------------------------------
(* Sets of numbers.                                                         *)

LEMMA LeastNat ==
  ASSUME NEW S \in SUBSET Nat, S # {}
  PROVE  Min(S) \in S /\ \A y \in S : Min(S) <= y
<1> DEFINE T == {0..x : x \in S}
<1>1. T \subseteq FiniteSubsetsOf(Nat) /\ T # {}
  <2>1. \A x \in S : 0..x \in FiniteSubsetsOf(Nat)
    <3> TAKE x \in S
    <3>1. IsFiniteSet(0..x)
      BY FS_Interval
    <3>2. 0..x \in SUBSET Nat
      OBVIOUS
    <3> QED
      BY <3>1, <3>2 DEF FiniteSubsetsOf
  <2> QED
    BY <2>1, S # {}
<1>2. PICK A \in T : \A B \in T : ~(<<B, A>> \in StrictSubsetOrdering(Nat))
  BY <1>1, FS_StrictSubsetOrderingWellFounded, WFMin
<1>3. PICK x \in S : A = 0..x
  BY <1>2
<1>4. ASSUME NEW y \in S, y < x
      PROVE  FALSE
  <2>1. 0..y \subseteq 0..x /\ 0..y # 0..x
    BY <1>4
  <2>2. <<0..y, 0..x>> \in StrictSubsetOrdering(Nat)
    BY <2>1 DEF StrictSubsetOrdering
  <2> QED
    BY <1>2, <1>3, <2>2
<1>5. \A y \in S : x <= y
  BY <1>4
<1> QED
  BY <1>5 DEF Min

(* The i-th number of a set is the one with i numbers up to it.             *)
LEMMA AscendingIsList ==
  ASSUME NEW S \in SUBSET Int, IsFiniteSet(S)
  PROVE  \A q : q = Ascending(S) =>
         /\ DOMAIN q = 1..Cardinality(S) /\ Cardinality(S) \in Nat
         /\ \A i \in DOMAIN q : q[i] \in S
         /\ \A i, j \in DOMAIN q : q[i] = q[j] => i = j
         /\ \A x \in S : \E i \in DOMAIN q : q[i] = x
<1> TAKE q
<1> HAVE q = Ascending(S)
<1> DEFINE Up(x) == {y \in S : y <= x}
           n == Cardinality(S)
           r == [x \in S |-> Cardinality(Up(x))]
<1>1. n \in Nat
  BY FS_CardinalityType
<1>2. \A x \in S : /\ IsFiniteSet(Up(x)) /\ Cardinality(Up(x)) \in 1..n
  <2> TAKE x \in S
  <2>1. IsFiniteSet(Up(x)) /\ Cardinality(Up(x)) <= n
    BY FS_Subset
  <2>2. Cardinality(Up(x)) \in Nat /\ Up(x) # {}
    BY <2>1, FS_CardinalityType
  <2>3. Cardinality(Up(x)) # 0
    BY <2>1, <2>2, FS_EmptySet
  <2> QED
    BY <1>1, <2>1, <2>2, <2>3
<1>3. \A x, y \in S : Cardinality(Up(x)) = Cardinality(Up(y)) => x = y
  <2>1. ASSUME NEW x \in S, NEW y \in S, x < y, Cardinality(Up(x)) = Cardinality(Up(y))
        PROVE  FALSE
    <3>0. \A z \in S : z <= x => z <= y
      BY <2>1
    <3>1. Up(x) \in SUBSET Up(y)
      BY <3>0
    <3>2. IsFiniteSet(Up(y)) /\ y \in Up(y) /\ y \notin Up(x)
      BY <1>2, <2>1
    <3> HIDE DEF Up
    <3>3. Cardinality(Up(x)) # Cardinality(Up(y))
      BY <3>1, <3>2, FS_Subset
    <3> QED
      BY <2>1, <3>3
  <2> QED
    BY <2>1
<1>4. r \in Injection(S, 1..n)
  BY <1>2, <1>3 DEF Injection, IsInjective
<1>5. \A i \in 1..n : \E x \in S : Cardinality(Up(x)) = i
  <2>1. IsFiniteSet(1..n) /\ Cardinality(1..n) = n
    BY <1>1, FS_Interval
  <2>2. r \in Surjection(S, 1..n)
    BY <1>4, <2>1, FS_Injection
  <2> QED
    BY <2>2 DEF Surjection
<1>6. \A i \in 1..n : q[i] \in S /\ Cardinality(Up(q[i])) = i
  BY <1>5 DEF Ascending
<1>7. DOMAIN q = 1..n
  BY DEF Ascending
<1> HIDE DEF Up
<1>8. \A x \in S : q[Cardinality(Up(x))] = x
  BY <1>2, <1>3, <1>6
<1>9. \A i, j \in DOMAIN q : q[i] = q[j] => i = j
  BY <1>6, <1>7
<1> QED
  BY <1>1, <1>2, <1>6, <1>7, <1>8, <1>9

-----------------------------------------------------------------------------
(* The invariant.  Full(b) are the device headers in use of block b; two    *)
(* devices differ when neither their names nor their addresses are the same.*)

Header(m) == [devs : 0..m, dcbs : {MaxDcb}, adv : BOOLEAN]
Block(m) == [init : BOOLEAN, hdr : Header(m), dev : [Slots -> Devices \union {NoDev}]]
Full(b) == {s \in Slots : b.dev[s] # NoDev}
GoodBlock(b, m) ==
  /\ b \in Block(m)
  /\ Cardinality(Full(b)) <= b.hdr.devs
  /\ ~b.init => Full(b) = {}
Differ(d, e) == d.name # e.name /\ d.addr # e.addr

(* A file whose counts are at most m.                                       *)
Shaped(f, m) ==
  /\ f \in [count : Nat, loads : Seq(Block(m))] /\ f.count = Len(f.loads)
  /\ \A l \in 1..f.count : GoodBlock(f.loads[l], m) /\ (~f.loads[l].init => f.count = 1)
  /\ f.count > 1 => Full(f.loads[1]) # {}
Apart(f) ==
  \A l, k \in 1..f.count : \A s \in Full(f.loads[l]), t \in Full(f.loads[k]) :
    l # k \/ s # t => Differ(f.loads[l].dev[s], f.loads[k].dev[t])
Good(f, m) == Shaped(f, m) /\ Apart(f)

(* How far a count may have got: every device inserted may have raised it.  *)
Most == MaxDcb + edits - (IF nb.open /\ nb.insert THEN 1 ELSE 0)

IsBag(b) == \A x \in DOMAIN b : b[x] \in Nat \ {0}

(* What holds whether or not the configuration is intact.                   *)
Counted(f) == DOMAIN f = {"count", "loads"} /\ f.count \in Int
Base ==
  /\ Counted(file) /\ Counted(saved) /\ nload \in Int /\ lines \in Int
  /\ edits \in 0..MaxEdits
  /\ DOMAIN nb = {"open", "insert", "old"}
  /\ nb.open \in BOOLEAN /\ nb.insert \in BOOLEAN /\ (nb.open => dlg = "advanced")
  /\ DOMAIN boot = {"left", "taken", "resident", "done"}
  /\ boot.left \in Nat /\ boot.resident \in BOOLEAN /\ boot.done \in BOOLEAN
  /\ (boot.left > 0 => boot.done) /\ (boot.done => dlg = "closed")

(* The list box shows block b.                                              *)
Shows(q, b) ==
  /\ q \in Seq(Names) /\ Len(q) = Cardinality(Full(b))
  /\ \A i, j \in DOMAIN q : q[i] = q[j] => i = j
  /\ \A i \in DOMAIN q : \E s \in Full(b) : b.dev[s].name = q[i]
  /\ \A s \in Full(b) : \E i \in DOMAIN q : b.dev[s].name = q[i]

(* The position, the header and the list of the advanced dialog, ...         *)
Placed ==
  /\ nload = file.count /\ pos \in [load : 1..file.count, dev : 0..MaxDcb]
  /\ gcfg \in Header(Most) /\ Cardinality(Full(file.loads[pos.load])) <= gcfg.devs
  /\ Shows(shown, file.loads[pos.load])
  /\ mark \in {0} \union DOMAIN shown /\ (shown = <<>> => sel = 0)
  /\ can \in [add : BOOLEAN, drop : BOOLEAN]
  /\ can.drop => file.count > 1
  /\ can.add => Full(file.loads[1]) # {}

(* ... the names and addresses in use: in the file, but for the device that  *)
(* is edited, ...                                                           *)
Rest(l, s) == s \in Full(file.loads[l]) /\ (nb.open => l # pos.load \/ s # pos.dev)
Listed ==
  /\ avail \subseteq Names /\ IsBag(addrs) /\ IsBag(load_addrs) /\ cur \in Names \union {0}
  /\ \A l \in 1..file.count : \A s \in Slots : Rest(l, s) =>
       LET d == file.loads[l].dev[s] IN
       /\ d.name \notin avail /\ d.addr \in DOMAIN addrs
       /\ nb.open => d.name # cur /\ d.addr # nb.old
  /\ \A l \in 1..file.count \ {pos.load} : \A s \in Full(file.loads[l]) :
       file.loads[l].dev[s].addr \notin DOMAIN load_addrs
  /\ nb.open => cur \notin avail

(* ... and the device the dialog has read, which is at its position.         *)
AtPos == pos.dev # 0 /\ file.loads[pos.load].dev[pos.dev] = gdev /\ gdev # NoDev
Linked ==
  /\ ~nb.open => (sel \in DOMAIN shown /\ cur = shown[sel] => AtPos /\ gdev.name = cur)
  /\ nb.open /\ nb.insert => pos.dev = 0 /\ mark = 0 /\ Len(shown) < MaxDcb
  /\ nb.open /\ ~nb.insert => AtPos /\ sel \in DOMAIN shown /\ shown[sel] = gdev.name /\ nb.old # 0

Progress ==
  LET n == lines - boot.left IN
  /\ boot.left <= lines /\ lines > 0
  /\ IF boot.resident
     THEN \E k \in 1..file.count : /\ boot.taken = 1..k /\ (k = file.count \/ k >= n)
                                   /\ served = UNION {DevicesOf(file, l) : l \in 1..k}
     ELSE served = {} /\ (n > 0 /\ file.count > 0 => Full(file.loads[1]) = {})

Sound ==
  /\ Good(file, Most)
  /\ dlg = "closed" => (file.count > 0 /\ ~file.loads[1].init => gcfg \in Header(Most))
  /\ dlg = "simple" => gcfg \in Header(Most)
  /\ dlg = "simple" \/ (dlg = "advanced" /\ ~nested) => Good(saved, Most) /\ saved.count > 0
  /\ dlg = "advanced" => Placed /\ Listed /\ Linked
  /\ boot.done => Progress

Inv == Base /\ (intact => Sound)
-----------------------------------------------------------------------------
(* Blocks and files.                                                        *)

LEMMA FullFinite ==
  ASSUME NEW b
  PROVE  /\ IsFiniteSet(Full(b)) /\ Cardinality(Full(b)) \in 0..MaxDcb
         /\ Cardinality(Full(b)) = 0 <=> Full(b) = {}
         /\ Cardinality(Full(b)) = MaxDcb <=> Full(b) = Slots
<1>1. IsFiniteSet(Slots) /\ Cardinality(Slots) = MaxDcb /\ MaxDcb \in Nat
  BY FS_Interval, DriverIniAssumption DEF Slots
<1>2. Full(b) \in SUBSET Slots
  BY DEF Full
<1> QED
  BY <1>1, <1>2, FS_Subset, FS_CardinalityType, FS_EmptySet

(* One device header of a block is written.                                 *)
LEMMA DevWritten ==
  ASSUME NEW b, NEW c, NEW d, NEW s \in Slots, DOMAIN b.dev = Slots,
         c.dev = [b.dev EXCEPT ![s] = d]
  PROVE  /\ d # NoDev => Full(c) = Full(b) \union {s}
         /\ d = NoDev => Full(c) = Full(b) \ {s}
         /\ d # NoDev /\ s \in Full(b) => Cardinality(Full(c)) = Cardinality(Full(b))
         /\ d # NoDev /\ s \notin Full(b) => Cardinality(Full(c)) = Cardinality(Full(b)) + 1
         /\ d = NoDev /\ s \in Full(b) => Cardinality(Full(c)) = Cardinality(Full(b)) - 1
<1>1. d # NoDev => Full(c) = Full(b) \union {s}
  BY DEF Full
<1>2. d = NoDev => Full(c) = Full(b) \ {s}
  BY DEF Full
<1>3. d # NoDev /\ s \in Full(b) => Full(c) = Full(b)
  BY <1>1
<1> QED
  BY <1>1, <1>2, <1>3, FullFinite, FS_AddElement, FS_RemoveElement

LEMMA GoodGrows ==
  ASSUME NEW f, NEW m \in Nat, NEW n \in Nat, m <= n
  PROVE  /\ Header(m) \subseteq Header(n)
         /\ Good(f, m) => Good(f, n)
<1>1. Header(m) \subseteq Header(n)
  BY DEF Header
<1>2. Block(m) \subseteq Block(n)
  BY <1>1 DEF Block
<1>3. Seq(Block(m)) \subseteq Seq(Block(n))
  BY <1>2
<1> QED
  BY <1>1, <1>2, <1>3 DEF Good, Shaped, GoodBlock

(* A block is replaced in its place.                                        *)
With(f, l, b) == [f EXCEPT !.loads[l] = b]

LEMMA Replaced ==
  ASSUME NEW f, NEW m \in Nat, NEW l \in 1..f.count, NEW b, Good(f, m),
         GoodBlock(b, m), ~b.init => f.count = 1, f.count > 1 /\ l = 1 => Full(b) # {},
         \A s, t \in Full(b) : s # t => Differ(b.dev[s], b.dev[t]),
         \A k \in 1..f.count \ {l} : \A s \in Full(b), t \in Full(f.loads[k]) :
           Differ(b.dev[s], f.loads[k].dev[t])
  PROVE  \A g : g = With(f, l, b) =>
           /\ Good(g, m) /\ g.count = f.count
           /\ \A k \in 1..f.count : g.loads[k] = IF k = l THEN b ELSE f.loads[k]
<1> TAKE g
<1> HAVE g = With(f, l, b)
<1>1. f.count \in Nat /\ Len(f.loads) = f.count /\ f.loads \in Seq(Block(m))
  BY DEF Good, Shaped
<1>2. /\ g \in [count : Nat, loads : Seq(Block(m))] /\ g.count = f.count
      /\ Len(g.loads) = f.count /\ g.loads = [f.loads EXCEPT ![l] = b]
  BY <1>1 DEF Good, Shaped, GoodBlock, With
<1>3. g.loads[l] = b /\ \A k \in 1..f.count \ {l} : g.loads[k] = f.loads[k]
  BY <1>1, <1>2
<1>4. Shaped(g, m)
  <2>1. ASSUME NEW i \in 1..g.count
        PROVE  GoodBlock(g.loads[i], m) /\ (~g.loads[i].init => g.count = 1)
    <3>1. CASE i = l
      BY <1>2, <1>3, <3>1
    <3>2. CASE i # l
      BY <1>2, <1>3, <3>2 DEF Good, Shaped
    <3> QED
      BY <3>1, <3>2
  <2>2. f.count > 1 => Full(g.loads[1]) # {}
    <3>1. CASE l = 1
      BY <1>3, <3>1
    <3>2. CASE f.count > 1 /\ l # 1
      <4>1. 1 \in 1..f.count \ {l} /\ Full(f.loads[1]) # {}
        BY <1>1, <3>2 DEF Good, Shaped
      <4> QED
        BY <1>3, <4>1
    <3> QED
      BY <3>1, <3>2
  <2> QED
    BY <1>2, <2>1, <2>2 DEF Shaped
<1>5. ASSUME NEW i \in 1..g.count, NEW k \in 1..g.count, NEW s \in Full(g.loads[i]),
             NEW t \in Full(g.loads[k]), i # k \/ s # t
      PROVE  Differ(g.loads[i].dev[s], g.loads[k].dev[t])
  <2>1. CASE i = l /\ k = l
    BY <1>3, <1>5, <2>1
  <2>2. CASE i = l /\ k # l
    BY <1>2, <1>3, <1>5, <2>2
  <2>3. CASE i # l /\ k = l
    BY <1>2, <1>3, <1>5, <2>3 DEF Differ
  <2>4. CASE i # l /\ k # l
    BY <1>2, <1>3, <1>5, <2>4 DEF Good, Apart
  <2> QED
    BY <2>1, <2>2, <2>3, <2>4
<1>6. Apart(g)
  BY <1>5 DEF Apart
<1> QED
  BY <1>2, <1>3, <1>4, <1>6 DEF Good

(* The last block is cut off, and a fresh one is appended.                  *)
LEMMA CutOff ==
  ASSUME NEW f, NEW m \in Nat, Good(f, m), f.count > 1,
         NEW g, g = [count |-> f.count - 1, loads |-> SubSeq(f.loads, 1, f.count - 1)]
  PROVE  /\ Good(g, m) /\ g.count = f.count - 1
         /\ \A k \in 1..g.count : g.loads[k] = f.loads[k]
<1>1. f.count \in Nat /\ Len(f.loads) = f.count /\ f.loads \in Seq(Block(m))
  BY DEF Good, Shaped
<1>2. /\ g \in [count : Nat, loads : Seq(Block(m))] /\ g.count = f.count - 1
      /\ Len(g.loads) = f.count - 1
      /\ \A k \in 1..(f.count - 1) : g.loads[k] = f.loads[k]
  BY <1>1
<1>3. \A k \in 1..g.count : k \in 1..f.count
  BY <1>1, <1>2
<1>4. Shaped(g, m)
  <2>1. ASSUME NEW i \in 1..g.count
        PROVE  GoodBlock(g.loads[i], m) /\ (~g.loads[i].init => g.count = 1)
    BY <1>1, <1>2, <1>3 DEF Good, Shaped
  <2>2. Full(f.loads[1]) # {} /\ 1 \in 1..(f.count - 1)
    BY <1>1 DEF Good, Shaped
  <2>3. Full(g.loads[1]) # {}
    BY <1>2, <2>2
  <2> QED
    BY <1>2, <2>1, <2>3 DEF Shaped
<1>5. Apart(g)
  BY <1>1, <1>2, <1>3 DEF Good, Apart
<1> QED
  BY <1>2, <1>4, <1>5 DEF Good

LEMMA Fresh ==
  ASSUME NEW m \in Nat
  PROVE  /\ GoodBlock(FreshLoad, m) /\ FreshLoad.init /\ Full(FreshLoad) = {}
         /\ InitializeCFGheader \in Header(m)
<1>1. Full(FreshLoad) = {}
  BY DEF Full, FreshLoad
<1>2. Cardinality({}) = 0
  BY FS_EmptySet
<1>3. InitializeCFGheader \in Header(m)
  BY DriverIniAssumption DEF InitializeCFGheader, Header
<1>4. FreshLoad \in Block(m)
  BY <1>3 DEF FreshLoad, Block
<1>5. FreshLoad.init /\ FreshLoad.hdr.devs = 0
  BY DEF FreshLoad, InitializeCFGheader
<1> QED
  BY <1>1, <1>2, <1>3, <1>4, <1>5 DEF GoodBlock

LEMMA NewFileGood ==
  ASSUME NEW m \in Nat
  PROVE  /\ Good(NewFile, m) /\ NewFile.count = 1 /\ NewFile.loads[1] = FreshLoad
         /\ Good(NoFile, m) /\ NoFile.count = 0
<1>1. NewFile.count = 1 /\ NewFile.loads[1] = FreshLoad /\ Len(NewFile.loads) = 1
  BY DEF NewFile
<1>2. FreshLoad \in Block(m)
  BY Fresh DEF GoodBlock
<1>3. NewFile \in [count : Nat, loads : Seq(Block(m))]
  BY <1>2 DEF NewFile
<1>4. Good(NewFile, m)
  BY <1>1, <1>3, Fresh DEF Good, Shaped, Apart
<1>5. NoFile \in [count : Nat, loads : Seq(Block(m))] /\ NoFile.count = 0 /\ Len(NoFile.loads) = 0
  BY DEF NoFile
<1> QED
  BY <1>1, <1>4, <1>5 DEF Good, Shaped, Apart

(* The header Add Load takes: the one not in use, or a new one.             *)
LEMMA NoHoles ==
  ASSUME NEW f, NEW m \in Nat, Good(f, m), f.count > 0, f.loads[1].init
  PROVE  /\ f.count \in Nat /\ Holes(f) = {} /\ Min(Holes(f) \union {f.count + 1}) = f.count + 1
         /\ \A l \in 1..f.count : f.loads[l].init
<1>1. f.count \in Nat /\ \A l \in 1..f.count : f.loads[l].init
  BY DEF Good, Shaped
<1>2. Holes(f) = {}
  BY <1>1 DEF Holes
<1>3. Min({f.count + 1}) = f.count + 1
  BY DEF Min
<1> QED
  BY <1>1, <1>2, <1>3

LEMMA OneHole ==
  ASSUME NEW f, NEW m \in Nat, Good(f, m), f.count > 0, ~f.loads[1].init
  PROVE  /\ f.count = 1 /\ Holes(f) = {1} /\ AddedLoad(f) = 1
<1>1. f.count = 1
  BY DEF Good, Shaped
<1>2. Holes(f) = {1}
  BY <1>1 DEF Holes
<1>3. Holes(f) \union {f.count + 1} = {1, 2}
  BY <1>1, <1>2
<1>4. Min({1, 2}) = 1
  BY DEF Min
<1> QED
  BY <1>1, <1>2, <1>3, <1>4 DEF AddedLoad

Plus(g, f, m) ==
  /\ Good(g, m) /\ g.count = f.count + 1 /\ g.loads[g.count] = FreshLoad
  /\ \A k \in 1..f.count : g.loads[k] = f.loads[k]

LEMMA LoadAppended ==
  ASSUME NEW f, NEW m \in Nat, Good(f, m), f.count > 0, Full(f.loads[1]) # {},
         NEW g, g = AddIniConfigHeader(f)
  PROVE  AddedLoad(f) = f.count + 1 /\ Plus(g, f, m)
<1>1. /\ f.count \in Nat /\ Len(f.loads) = f.count /\ f.loads \in Seq(Block(m))
      /\ f.loads[1].init
  BY DEF Good, Shaped, GoodBlock
<1>2. AddedLoad(f) = f.count + 1
  BY <1>1, NoHoles DEF AddedLoad
<1>3. g = [count |-> f.count + 1, loads |-> Append(SubSeq(f.loads, 1, f.count), FreshLoad)]
  BY <1>1, <1>2 DEF AddIniConfigHeader
<1>4. FreshLoad \in Block(m)
  BY Fresh DEF GoodBlock
<1>5. /\ SubSeq(f.loads, 1, f.count) \in Seq(Block(m)) /\ Len(SubSeq(f.loads, 1, f.count)) = f.count
      /\ \A k \in 1..f.count : SubSeq(f.loads, 1, f.count)[k] = f.loads[k]
  BY <1>1
<1>6. /\ g \in [count : Nat, loads : Seq(Block(m))] /\ g.count = f.count + 1
      /\ Len(g.loads) = f.count + 1 /\ g.loads[f.count + 1] = FreshLoad
      /\ \A k \in 1..f.count : g.loads[k] = f.loads[k]
  <2> DEFINE q == SubSeq(f.loads, 1, f.count)
  <2>1. Append(q, FreshLoad) \in Seq(Block(m)) /\ Len(Append(q, FreshLoad)) = f.count + 1
    BY <1>1, <1>4, <1>5
  <2>2. /\ Append(q, FreshLoad)[f.count + 1] = FreshLoad
        /\ \A k \in 1..f.count : Append(q, FreshLoad)[k] = q[k]
    BY <1>1, <1>4, <1>5
  <2>3. g.count = f.count + 1 /\ g.loads = Append(q, FreshLoad)
    <3> HIDE DEF q
    <3>1. g = [count |-> f.count + 1, loads |-> Append(q, FreshLoad)]
      BY <1>3, Zenon DEF q
    <3> QED
      BY <3>1
  <2>4. g \in [count : Nat, loads : Seq(Block(m))]
    BY <1>1, <1>3, <2>1
  <2> HIDE DEF q
  <2>5. \A k \in 1..f.count : q[k] = f.loads[k]
    BY <1>5 DEF q
  <2> QED
    BY <2>1, <2>2, <2>3, <2>4, <2>5
<1>7. \A l \in 1..g.count : l \in 1..f.count \/ l = f.count + 1
  BY <1>1, <1>6
<1>8. Shaped(g, m)
  <2>1. ASSUME NEW i \in 1..g.count
        PROVE  GoodBlock(g.loads[i], m) /\ (~g.loads[i].init => g.count = 1)
    <3>1. CASE i \in 1..f.count
      BY <1>1, <1>6, <3>1, NoHoles DEF Good, Shaped
    <3>2. CASE i = f.count + 1
      BY <1>6, <3>2, Fresh
    <3> QED
      BY <1>7, <3>1, <3>2
  <2>2. Full(g.loads[1]) # {}
    BY <1>1, <1>6
  <2> QED
    BY <1>6, <2>1, <2>2 DEF Shaped
<1>9. Apart(g)
  <2>1. ASSUME NEW i \in 1..g.count, NEW s \in Full(g.loads[i])
        PROVE  i \in 1..f.count
    BY <1>6, <1>7, <2>1, Fresh
  <2>2. ASSUME NEW i \in 1..g.count, NEW k \in 1..g.count, NEW s \in Full(g.loads[i]),
               NEW t \in Full(g.loads[k]), i # k \/ s # t
        PROVE  Differ(g.loads[i].dev[s], g.loads[k].dev[t])
    <3>1. /\ i \in 1..f.count /\ k \in 1..f.count
          /\ g.loads[i] = f.loads[i] /\ g.loads[k] = f.loads[k]
      BY <1>6, <2>1, <2>2
    <3> QED
      BY <2>2, <3>1 DEF Good, Apart
  <2> QED
    BY <2>2 DEF Apart
<1>10. g.loads[g.count] = FreshLoad
  BY <1>6
<1> QED
  BY <1>2, <1>6, <1>8, <1>9, <1>10 DEF Good, Plus

LEMMA Together ==
  ASSUME NEW f, NEW m \in Nat, Good(f, m), NEW l \in 1..f.count, NEW s \in Full(f.loads[l])
  PROVE  /\ f.loads[l].dev[s] \in Devices /\ s \in Slots
         /\ \A k \in 1..f.count : \A t \in Full(f.loads[k]) :
              l # k \/ s # t => Differ(f.loads[l].dev[s], f.loads[k].dev[t])
<1>1. f.loads[l] \in Block(m) /\ s \in Slots
  BY DEF Good, Shaped, GoodBlock, Full
<1> QED
  BY <1>1 DEF Good, Apart, Block, Full

(* The header of a load is written.                                         *)
LEMMA HeaderPlaced ==
  ASSUME NEW f, NEW m \in Nat, Good(f, m), NEW l \in 1..f.count, NEW h \in Header(m),
         Cardinality(Full(f.loads[l])) <= h.devs, NEW g, g = PlaceIniCFGheader(f, h, l)
  PROVE  /\ Good(g, m) /\ g.count = f.count /\ g.loads[l].init /\ g.loads[l].hdr = h
         /\ \A k \in 1..f.count : /\ g.loads[k].dev = f.loads[k].dev
                                  /\ Full(g.loads[k]) = Full(f.loads[k])
<1> DEFINE b == [f.loads[l] EXCEPT !.init = TRUE, !.hdr = h]
<1>1. f.loads[l] \in Block(m)
  BY DEF Good, Shaped, GoodBlock
<1>2. b \in Block(m) /\ b.init /\ b.hdr = h /\ b.dev = f.loads[l].dev
  BY <1>1 DEF Block
<1>3. g = With(f, l, b)
  BY DEF PlaceIniCFGheader, With
<1> HIDE DEF b
<1>4. Full(b) = Full(f.loads[l])
  BY <1>2 DEF Full
<1>5. GoodBlock(b, m)
  BY <1>2, <1>4 DEF GoodBlock
<1>6. f.count > 1 /\ l = 1 => Full(b) # {}
  BY <1>4 DEF Good, Shaped
<1>7. /\ \A s, t \in Full(b) : s # t => Differ(b.dev[s], b.dev[t])
      /\ \A k \in 1..f.count \ {l} : \A s \in Full(b), t \in Full(f.loads[k]) :
           Differ(b.dev[s], f.loads[k].dev[t])
  BY <1>2, <1>4, Together
<1>8. /\ Good(g, m) /\ g.count = f.count
      /\ \A k \in 1..f.count : g.loads[k] = IF k = l THEN b ELSE f.loads[k]
  BY <1>2, <1>3, <1>5, <1>6, <1>7, Replaced
<1> QED
  BY <1>2, <1>4, <1>8 DEF Full

(* A device was put into file f, which became r.file.                       *)
Put(r, f, p, d, m) ==
  /\ r.ok /\ Good(r.file, m) /\ r.file.count = f.count
  /\ r.hdr \in Header(m) /\ r.pos \in [load : {p.load}, dev : Slots]
  /\ IF p.dev = 0 THEN r.pos.dev \notin Full(f.loads[p.load]) ELSE r.pos = p
  /\ r.file.loads[p.load].dev = [f.loads[p.load].dev EXCEPT ![r.pos.dev] = d]
  /\ d # NoDev /\ Full(r.file.loads[p.load]) = Full(f.loads[p.load]) \union {r.pos.dev}
  /\ Cardinality(Full(r.file.loads[p.load])) <= r.hdr.devs
  /\ \A k \in 1..f.count \ {p.load} : r.file.loads[k] = f.loads[k]

(* A device goes to its header or to a free one.                            *)
LEMMA DevicePlaced ==
  ASSUME NEW f, NEW m \in Nat, Good(f, m), NEW p \in [load : 1..f.count, dev : 0..MaxDcb],
         p.dev = 0 => Full(f.loads[p.load]) # Slots,
         p.dev # 0 => p.dev \in Full(f.loads[p.load]),
         NEW h \in Header(m), NEW d \in Devices,
         \A k \in 1..f.count : \A t \in Full(f.loads[k]) :
           k # p.load \/ t # p.dev => Differ(d, f.loads[k].dev[t]),
         NEW n \in Nat, n = IF p.dev = 0 THEN m + 1 ELSE m,
         NEW r, r = PlaceIniDCBheader(f, h, d, p)
  PROVE  Put(r, f, p, d, n)
<1> DEFINE l == p.load
           o == f.loads[l]
           free == {s \in 1..o.hdr.dcbs : o.dev[s] = NoDev}
           s == IF p.dev # 0 THEN p.dev ELSE Min(free)
           new == [h EXCEPT !.devs = o.hdr.devs + (IF p.dev = 0 THEN 1 ELSE 0),
                            !.dcbs = o.hdr.dcbs]
           b == [o EXCEPT !.init = TRUE, !.hdr = new, !.dev[s] = d]
<1>1. o \in Block(m) /\ Cardinality(Full(o)) <= o.hdr.devs /\ l \in 1..f.count /\ l # 0
      /\ f.count \in Nat
  BY DEF Good, Shaped, GoodBlock
<1>2. o.hdr.dcbs = MaxDcb /\ o.hdr.devs \in 0..m /\ MaxDcb \in Nat \ {0}
  BY <1>1, DriverIniAssumption DEF Block, Header
<1>3. free = Slots \ Full(o) /\ free \in SUBSET Nat
  BY <1>2 DEF Slots, Full
<1>4. p.dev = 0 => free # {}
  BY <1>3 DEF Full
<1>5. s \in Slots /\ (p.dev = 0 => s \notin Full(o)) /\ (p.dev # 0 => s = p.dev)
  <2>1. CASE p.dev = 0
    BY <1>3, <1>4, <2>1, LeastNat
  <2>2. CASE p.dev # 0
    BY <2>2 DEF Full
  <2> QED
    BY <2>1, <2>2
<1>6. d # NoDev /\ d.name \in Names /\ d.addr \in Addrs
  BY DriverIniAssumption DEF Devices, NoDev
<1>7. /\ r.ok /\ r.hdr = new /\ r.pos = [load |-> l, dev |-> s]
      /\ r.file = With(f, l, b)
  <2>1. ~(p.load > f.count) /\ ~((p.dev = 0 /\ free = {}) \/ p.dev > o.hdr.dcbs)
    BY <1>1, <1>2, <1>4
  <2> HIDE DEF free
  <2>2. r = [ok |-> TRUE, hdr |-> new, pos |-> [load |-> l, dev |-> s],
             file |-> [f EXCEPT !.loads[l] = [@ EXCEPT !.init = TRUE, !.hdr = new,
                                                       !.dev[s] = d]]]
    BY <1>1, <2>1 DEF PlaceIniDCBheader, PlaceDevice, free
  <2> HIDE DEF new, s
  <2>3. r = [ok |-> TRUE, hdr |-> new, pos |-> [load |-> l, dev |-> s], file |-> With(f, l, b)]
    BY <2>2 DEF With
  <2> QED
    BY <2>3
<1>9. new \in Header(n) /\ new.devs = o.hdr.devs + (IF p.dev = 0 THEN 1 ELSE 0)
  <2>1. h \in [devs : 0..m, dcbs : {MaxDcb}, adv : BOOLEAN]
    BY DEF Header
  <2> DEFINE v == o.hdr.devs + (IF p.dev = 0 THEN 1 ELSE 0)
  <2>2. v \in 0..n
    BY <1>2
  <2> HIDE DEF v
  <2>3. [h EXCEPT !.devs = v, !.dcbs = MaxDcb] \in [devs : 0..n, dcbs : {MaxDcb}, adv : BOOLEAN]
    BY <2>1, <2>2
  <2>4. new = [h EXCEPT !.devs = v, !.dcbs = MaxDcb]
    BY <1>2 DEF v
  <2>5. new.devs = v
    BY <2>1, <2>4
  <2> QED
    BY <2>3, <2>4, <2>5 DEF Header, v
<1>10. /\ b \in Block(n) /\ b.init /\ b.hdr = new /\ b.dev = [o.dev EXCEPT ![s] = d]
  BY <1>1, <1>5, <1>9 DEF Block

<1> HIDE DEF b, new, s, free
<1>11. /\ Full(b) = Full(o) \union {s}
       /\ Cardinality(Full(b)) = Cardinality(Full(o)) + (IF p.dev = 0 THEN 1 ELSE 0)
  <2>1. DOMAIN o.dev = Slots
    BY <1>1 DEF Block
  <2>2. p.dev # 0 => s \in Full(o)
    BY <1>5
  <2>3. Cardinality(Full(o)) \in Nat
    BY FullFinite
  <2>4. /\ Full(b) = Full(o) \union {s}
        /\ s \in Full(o) => Cardinality(Full(b)) = Cardinality(Full(o))
        /\ s \notin Full(o) => Cardinality(Full(b)) = Cardinality(Full(o)) + 1
    BY <1>5, <1>6, <1>10, <2>1, DevWritten
  <2> QED
    BY <1>5, <2>2, <2>3, <2>4
<1>12. Cardinality(Full(b)) <= new.devs
  BY <1>1, <1>2, <1>9, <1>11, FullFinite
<1>13. GoodBlock(b, n) /\ Full(b) # {}
  BY <1>10, <1>11, <1>12 DEF GoodBlock
<1>14. \A t \in Full(b) : t # s => t \in Full(o) /\ b.dev[t] = o.dev[t]
  BY <1>1, <1>10, <1>11 DEF Full, Block
<1>15. b.dev[s] = d
  BY <1>1, <1>5, <1>10 DEF Block
<1>16. \A t \in Full(o) : t # s => Differ(d, o.dev[t])
  BY <1>1, <1>5 DEF Full, Slots
<1>17. ASSUME NEW t \in Full(b), NEW u \in Full(b), t # u
       PROVE  Differ(b.dev[t], b.dev[u])
  <2>1. CASE t = s
    BY <1>14, <1>15, <1>16, <1>17, <2>1
  <2>2. CASE u = s
    BY <1>14, <1>15, <1>16, <1>17, <2>2 DEF Differ
  <2>3. CASE t # s /\ u # s
    BY <1>1, <1>14, <1>17, <2>3, Together
  <2> QED
    BY <2>1, <2>2, <2>3
<1>18. ASSUME NEW k \in 1..f.count \ {l}, NEW t \in Full(b), NEW u \in Full(f.loads[k])
       PROVE  Differ(b.dev[t], f.loads[k].dev[u])
  <2>1. CASE t = s
    BY <1>15, <1>18, <2>1
  <2>2. CASE t # s
    BY <1>1, <1>14, <1>18, <2>2, Together
  <2> QED
    BY <2>1, <2>2
<1>19. Good(f, n) /\ m <= n
  BY GoodGrows
<1>20. /\ Good(r.file, n) /\ r.file.count = f.count
       /\ \A k \in 1..f.count : r.file.loads[k] = IF k = l THEN b ELSE f.loads[k]
  <2> HIDE DEF o
  <2>1. \A t, u \in Full(b) : t # u => Differ(b.dev[t], b.dev[u])
    BY <1>17
  <2>2. \A k \in 1..f.count \ {l} : \A t \in Full(b), u \in Full(f.loads[k]) :
          Differ(b.dev[t], f.loads[k].dev[u])
    BY <1>18
  <2>3. l \in 1..f.count /\ Good(f, n) /\ n \in Nat /\ GoodBlock(b, n) /\ b.init /\ Full(b) # {}
    BY <1>1, <1>10, <1>13, <1>19
  <2> HIDE DEF l
  <2>4. \A g : g = With(f, l, b) =>
          /\ Good(g, n) /\ g.count = f.count
          /\ \A k \in 1..f.count : g.loads[k] = IF k = l THEN b ELSE f.loads[k]
    BY <2>1, <2>2, <2>3, Replaced
  <2> QED
    BY <1>7, <2>4
<1>21. r.pos \in [load : {p.load}, dev : Slots] /\ r.pos.dev = s
       /\ (p.dev # 0 => r.pos = p)
  BY <1>5, <1>7
<1>22. /\ r.file.loads[l] = b
       /\ \A k \in 1..f.count \ {l} : r.file.loads[k] = f.loads[k]
  BY <1>1, <1>20
<1>23. r.hdr \in Header(n) /\ Cardinality(Full(r.file.loads[l])) <= r.hdr.devs
  BY <1>7, <1>9, <1>12, <1>22
<1>24. /\ r.file.loads[l].dev = [o.dev EXCEPT ![r.pos.dev] = d] /\ r.file.loads[l].init
       /\ Full(r.file.loads[l]) = Full(o) \union {r.pos.dev}
  BY <1>10, <1>11, <1>21, <1>22
<1> QED
  BY <1>5, <1>6, <1>7, <1>20, <1>21, <1>22, <1>23, <1>24 DEF Put

-----------------------------------------------------------------------------
(* The list box of a load.                                                  *)

LEMMA UsedIsFull ==
  ASSUME NEW f, NEW m \in Nat, Good(f, m), NEW l \in 1..f.count
  PROVE  Used(f, l) = Full(f.loads[l]) /\ (Full(f.loads[l]) # {} => f.loads[l].init)
<1>1. f.loads[l].hdr.dcbs = MaxDcb /\ (~f.loads[l].init => Full(f.loads[l]) = {})
  BY DEF Good, Shaped, GoodBlock, Block, Header
<1> QED
  BY <1>1 DEF Used, Full, Slots

LEMMA EmptyList ==
  ASSUME NEW f, NEW l, l > f.count \/ ~f.loads[l].init \/ Used(f, l) = {}
  PROVE  ListOf(f, l) = <<>>
<1>1. CASE l > f.count \/ ~f.loads[l].init
  BY <1>1 DEF ListOf
<1>2. CASE Used(f, l) = {}
  <2>1. DOMAIN Ascending({}) = {}
    BY FS_EmptySet DEF Ascending
  <2> QED
    BY <1>2, <2>1 DEF ListOf
<1> QED
  BY <1>1, <1>2

LEMMA ListShows ==
  ASSUME NEW f, NEW m \in Nat, Good(f, m), NEW l \in 1..f.count
  PROVE  Shows(ListOf(f, l), f.loads[l])
<1> DEFINE b == f.loads[l]
           q == ListOf(f, l)
<1>1. Used(f, l) = Full(b) /\ Full(b) \in SUBSET Int /\ IsFiniteSet(Full(b)) /\ f.count \in Nat
  <2>1. Full(b) \in SUBSET Int
    BY DriverIniAssumption DEF Full, Slots
  <2>2. f.count \in Nat
    BY DEF Good, Shaped
  <2> QED
    BY <2>1, <2>2, UsedIsFull, FullFinite
<1>2. ASSUME ~b.init
      PROVE  Shows(q, b)
  <2>1. q = <<>> /\ Full(b) = {}
    BY <1>2, EmptyList, UsedIsFull
  <2>2. Cardinality(Full(b)) = 0
    BY <2>1, FS_EmptySet
  <2> QED
    BY <2>1, <2>2 DEF Shows
<1>3. ASSUME b.init
      PROVE  Shows(q, b)
  <2> DEFINE u == Ascending(Full(b))
  <2>1. q = [i \in DOMAIN u |-> b.dev[u[i]].name]
    BY <1>1, <1>3 DEF ListOf
  <2>2. /\ DOMAIN u = 1..Cardinality(Full(b)) /\ Cardinality(Full(b)) \in Nat
        /\ \A i \in DOMAIN u : u[i] \in Full(b)
        /\ \A i, j \in DOMAIN u : u[i] = u[j] => i = j
        /\ \A x \in Full(b) : \E i \in DOMAIN u : u[i] = x
    BY <1>1, AscendingIsList
  <2> HIDE DEF u, q
  <2>3. \A s, t \in Full(b) : /\ b.dev[s].name \in Names
                              /\ b.dev[s].name = b.dev[t].name => s = t
    BY Together DEF Devices, Differ
  <2>4. q \in Seq(Names) /\ Len(q) = Cardinality(Full(b)) /\ DOMAIN q = DOMAIN u
    BY <2>1, <2>2, <2>3
  <2>5. \A i, j \in DOMAIN q : q[i] = q[j] => i = j
    BY <2>1, <2>2, <2>3
  <2>6. \A i \in DOMAIN q : \E s \in Full(b) : b.dev[s].name = q[i]
    BY <2>1, <2>2
  <2>7. \A s \in Full(b) : \E i \in DOMAIN q : b.dev[s].name = q[i]
    BY <2>1, <2>2
  <2> QED
    BY <2>4, <2>5, <2>6, <2>7 DEF Shows
<1> QED
  BY <1>2, <1>3

LEMMA EmptyShown ==
  ASSUME NEW q, NEW b, Shows(q, b)
  PROVE  q = <<>> <=> Full(b) = {}
<1>1. q \in Seq(Names) /\ Len(q) = Cardinality(Full(b))
  BY DEF Shows
<1>2. q = <<>> <=> Len(q) = 0
  BY <1>1
<1> QED
  BY <1>1, <1>2, FullFinite

-----------------------------------------------------------------------------
(* A device is taken out of a block, of a file.                             *)
Taken(b, o, s) == b.dev = [o.dev EXCEPT ![s] = NoDev]

Minus(g, f, l, s, m) ==
  /\ Good(g, m) /\ g.count = f.count
  /\ Taken(g.loads[l], f.loads[l], s) /\ Full(g.loads[l]) = Full(f.loads[l]) \ {s}
  /\ \A k \in 1..f.count \ {l} : g.loads[k] = f.loads[k]

LEMMA Cleared ==
  ASSUME NEW m \in Nat, NEW o \in Block(m), NEW s \in Slots, NEW v \in 0..m
  PROVE  /\ Without(o, s, v) \in Block(m) /\ Taken(Without(o, s, v), o, s)
         /\ (Without(o, s, v).init <=> o.init) /\ Without(o, s, v).hdr.devs = v
         /\ Unused(o, s) \in Block(m) /\ Taken(Unused(o, s), o, s)
         /\ ~Unused(o, s).init /\ Unused(o, s).hdr.devs = 0
<1>1. /\ o.init \in BOOLEAN /\ o.hdr \in Header(m) /\ o.dev \in [Slots -> Devices \union {NoDev}]
      /\ o = [init |-> o.init, hdr |-> o.hdr, dev |-> o.dev]
  BY DEF Block
<1> DEFINE d == [o.dev EXCEPT ![s] = NoDev]
           h == [o.hdr EXCEPT !.devs = v]
           e == [devs |-> 0, dcbs |-> o.hdr.dcbs, adv |-> FALSE]
<1>2. Without(o, s, v) = [o EXCEPT !.hdr = h, !.dev[s] = NoDev]
  BY Zenon DEF Without
<1>3. Unused(o, s) = [o EXCEPT !.init = FALSE, !.hdr = e, !.dev[s] = NoDev]
  BY Zenon DEF Unused
<1>4. d \in [Slots -> Devices \union {NoDev}]
  BY <1>1
<1>5. h \in Header(m) /\ h.devs = v
  BY <1>1 DEF Header
<1>6. e \in Header(m) /\ e.devs = 0
  BY <1>1 DEF Header
<1>7. /\ Taken(Without(o, s, v), o, s) <=> Without(o, s, v).dev = d
      /\ Taken(Unused(o, s), o, s) <=> Unused(o, s).dev = d
  BY DEF Taken
<1> HIDE DEF h, e
<1>8. /\ Without(o, s, v) \in Block(m) /\ (Without(o, s, v).init <=> o.init)
      /\ Without(o, s, v).hdr = h /\ Without(o, s, v).dev = d
  BY <1>1, <1>2, <1>4, <1>5 DEF Block
<1>9. /\ Unused(o, s) \in Block(m) /\ ~Unused(o, s).init
      /\ Unused(o, s).hdr = e /\ Unused(o, s).dev = d
  BY <1>3, <1>4, <1>6 DEF Block
<1> QED
  BY <1>5, <1>6, <1>7, <1>8, <1>9

LEMMA OneLess ==
  ASSUME NEW f, NEW m \in Nat, Good(f, m), NEW l \in 1..f.count, NEW s \in Full(f.loads[l]),
         NEW b \in Block(m), Taken(b, f.loads[l], s),
         Cardinality(Full(f.loads[l])) <= b.hdr.devs + 1, ~b.init => f.count = 1 /\ b.hdr.devs = 0,
         f.count > 1 /\ l = 1 => Full(b) # {}
  PROVE  Minus(With(f, l, b), f, l, s, m)
<1> DEFINE g == With(f, l, b)
<1>1. PICK o : o = f.loads[l]
  OBVIOUS
<1>2. DOMAIN o.dev = Slots /\ s \in Slots /\ s \in Full(o)
  BY <1>1 DEF Full, Good, Shaped, GoodBlock, Block
<1>3. Full(b) = Full(o) \ {s} /\ Cardinality(Full(b)) = Cardinality(Full(o)) - 1
  BY <1>1, <1>2, DevWritten DEF Taken
<1>4. /\ Cardinality(Full(b)) = 0 <=> Full(b) = {}
      /\ Cardinality(Full(b)) \in Nat /\ Cardinality(Full(o)) \in Nat
  BY FullFinite, DriverIniAssumption
<1>5. b.hdr.devs \in 0..m /\ b.init \in BOOLEAN
  BY DEF Block, Header
<1>6. GoodBlock(b, m)
  BY <1>1, <1>3, <1>4, <1>5 DEF GoodBlock
<1>7. \A t \in Full(b) : t \in Full(o) /\ b.dev[t] = o.dev[t]
  BY <1>1, <1>2, <1>3 DEF Taken
<1>8. /\ \A t, u \in Full(b) : t # u => Differ(b.dev[t], b.dev[u])
      /\ \A k \in 1..f.count \ {l} : \A t \in Full(b), u \in Full(f.loads[k]) :
           Differ(b.dev[t], f.loads[k].dev[u])
  BY <1>1, <1>7, Together
<1>9. /\ Good(g, m) /\ g.count = f.count
      /\ \A k \in 1..f.count : g.loads[k] = IF k = l THEN b ELSE f.loads[k]
  BY <1>5, <1>6, <1>8, Replaced
<1>10. Taken(g.loads[l], f.loads[l], s) /\ Full(g.loads[l]) = Full(f.loads[l]) \ {s}
  BY <1>1, <1>3, <1>9
<1>11. \A k \in 1..f.count \ {l} : g.loads[k] = f.loads[k]
  BY <1>9
<1> QED
  BY <1>9, <1>10, <1>11 DEF Minus

LEMMA WordNat == WordSize \in Nat /\ WordSize > 0
BY DEF WordSize

LEMMA WordKept ==
  ASSUME NEW x \in Nat, x < WordSize
  PROVE  x % WordSize = x
BY WordNat

(* A device is removed, and its load stays.                                 *)
LEMMA DeviceRemoved ==
  ASSUME NEW f, NEW m \in Nat, m < WordSize, Good(f, m), NEW l \in 1..f.count,
         NEW s \in Full(f.loads[l]), NEW p, p = [load |-> l, dev |-> s],
         NEW g, g = RemoveIniDCBheader(f, p), ~(ListOf(g, l) = <<>> /\ f.count > 1)
  PROVE  Minus(g, f, l, s, m)
<1>1. PICK o : o = f.loads[l]
  OBVIOUS
<1>2. PICK left : left = (o.hdr.devs - 1) % WordSize
  OBVIOUS
<1>3. PICK b : b = Without(o, s, left)
  OBVIOUS
<1>4. PICK u : u = Unused(o, s)
  OBVIOUS
<1>6. /\ o \in Block(m) /\ Cardinality(Full(o)) <= o.hdr.devs /\ o.init /\ o.init \in BOOLEAN
      /\ f.count \in Nat /\ DOMAIN f.loads = 1..f.count /\ DOMAIN f = {"count", "loads"}
      /\ s \in Slots /\ o.dev[s] # NoDev
  <2>1. f \in [count : Nat, loads : Seq(Block(m))] /\ Len(f.loads) = f.count
    BY DEF Good, Shaped
  <2>2. o \in Block(m) /\ Cardinality(Full(o)) <= o.hdr.devs /\ o.init
    BY <1>1 DEF Good, Shaped, GoodBlock
  <2> QED
    BY <1>1, <2>1, <2>2 DEF Full, Block
<1>7. Cardinality(Full(o)) \in 1..MaxDcb /\ MaxDcb \in Nat /\ s \in Full(o)
  BY <1>1, FullFinite, DriverIniAssumption
<1>8. left = o.hdr.devs - 1 /\ left \in 0..m
  <2>1. o.hdr.devs \in Int /\ 1 <= o.hdr.devs /\ o.hdr.devs <= m
    BY <1>6, <1>7 DEF Block, Header
  <2>2. PICK v : v = o.hdr.devs - 1
    OBVIOUS
  <2>3. v \in 0..m /\ v \in Nat /\ v < WordSize
    BY <2>1, <2>2, WordNat
  <2>4. left = v
    BY <1>2, <2>2, <2>3, WordKept
  <2> QED
    BY <2>2, <2>3, <2>4
<1>9. /\ b \in Block(m) /\ Taken(b, o, s) /\ (b.init <=> o.init) /\ b.hdr.devs = left
      /\ u \in Block(m) /\ Taken(u, o, s)
      /\ ~u.init /\ u.hdr.devs = 0
  <2>1. o \in Block(m) /\ s \in Slots /\ left \in 0..m
    BY <1>6, <1>8
  <2>2. /\ Without(o, s, left) \in Block(m) /\ Taken(Without(o, s, left), o, s)
        /\ (Without(o, s, left).init <=> o.init) /\ Without(o, s, left).hdr.devs = left
        /\ Unused(o, s) \in Block(m) /\ Taken(Unused(o, s), o, s)
        /\ ~Unused(o, s).init /\ Unused(o, s).hdr.devs = 0
    BY <2>1, Cleared
  <2> QED
    BY <1>3, <1>4, <2>2
<1>10. g = IF ~(left = 0) THEN [f EXCEPT !.loads[l] = b]
           ELSE IF f.count # 1 /\ l >= f.count
             THEN [count |-> f.count - 1, loads |-> SubSeq(f.loads, 1, f.count - 1)]
           ELSE [count |-> IF f.count # 1 THEN f.count - 1 ELSE f.count,
                 loads |-> [f.loads EXCEPT ![l] = u]]
  <2>1. ~(l > f.count \/ ~o.init \/ o.dev[s] = NoDev) /\ p.load = l /\ p.dev = s
    BY <1>6
  <2> QED
    BY <1>1, <1>2, <1>3, <1>4, <2>1 DEF RemoveIniDCBheader, RemoveDevice
<1>11. CASE left # 0
  <2>1. g = With(f, l, b)
    BY <1>10, <1>11 DEF With
  <2>2. f.count > 1 /\ l = 1 => Full(b) # {}
    <3>1. SUFFICES ASSUME f.count > 1, l = 1, Full(b) = {}
                   PROVE  FALSE
      OBVIOUS
    <3>2. g.loads[l] = b
      BY <1>6, <2>1 DEF With
    <3>3. b.hdr.dcbs = MaxDcb
      BY <1>9 DEF Block, Header
    <3>4. Used(g, l) = Full(b)
      BY <3>2, <3>3 DEF Used, Full, Slots
    <3> QED
      BY <3>1, <3>4, EmptyList
  <2>3. Cardinality(Full(o)) <= b.hdr.devs + 1
    BY <1>6, <1>7, <1>8, <1>9 DEF Block, Header
  <2>4. b \in Block(m) /\ Taken(b, f.loads[l], s) /\ b.init
    BY <1>1, <1>6, <1>9
  <2>5. Cardinality(Full(f.loads[l])) <= b.hdr.devs + 1
    BY <1>1, <2>3
  <2>6. Minus(With(f, l, b), f, l, s, m)
    <3>1. ~b.init => f.count = 1 /\ b.hdr.devs = 0
      BY <2>4
    <3>2. Taken(b, f.loads[l], s)
      BY <2>4
    <3>3. b \in Block(m)
      BY <2>4
    <3> QED
      BY <2>2, <2>5, <3>1, <3>2, <3>3, OneLess
  <2> QED
    BY <2>1, <2>6
<1>12. CASE left = 0 /\ f.count = 1
  <2>1. g = [count |-> f.count, loads |-> [f.loads EXCEPT ![l] = u]]
    BY <1>10, <1>12
  <2>2. g = With(f, l, u)
    BY <1>6, <2>1 DEF With
  <2>3. Cardinality(Full(o)) <= u.hdr.devs + 1
    BY <1>6, <1>7, <1>8, <1>9, <1>12 DEF Block, Header
  <2>4. u \in Block(m) /\ Taken(u, f.loads[l], s) /\ u.hdr.devs = 0
    BY <1>1, <1>9
  <2>5. Cardinality(Full(f.loads[l])) <= u.hdr.devs + 1
    BY <1>1, <2>3
  <2>6. Minus(With(f, l, u), f, l, s, m)
    BY <1>12, <2>4, <2>5, OneLess
  <2> QED
    BY <2>2, <2>6
<1>13. CASE left = 0 /\ f.count # 1
  <2>1. CASE l >= f.count
    <3>1. g.count = f.count - 1
      BY <1>10, <1>13, <2>1
    <3> QED
      BY <1>6, <1>13, <2>1, <3>1, EmptyList
  <2>2. CASE l < f.count
    <3>1. g.loads = [f.loads EXCEPT ![l] = u]
      BY <1>6, <1>10, <1>13, <2>2
    <3>2. g.loads[l] = u
      BY <1>6, <3>1
    <3> QED
      BY <1>6, <1>9, <1>13, <3>2, EmptyList
  <2> QED
    BY <1>6, <2>1, <2>2
<1> QED
  BY <1>11, <1>12, <1>13

-----------------------------------------------------------------------------
(* The file the simple dialog writes, and the one it is shown.              *)

LEMMA PortFileGood ==
  ASSUME NEW ports \in Checkable, NEW m \in Nat, MaxDcb <= m
  PROVE  /\ Good(PortFile(ports), m) /\ PortFile(ports).count = 1
         /\ PortFile(ports).loads[1].init
<1> DEFINE n == Cardinality(ports)
           q == Ascending(ports)
           d == [s \in Slots |-> IF s \in DOMAIN q THEN [name |-> q[s], addr |-> q[s]] ELSE NoDev]
           h == [devs |-> n, dcbs |-> MaxDcb, adv |-> FALSE]
           b == [init |-> TRUE, hdr |-> h, dev |-> d]
<1>1. /\ ports \in SUBSET Names /\ ports \in SUBSET Addrs /\ ports \in SUBSET Int
      /\ IsFiniteSet(ports) /\ n <= MaxDcb /\ MaxDcb \in Nat
  <2>1. ports \in SUBSET StdPorts /\ n <= MaxDcb
    BY DEF Checkable
  <2>2. /\ StdPorts \subseteq Names /\ StdPorts \subseteq Addrs /\ StdPorts \subseteq Int
        /\ IsFiniteSet(StdPorts) /\ MaxDcb \in Nat
    BY DriverIniAssumption
  <2>3. IsFiniteSet(ports)
    BY <2>1, <2>2, FS_Subset
  <2> QED
    BY <2>1, <2>2, <2>3
<1>2. /\ DOMAIN q = 1..n /\ n \in Nat
      /\ \A i \in DOMAIN q : q[i] \in ports
      /\ \A i, j \in DOMAIN q : q[i] = q[j] => i = j
  BY <1>1, AscendingIsList
<1>3. PortFile(ports) = [count |-> 1, loads |-> <<b>>]
  BY Zenon DEF PortFile
<1> HIDE DEF q, n
<1>4. DOMAIN q \subseteq Slots
  BY <1>1, <1>2 DEF Slots
<1>5. \A i \in DOMAIN q : [name |-> q[i], addr |-> q[i]] \in Devices /\ q[i] # 0
  BY <1>1, <1>2, DriverIniAssumption DEF Devices
<1>6. /\ d \in [Slots -> Devices \union {NoDev}]
      /\ \A s \in Slots : d[s] # NoDev <=> s \in DOMAIN q
      /\ \A s \in DOMAIN q : d[s].name = q[s] /\ d[s].addr = q[s]
  BY <1>4, <1>5 DEF NoDev
<1>7. h \in Header(m) /\ h.devs = n
  BY <1>1, <1>2 DEF Header
<1> HIDE DEF d, h
<1>8. b \in Block(m) /\ b.init /\ b.hdr = h /\ b.dev = d
  BY <1>6, <1>7 DEF Block
<1> HIDE DEF b
<1>9. Full(b) = 1..n
  BY <1>2, <1>4, <1>6, <1>8 DEF Full
<1>10. Cardinality(Full(b)) = n
  BY <1>2, <1>9, FS_Interval
<1>11. GoodBlock(b, m)
  BY <1>2, <1>7, <1>8, <1>10 DEF GoodBlock
<1>12. \A s, t \in Full(b) : s # t => Differ(b.dev[s], b.dev[t])
  BY <1>2, <1>6, <1>8, <1>9 DEF Differ
<1> DEFINE f == [count |-> 1, loads |-> <<b>>]
<1>13. f \in [count : Nat, loads : Seq(Block(m))]
  BY <1>8
<1>14. f.count = 1 /\ f.loads[1] = b /\ Len(f.loads) = 1
  OBVIOUS
<1> HIDE DEF f
<1>15. Shaped(f, m)
  BY <1>8, <1>11, <1>13, <1>14 DEF Shaped
<1>16. Apart(f)
  BY <1>12, <1>14 DEF Apart
<1>17. Good(f, m) /\ f.loads[1].init
  BY <1>8, <1>14, <1>15, <1>16 DEF Good
<1> QED
  BY <1>3, <1>14, <1>17 DEF f

(* The headers are marked in use before a dialog opens.                     *)
LEMMA ReadyGood ==
  ASSUME NEW f, NEW m \in Nat, Good(f, m), f.count > 0, ~f.loads[1].init
  PROVE  /\ Good(AddIniConfigHeader(f), m) /\ AddIniConfigHeader(f).count = 1
         /\ AddIniConfigHeader(f).loads[1].init /\ Full(AddIniConfigHeader(f).loads[1]) = {}
<1>1. f.count = 1 /\ AddedLoad(f) = 1 /\ f.count \in Nat
  BY OneHole DEF Good, Shaped
<1>2. AddIniConfigHeader(f) = With(f, 1, FreshLoad)
  BY <1>1 DEF AddIniConfigHeader, With
<1>3. GoodBlock(FreshLoad, m) /\ FreshLoad.init /\ Full(FreshLoad) = {}
  BY Fresh
<1> DEFINE g == With(f, 1, FreshLoad)
<1>4. /\ Good(g, m) /\ g.count = f.count
      /\ \A k \in 1..f.count : g.loads[k] = IF k = 1 THEN FreshLoad ELSE f.loads[k]
  BY <1>1, <1>3, Replaced
<1>5. g.loads[1] = FreshLoad
  BY <1>1, <1>4
<1> QED
  BY <1>1, <1>2, <1>3, <1>4, <1>5
-----------------------------------------------------------------------------
(* The lists of addresses.                                                  *)

Lists(b, f, ls) ==
  /\ IsBag(b)
  /\ \A l \in ls : \A s \in Full(f.loads[l]) : f.loads[l].dev[s].addr \in DOMAIN b
  /\ \A a \in DOMAIN b : \E l \in ls : \E s \in Full(f.loads[l]) : f.loads[l].dev[s].addr = a

LEMMA AddrsListed ==
  ASSUME NEW f, NEW m \in Nat, Good(f, m), NEW ls \in SUBSET (1..f.count)
  PROVE  Lists(AddrBag(f, ls), f, ls)
<1> DEFINE at == UNION {{<<l, s>> : s \in Used(f, l)} : l \in {k \in ls : f.loads[k].init}}
           of(x) == f.loads[x[1]].dev[x[2]].addr
<1>1. \A l \in ls : Used(f, l) = Full(f.loads[l]) /\ (Full(f.loads[l]) # {} => f.loads[l].init)
  BY UsedIsFull
<1>2. \A l \in ls : \A s \in Full(f.loads[l]) : <<l, s>> \in at
  BY <1>1
<1>3. \A x \in at : \E l \in ls : \E s \in Full(f.loads[l]) : x = <<l, s>>
  BY <1>1
<1>4. IsFiniteSet(at)
  <2>1. at \in SUBSET ((1..f.count) \X Slots)
    BY <1>3 DEF Full
  <2>2. IsFiniteSet(1..f.count) /\ IsFiniteSet(Slots)
    BY FS_Interval, DriverIniAssumption DEF Slots, Good, Shaped
  <2>3. IsFiniteSet((1..f.count) \X Slots)
    BY <2>2, FS_Product
  <2> QED
    BY <2>1, <2>3, FS_Subset
<1>5. AddrBag(f, ls) = [a \in {of(x) : x \in at} |-> Cardinality({x \in at : of(x) = a})]
  BY DEF AddrBag
<1> HIDE DEF at
<1>6. ASSUME NEW a \in {of(x) : x \in at}
      PROVE  Cardinality({x \in at : of(x) = a}) \in Nat \ {0}
  <2>1. IsFiniteSet({x \in at : of(x) = a}) /\ {x \in at : of(x) = a} # {}
    BY <1>4, FS_Subset
  <2> QED
    BY <2>1, FS_EmptySet, FS_CardinalityType
<1>7. IsBag(AddrBag(f, ls)) /\ DOMAIN AddrBag(f, ls) = {of(x) : x \in at}
  BY <1>5, <1>6 DEF IsBag
<1>8. \A l \in ls : \A s \in Full(f.loads[l]) : f.loads[l].dev[s].addr \in {of(x) : x \in at}
  <2> TAKE l \in ls
  <2> TAKE s \in Full(f.loads[l])
  <2>1. <<l, s>> \in at /\ of(<<l, s>>) = f.loads[l].dev[s].addr
    BY <1>2
  <2> QED
    BY <2>1
<1>9. \A a \in {of(x) : x \in at} : \E l \in ls : \E s \in Full(f.loads[l]) : f.loads[l].dev[s].addr = a
  BY <1>3
<1> QED
  BY <1>7, <1>8, <1>9 DEF Lists

LEMMA BagsDiffer ==
  ASSUME NEW b, NEW c, IsBag(b), IsBag(c)
  PROVE  /\ IsBag(b (-) c) /\ DOMAIN (b (-) c) \subseteq DOMAIN b
         /\ DOMAIN b \ DOMAIN c \subseteq DOMAIN (b (-) c)
<1>1. \A x \in DOMAIN b : b[x] \in Nat /\ b[x] > 0
  BY DEF IsBag
<1>2. \A x \in DOMAIN c : c[x] \in Nat /\ c[x] > 0
  BY DEF IsBag
<1> QED
  BY <1>1, <1>2 DEF (-), IsBag

LEMMA OneBag ==
  ASSUME NEW a
  PROVE  IsBag(SetToBag({a})) /\ DOMAIN SetToBag({a}) = {a} /\ IsBag(EmptyBag) /\ DOMAIN EmptyBag = {}
BY DEF IsBag, SetToBag, EmptyBag

LEMMA AddressExchanged ==
  ASSUME NEW list, IsBag(list), NEW a
  PROVE  /\ IsBag(Exchanged(list, a)) /\ DOMAIN Exchanged(list, a) \subseteq DOMAIN list \union {a}
         /\ DOMAIN list \ {nb.old} \subseteq DOMAIN Exchanged(list, a)
         /\ a # nb.old => a \in DOMAIN Exchanged(list, a)
<1>1. CASE a = nb.old
  BY <1>1 DEF Exchanged
<1>2. CASE a # nb.old
  <2> DEFINE b == list (+) SetToBag({a})
  <2>1. IsBag(b) /\ DOMAIN b = DOMAIN list \union {a}
    BY DEF (+), IsBag, SetToBag
  <2>2. Exchanged(list, a) = b (-) SetToBag({nb.old})
    BY <1>2 DEF Exchanged
  <2> HIDE DEF b
  <2>3. /\ IsBag(b (-) SetToBag({nb.old})) /\ DOMAIN (b (-) SetToBag({nb.old})) \subseteq DOMAIN b
        /\ DOMAIN b \ {nb.old} \subseteq DOMAIN (b (-) SetToBag({nb.old}))
    BY <2>1, OneBag, BagsDiffer
  <2> QED
    BY <1>2, <2>1, <2>2, <2>3
<1> QED
  BY <1>1, <1>2

(* The search for a name finds its device.                                  *)
LEMMA NameFound ==
  ASSUME NEW f, NEW m \in Nat, Good(f, m), NEW l \in 1..f.count, NEW s \in Full(f.loads[l]),
         NEW p, NEW n, n = f.loads[l].dev[s].name
  PROVE  Named(f, n) # {} /\ QueryIniDCBheaderName(f, n, p) = [load |-> l, dev |-> s]
<1>1. f.count \in Nat /\ f.count > 0 /\ f.loads[1].init
  BY UsedIsFull DEF Good, Shaped
<1>2. Min(Holes(f) \union {f.count + 1}) - 1 = f.count
  BY <1>1, NoHoles
<1>3. \A k \in 1..f.count : Used(f, k) = Full(f.loads[k])
  BY UsedIsFull
<1>4. Named(f, n) = {x \in (1..f.count) \X Slots :
                       x[2] \in Full(f.loads[x[1]]) /\ f.loads[x[1]].dev[x[2]].name = n}
  BY <1>2, <1>3 DEF Named
<1>5. Named(f, n) = {<<l, s>>}
  <2>1. <<l, s>> \in Named(f, n)
    BY <1>4 DEF Full
  <2>2. ASSUME NEW k \in 1..f.count, NEW t \in Full(f.loads[k]), f.loads[k].dev[t].name = n
        PROVE  <<k, t>> = <<l, s>>
    BY <2>2, Together DEF Differ
  <2> QED
    BY <1>4, <2>1, <2>2
<1>6. {x[1] : x \in {<<l, s>>}} = {l} /\ {x[2] : x \in {y \in {<<l, s>>} : y[1] = l}} = {s}
  OBVIOUS
<1>7. l \in Nat /\ s \in Nat
  BY DriverIniAssumption DEF Full, Slots
<1>8. Min({l}) = l /\ Min({s}) = s
  BY <1>7 DEF Min
<1> QED
  BY <1>5, <1>6, <1>8 DEF QueryIniDCBheaderName

-----------------------------------------------------------------------------
(* What holds in every state: Base.                                         *)

LEMMA CountedStays ==
  ASSUME NEW f, Counted(f)
  PROVE  /\ Counted(OpenIni(f)) /\ Counted(AddIniConfigHeader(f))
         /\ f.count - Cardinality(Holes(f)) \in Int
         /\ \A h, l : Counted(PlaceIniCFGheader(f, h, l))
         /\ \A l : Counted(RemoveIniCFGheader(f, l))
         /\ \A p : Counted(RemoveIniDCBheader(f, p))
<1>1. Counted(OpenIni(f))
  BY DEF Counted, OpenIni, NewFile
<1>2. Counted(AddIniConfigHeader(f))
  <2>1. AddedLoad(f) \in Int
    <3>1. CASE Holes(f) = {}
      BY <3>1 DEF AddedLoad, Min, Counted
    <3>2. CASE Holes(f) # {}
      <4>1. Holes(f) \union {f.count + 1} \in SUBSET Nat
        BY <3>2 DEF Holes, Counted
      <4> QED
        BY <4>1, LeastNat DEF AddedLoad
    <3> QED
      BY <3>1, <3>2
  <2> QED
    BY <2>1 DEF Counted, AddIniConfigHeader
<1>3. f.count - Cardinality(Holes(f)) \in Int
  <2>1. IsFiniteSet(1..f.count) /\ Holes(f) \in SUBSET (1..f.count)
    BY FS_Interval DEF Holes, Counted
  <2>2. Cardinality(Holes(f)) \in Nat
    BY <2>1, FS_Subset, FS_CardinalityType
  <2> QED
    BY <2>2 DEF Counted
<1>4. \A h, l : Counted(PlaceIniCFGheader(f, h, l))
  BY DEF Counted, PlaceIniCFGheader
<1>5. \A l : Counted(RemoveIniCFGheader(f, l))
  <2> TAKE l
  <2> QED
    BY DEF Counted, RemoveIniCFGheader
<1>6. \A p : Counted(RemoveIniDCBheader(f, p))
  <2> TAKE p
  <2> QED
    BY DEF Counted, RemoveIniDCBheader, RemoveDevice
<1> QED
  BY <1>1, <1>2, <1>3, <1>4, <1>5, <1>6

LEMMA CountedPlaced ==
  ASSUME NEW f, Counted(f), NEW h, NEW d, NEW p
  PROVE  Counted(PlaceIniDCBheader(f, h, d, p).file)
BY DEF Counted, PlaceIniDCBheader, PlaceDevice

LEMMA CountedFiles ==
  /\ Counted(NoFile) /\ \A ports \in Checkable : Counted(PortFile(ports))
BY DEF Counted, NoFile, PortFile

LEMMA BaseStep ==
  ASSUME Base, [Next]_vars
  PROVE  Base'
<1>0. MaxEdits \in Nat /\ edits \in 0..MaxEdits
  BY DriverIniAssumption DEF Base
<1>1. CASE InstallDevice
  <2>1. Counted(saved') /\ Counted(file')
    BY <1>1, CountedStays DEF InstallDevice, Base
  <2>2. nload' \in Int
    <3>1. CASE nload' = nload
      BY <3>1 DEF Base
    <3>2. CASE nload' # nload
      <4>1. \E c \in Int : nload' = Max({c, 1})
        BY <1>1, <2>1, <3>2, CountedStays DEF InstallDevice, OpenAdvanced
      <4>2. \A c \in Int : Max({c, 1}) \in Int
        BY DEF Max
      <4> QED
        BY <4>1, <4>2
    <3> QED
      BY <3>1, <3>2
  <2> QED
    BY <1>0, <1>1, <2>1, <2>2 DEF InstallDevice, Edit, Base
<1>2. CASE SimpleOk
  BY <1>0, <1>2, CountedFiles DEF SimpleOk, CloseDialog, AdjustConfigSys, Base
<1>3. CASE SimpleAdvanced
  <2>1. Counted(file')
    BY <1>3, CountedFiles DEF SimpleAdvanced
  <2>2. nload' \in Int
    <3>1. \E c \in Int : nload' = Max({c, 1})
      BY <1>3, CountedFiles, CountedStays DEF SimpleAdvanced, OpenAdvanced
    <3>2. \A c \in Int : Max({c, 1}) \in Int
      BY DEF Max
    <3> QED
      BY <3>1, <3>2
  <2>3. dlg = "simple" /\ dlg' = "advanced" /\ UNCHANGED <<saved, nb, bootVars, intact, edits>>
    BY <1>3 DEF SimpleAdvanced, OpenAdvanced
  <2> QED
    BY <2>1, <2>2, <2>3 DEF bootVars, Base
<1>4. CASE SimpleCancel
  BY <1>4 DEF SimpleCancel, CloseDialog, bootVars, Base
<1>5. CASE AdvancedOk
  <2>1. Counted(file')
    BY <1>5, CountedStays DEF AdvancedOk, Base
  <2>2. lines' \in Int /\ UNCHANGED <<boot, served>>
    BY <1>5 DEF AdvancedOk, AdjustConfigSys, Base
  <2> QED
    BY <1>5, <2>1, <2>2 DEF AdvancedOk, InDialog, CloseDialog, Base
<1>6. CASE AdvancedCancel
  BY <1>6 DEF AdvancedCancel, InDialog, CloseDialog, bootVars, Base
<1>7. CASE AddLoad
  BY <1>0, <1>7, CountedStays DEF AddLoad, Edit, InDialog, bootVars, Base
<1>8. CASE DeleteLoad
  BY <1>0, <1>8, CountedStays DEF DeleteLoad, Edit, InDialog, bootVars, Base
<1>9. CASE SpinLoad
  <2>1. Counted(file')
    <3>1. file' = PlaceIniCFGheader(file, Advanced(gcfg), pos.load)
      BY <1>9 DEF SpinLoad
    <3> QED
      BY <3>1, CountedStays DEF Base
  <2>2. UNCHANGED <<saved, dlg, nested, nb, nload, bootVars, intact, edits>>
    BY <1>9 DEF SpinLoad
  <2> QED
    BY <2>1, <2>2 DEF bootVars, Base
<1>10. CASE Highlight
  BY <1>10 DEF Highlight, fileVars, bootVars, Base
<1>11. CASE InsertDevice
  BY <1>0, <1>11 DEF InsertDevice, Edit, InDialog, fileVars, bootVars, Base
<1>12. CASE EditDevice
  BY <1>0, <1>12 DEF EditDevice, Edit, InDialog, fileVars, bootVars, Base
<1>13. CASE DeleteDevice
  <2>1. Counted(file')
    BY <1>13, CountedStays DEF DeleteDevice, fileVars, Base
  <2>2. saved' = saved /\ nload' = nload
    BY <1>13 DEF DeleteDevice, fileVars, editVars
  <2>3. InDialog /\ Edit /\ UNCHANGED <<nested, nb, bootVars>>
    BY <1>13 DEF DeleteDevice
  <2> QED
    BY <1>0, <2>1, <2>2, <2>3 DEF Edit, InDialog, bootVars, Base
<1>21. CASE TurnPage
  <2>1. PICK a : nb' = [nb EXCEPT !.old = a]
    BY <1>21 DEF TurnPage
  <2>2. UNCHANGED <<fileVars, editVars, bootVars, dlg, nested, intact, edits>>
    BY <1>21 DEF TurnPage
  <2> QED
    BY <2>1, <2>2 DEF fileVars, editVars, bootVars, Base
<1>14. CASE SaveRefused
  <2>1. PICK a : nb' = [nb EXCEPT !.old = a]
    BY <1>14 DEF SaveRefused, TakeAddress
  <2>2. Edit /\ UNCHANGED <<fileVars, dlg, nload, bootVars>>
    BY <1>14 DEF SaveRefused
  <2> QED
    BY <1>0, <2>1, <2>2 DEF Edit, fileVars, bootVars, Base
<1>15. CASE PageRefused
  <2>1. PICK a : nb' = [nb EXCEPT !.old = a]
    BY <1>15 DEF PageRefused, TakeAddress
  <2>2. Edit /\ UNCHANGED <<fileVars, dlg, nload, bootVars>>
    BY <1>15 DEF PageRefused
  <2> QED
    BY <1>0, <2>1, <2>2 DEF Edit, fileVars, bootVars, Base
<1>16. CASE NotebookOk
  <2>1. Counted(file')
    BY <1>16, CountedPlaced DEF NotebookOk, Base
  <2>2. nb' = Closed /\ nb.open /\ UNCHANGED <<saved, nested, sel, nload, bootVars, edits>>
    BY <1>16 DEF NotebookOk
  <2> QED
    BY <2>1, <2>2 DEF Closed, bootVars, Base
<1>17. CASE NotebookCancel
  BY <1>17 DEF NotebookCancel, Closed, fileVars, editVars, bootVars, Base
<1>18. CASE Boot
  BY <1>0, <1>18 DEF Boot, Edit, fileVars, editVars, Base
<1>19. CASE GetIniInfo
  <2>1. UNCHANGED <<fileVars, editVars, lines, dlg, nested, nb, intact, edits>> /\ boot.left > 0
    BY <1>19 DEF GetIniInfo, LoadDriver
  <2>2. /\ DOMAIN boot' = DOMAIN boot /\ boot'.left = boot.left - 1 /\ boot'.done = boot.done
        /\ boot'.resident \in BOOLEAN
    BY <1>19 DEF GetIniInfo, LoadDriver, Base
  <2> QED
    BY <2>1, <2>2 DEF fileVars, editVars, Base
<1>20. CASE UNCHANGED vars
  BY <1>20 DEF vars, fileVars, editVars, bootVars, Base
<1> QED
  BY <1>1, <1>2, <1>3, <1>4, <1>5, <1>6, <1>7, <1>8, <1>9, <1>10, <1>11, <1>12, <1>13, <1>14,
     <1>15, <1>16, <1>17, <1>18, <1>19, <1>20, <1>21 DEF Next

-----------------------------------------------------------------------------
(* The advanced dialog opens on a good file.                                *)

LEMMA ShownDomain ==
  ASSUME NEW q, NEW b, Shows(q, b)
  PROVE  /\ q \in Seq(Names) /\ DOMAIN q = 1..Cardinality(Full(b)) /\ Cardinality(Full(b)) \in Nat
         /\ 0 \notin DOMAIN q /\ Len(q) = Cardinality(Full(b))
<1>1. q \in Seq(Names) /\ Len(q) = Cardinality(Full(b))
  BY DEF Shows
<1>2. DOMAIN q = 1..Len(q) /\ Len(q) \in Nat
  BY <1>1
<1> QED
  BY <1>1, <1>2

LEMMA Opened ==
  ASSUME NEW f, NEW h, Good(f, Most'), Most' \in Nat, f.count > 0, h \in Header(Most'),
         OpenAdvanced(f, h), file' = f, ~nb'.open
  PROVE  Placed' /\ Listed' /\ Linked' /\ dlg' = "advanced"
<1> DEFINE m == Most'
<1>1. f.count \in Nat /\ 1 \in 1..f.count /\ MaxDcb \in Nat \ {0}
  BY DriverIniAssumption DEF Good, Shaped
<1>2. nload' = f.count /\ pos' \in [load : {1}, dev : 0..MaxDcb]
  <2> DEFINE c == f.count - Cardinality(Holes(f))
  <2>1. nload' = Max({c, 1}) /\ pos' = [load |-> 1, dev |-> IF c = 0 THEN 0 ELSE 1]
    BY DEF OpenAdvanced
  <2>2. c = f.count \/ (c = 0 /\ f.count = 1)
    <3>1. CASE f.loads[1].init
      <4>1. Holes(f) = {} /\ Cardinality({}) = 0
        BY <1>1, <3>1, NoHoles, FS_EmptySet
      <4> QED
        BY <1>1, <4>1
    <3>2. CASE ~f.loads[1].init
      <4>1. Cardinality({1}) = 1
        BY FS_Singleton
      <4>2. Holes(f) = {1} /\ f.count = 1
        BY <3>2, OneHole
      <4> QED
        BY <4>1, <4>2
    <3> QED
      BY <3>1, <3>2
  <2> HIDE DEF c
  <2>3. Max({c, 1}) = f.count
    <3>1. \A i \in Nat : i >= 1 => Max({i, 1}) = i
      BY DEF Max
    <3>2. Max({0, 1}) = 1
      BY DEF Max
    <3> QED
      BY <1>1, <2>2, <3>1, <3>2
  <2> QED
    BY <1>1, <2>1, <2>3
<1>3. shown' = ListOf(f, 1) /\ mark' = 0 /\ load_addrs' = AddrBag(f, {1} \cap (1..f.count))
  BY DEF OpenAdvanced, FillDeviceCfgListBox
<1>4. Shows(shown', f.loads[1])
  BY <1>1, <1>3, ListShows
<1>5. shown' = <<>> <=> Full(f.loads[1]) = {}
  BY <1>4, EmptyShown
<1>6. /\ gcfg' = IF shown' = <<>> THEN h ELSE f.loads[1].hdr
      /\ can' = [add |-> shown' # <<>>, drop |-> FALSE]
      /\ gdev' = NoDev /\ cur' = 0 /\ sel' = 0
  BY <1>1 DEF OpenAdvanced, QueryIniCFGheader
<1>7. gcfg' \in Header(m) /\ Cardinality(Full(f.loads[1])) <= gcfg'.devs
  <2>1. CASE shown' = <<>>
    BY <1>5, <1>6, <2>1, FS_EmptySet DEF Header
  <2>2. CASE shown' # <<>>
    BY <1>1, <1>6, <2>2 DEF Good, Shaped, GoodBlock, Block
  <2> QED
    BY <2>1, <2>2
<1>8. Placed'
  <2>1. pos'.load = 1
    BY <1>2
  <2> QED
    BY <1>1, <1>2, <1>3, <1>4, <1>5, <1>6, <1>7, <2>1 DEF Placed
<1>9. Linked'
  <2>1. 0 \notin DOMAIN shown'
    BY <1>4, ShownDomain
  <2> QED
    BY <1>6, <2>1 DEF Linked
<1>10. /\ avail' = Names \ {d.name : d \in Configured(f)} /\ addrs' = AddrBag(f, 1..f.count)
  BY DEF OpenAdvanced
<1>11. \A l \in 1..f.count : \A s \in Full(f.loads[l]) : f.loads[l].dev[s] \in Configured(f)
  BY UsedIsFull DEF Configured, DevicesOf
<1>12. /\ IsBag(addrs') /\ IsBag(load_addrs')
       /\ \A l \in 1..f.count : \A s \in Full(f.loads[l]) : f.loads[l].dev[s].addr \in DOMAIN addrs'
       /\ \A a \in DOMAIN load_addrs' : \E s \in Full(f.loads[1]) : f.loads[1].dev[s].addr = a
  <2>1. /\ 1..f.count \in SUBSET (1..f.count) /\ {1} \cap (1..f.count) = {1}
        /\ {1} \in SUBSET (1..f.count)
    BY <1>1
  <2>2. load_addrs' = AddrBag(f, {1})
    BY <1>3, <2>1
  <2>3. /\ IsBag(addrs')
        /\ \A l \in 1..f.count : \A s \in Full(f.loads[l]) : f.loads[l].dev[s].addr \in DOMAIN addrs'
    <3>1. Lists(addrs', f, 1..f.count)
      BY <1>10, <2>1, AddrsListed
    <3> QED
      BY <3>1 DEF Lists
  <2>4. /\ IsBag(load_addrs')
        /\ \A a \in DOMAIN load_addrs' : \E l \in {1} : \E s \in Full(f.loads[l]) :
             f.loads[l].dev[s].addr = a
    <3>1. Lists(load_addrs', f, {1})
      BY <2>1, <2>2, AddrsListed
    <3> QED
      BY <3>1 DEF Lists
  <2> QED
    BY <2>3, <2>4
<1>13. \A l \in 1..f.count \ {1} : \A s \in Full(f.loads[l]) :
         f.loads[l].dev[s].addr \notin DOMAIN load_addrs'
  BY <1>1, <1>12, Together DEF Differ
<1>14. Listed'
  <2>1. \A l, s : Rest(l, s)' => s \in Full(f.loads[l])
    BY DEF Rest
  <2>2. pos'.load = 1
    BY <1>2
  <2> QED
    BY <1>6, <1>10, <1>11, <1>12, <1>13, <2>1, <2>2 DEF Listed
<1> QED
  BY <1>8, <1>9, <1>14 DEF OpenAdvanced

-----------------------------------------------------------------------------
(* The steps, one lemma each.                                               *)

LEMMA MostNat ==
  ASSUME Base
  PROVE  /\ Most \in Nat /\ Most <= MaxDcb + MaxEdits
         /\ ~nb.open => Most = MaxDcb + edits /\ MaxDcb <= Most
BY DriverIniAssumption DEF Most, Base

LEMMA MostNatNext ==
  ASSUME Base'
  PROVE  /\ Most' \in Nat /\ Most' <= MaxDcb + MaxEdits
         /\ ~nb'.open => Most' = MaxDcb + edits' /\ MaxDcb <= Most'
<1>1. edits' \in 0..MaxEdits /\ nb'.open \in BOOLEAN /\ nb'.insert \in BOOLEAN
  BY DEF Base
<1>2. MaxDcb \in Nat \ {0} /\ MaxEdits \in Nat
  BY DriverIniAssumption
<1>3. \A e \in 0..MaxEdits, i \in {0, 1} :
        /\ MaxDcb + e - i \in Nat /\ MaxDcb + e - i <= MaxDcb + MaxEdits
        /\ i = 0 => MaxDcb + e - i = MaxDcb + e /\ MaxDcb <= MaxDcb + e - i
  BY <1>2
<1>4. PICK i \in {0, 1} : Most' = MaxDcb + edits' - i /\ (~nb'.open => i = 0)
  BY DEF Most
<1> QED
  BY <1>1, <1>3, <1>4

LEMMA AdvancedHeader ==
  ASSUME NEW m \in Nat, NEW h \in Header(m)
  PROVE  Advanced(h) \in Header(m) /\ Advanced(h).devs = h.devs /\ h.devs \in Nat
<1>1. h \in [devs : 0..m, dcbs : {MaxDcb}, adv : BOOLEAN]
  BY DEF Header
<1>2. [h EXCEPT !.adv = TRUE] \in [devs : 0..m, dcbs : {MaxDcb}, adv : BOOLEAN]
  BY <1>1
<1>3. [h EXCEPT !.adv = TRUE].devs = h.devs /\ h.devs \in Nat
  BY <1>1
<1> QED
  BY <1>2, <1>3 DEF Advanced, Header

LEMMA InstallStep ==
  ASSUME Base, Base', intact => Sound, intact', InstallDevice
  PROVE  Sound'
<1> DEFINE f == OpenIni(file)
           first == f.loads[1]
           ready == IF first.init THEN f ELSE AddIniConfigHeader(f)
           header == IF first.init THEN first.hdr ELSE gcfg
<1>1. /\ dlg = "closed" /\ saved' = f /\ file' = ready /\ nb' = nb
      /\ intact' = intact /\ boot'.done = FALSE
      /\ \/ OpenAdvanced(ready, header)
         \/ dlg' = "simple" /\ gcfg' = header
  BY DEF InstallDevice, Base
<1>2. /\ Good(file, Most) /\ (file.count > 0 /\ ~file.loads[1].init => gcfg \in Header(Most))
      /\ ~nb.open
  BY <1>1 DEF Sound, Base
<1>3. Most \in Nat /\ Most' \in Nat /\ Most <= Most' /\ ~nb'.open
  <2>1. edits' = edits + 1 /\ edits \in Nat /\ MaxDcb \in Nat
    BY DriverIniAssumption DEF InstallDevice, Edit, Base
  <2>2. Most = MaxDcb + edits /\ Most' = MaxDcb + edits'
    BY <1>1, <1>2, MostNat, MostNatNext
  <2> QED
    BY <1>1, <1>2, <2>1, <2>2
<1>4. Good(f, Most') /\ f.count > 0 /\ (~first.init => gcfg \in Header(Most'))
  <2>1. CASE file.count = 0
    BY <1>3, <2>1, NewFileGood, Fresh DEF OpenIni
  <2>2. CASE file.count # 0
    <3>1. f = file /\ file.count > 0
      BY <1>2, <2>2 DEF OpenIni, Good, Shaped
    <3> QED
      BY <1>2, <1>3, <3>1, GoodGrows
  <2> QED
    BY <2>1, <2>2
<1> HIDE DEF f
<1>5. Good(ready, Most') /\ ready.count > 0
  BY <1>3, <1>4, ReadyGood
<1>6. header \in Header(Most')
  BY <1>4 DEF Good, Shaped, GoodBlock, Block
<1> HIDE DEF ready, header
<1>7. CASE OpenAdvanced(ready, header)
  <2>1. Placed' /\ Listed' /\ Linked' /\ dlg' = "advanced"
    BY <1>1, <1>3, <1>5, <1>6, <1>7, Opened
  <2> QED
    BY <1>1, <1>4, <1>5, <2>1 DEF Sound
<1>8. CASE dlg' = "simple" /\ gcfg' = header
  BY <1>1, <1>4, <1>5, <1>6, <1>8 DEF Sound
<1> QED
  BY <1>1, <1>7, <1>8

LEMMA SimpleOkStep ==
  ASSUME Base, Base', SimpleOk
  PROVE  Sound'
<1>1. PICK ports \in Checkable : file' = PortFile(ports)
  BY DEF SimpleOk
<1>2. dlg' = "closed" /\ nb' = nb /\ ~nb'.open /\ boot'.done = FALSE
  BY DEF SimpleOk, CloseDialog, AdjustConfigSys, Base
<1>3. Good(file', Most') /\ file'.loads[1].init
  BY <1>1, <1>2, MostNatNext, PortFileGood
<1> QED
  BY <1>2, <1>3 DEF Sound

LEMMA SimpleAdvancedStep ==
  ASSUME Base, Base', intact => Sound, intact', SimpleAdvanced
  PROVE  Sound'
<1>1. PICK ports \in Checkable : file' = PortFile(ports) /\ OpenAdvanced(PortFile(ports), gcfg)
  BY DEF SimpleAdvanced
<1>2. /\ dlg = "simple" /\ nested' = TRUE /\ nb' = nb /\ edits' = edits /\ boot' = boot
      /\ intact /\ ~nb'.open /\ boot'.done = FALSE
  BY DEF SimpleAdvanced, bootVars, Base
<1>3. Most' = Most
  BY <1>2 DEF Most
<1>4. Good(file', Most') /\ file'.count > 0
  BY <1>1, <1>2, MostNatNext, PortFileGood
<1>5. gcfg \in Header(Most') /\ Most' \in Nat
  BY <1>2, <1>3, MostNatNext DEF Sound
<1>6. Placed' /\ Listed' /\ Linked' /\ dlg' = "advanced"
  BY <1>1, <1>2, <1>4, <1>5, Opened
<1> QED
  BY <1>2, <1>4, <1>6 DEF Sound

LEMMA SimpleCancelStep ==
  ASSUME Base, Base', intact => Sound, intact', SimpleCancel
  PROVE  Sound'
<1>1. /\ dlg = "simple" /\ file' = saved /\ dlg' = "closed" /\ gcfg' = gcfg /\ nb' = nb
      /\ edits' = edits /\ boot' = boot /\ intact
  BY DEF SimpleCancel, CloseDialog, bootVars
<1>2. Most' = Most /\ boot.done = FALSE
  BY <1>1 DEF Most, Base
<1> QED
  BY <1>1, <1>2 DEF Sound

LEMMA AdvancedOkStep ==
  ASSUME Base, Base', intact => Sound, intact', AdvancedOk
  PROVE  Sound'
<1>1. /\ dlg = "advanced" /\ dlg' = "closed" /\ gcfg' = gcfg /\ nb' = nb
      /\ file' = PlaceIniCFGheader(file, Advanced(gcfg), pos.load)
      /\ edits' = edits /\ boot' = boot /\ intact
  BY DEF AdvancedOk, InDialog, CloseDialog, AdjustConfigSys
<1>2. Most' = Most /\ boot.done = FALSE /\ Most \in Nat
  BY <1>1, MostNat DEF Most, Base
<1>3. Good(file, Most) /\ Placed
  BY <1>1 DEF Sound
<1>4. /\ gcfg \in Header(Most) /\ pos.load \in 1..file.count
      /\ Cardinality(Full(file.loads[pos.load])) <= gcfg.devs
  BY <1>3 DEF Placed
<1>5. Good(file', Most)
  BY <1>1, <1>2, <1>3, <1>4, AdvancedHeader, HeaderPlaced
<1> QED
  BY <1>1, <1>2, <1>4, <1>5 DEF Sound

LEMMA AdvancedCancelStep ==
  ASSUME Base, Base', intact => Sound, intact', AdvancedCancel
  PROVE  Sound'
<1>1. /\ dlg = "advanced" /\ dlg' = "closed" /\ gcfg' = gcfg /\ nb' = nb
      /\ file' = IF nested THEN file ELSE saved
      /\ edits' = edits /\ boot' = boot /\ intact
  BY DEF AdvancedCancel, InDialog, CloseDialog, bootVars
<1>2. Most' = Most /\ boot.done = FALSE
  BY <1>1 DEF Most, Base
<1>3. gcfg \in Header(Most)
  BY <1>1 DEF Sound, Placed
<1> QED
  BY <1>1, <1>2, <1>3 DEF Sound

LEMMA AddLoadStep ==
  ASSUME Base, Base', intact => Sound, intact', AddLoad
  PROVE  Sound'
<1>1. /\ dlg = "advanced" /\ ~nb.open /\ can.add /\ nload' = nload + 1
      /\ gcfg' = InitializeCFGheader /\ file' = AddIniConfigHeader(file)
      /\ pos' = [pos EXCEPT !.load = AddedLoad(file)]
      /\ can' = [add |-> FALSE, drop |-> TRUE]
      /\ shown' = <<>> /\ sel' = 0 /\ mark' = 0 /\ load_addrs' = EmptyBag
      /\ UNCHANGED <<saved, dlg, nested, nb, gdev, cur, avail, addrs, boot>> /\ intact
      /\ edits' = edits + 1
  BY DEF AddLoad, InDialog, Edit, bootVars
<1>2. Most' \in Nat /\ Most \in Nat /\ Most <= Most' /\ boot.done = FALSE /\ ~nb'.open
  <2>1. edits \in Nat /\ MaxDcb \in Nat
    BY DriverIniAssumption DEF Base
  <2>2. Most = MaxDcb + edits /\ Most' = MaxDcb + edits'
    BY <1>1, MostNat, MostNatNext
  <2> QED
    BY <1>1, <2>1, <2>2 DEF Base
<1>3. Good(file, Most') /\ Placed /\ Listed /\ (~nested => Good(saved, Most') /\ saved.count > 0)
  BY <1>1, <1>2, GoodGrows DEF Sound
<1>4. Full(file.loads[1]) # {} /\ file.count \in Nat /\ file.count > 0 /\ nload = file.count
      /\ pos \in [load : 1..file.count, dev : 0..MaxDcb]
  BY <1>1, <1>3 DEF Placed, Good, Shaped
<1>5. /\ AddedLoad(file) = file.count + 1
      /\ Good(file', Most') /\ file'.count = file.count + 1 /\ file'.loads[file'.count] = FreshLoad
      /\ \A k \in 1..file.count : file'.loads[k] = file.loads[k]
  <2>1. AddedLoad(file) = file.count + 1 /\ Plus(file', file, Most')
    BY <1>1, <1>2, <1>3, <1>4, LoadAppended
  <2> QED
    BY <2>1 DEF Plus
<1>6. /\ Full(FreshLoad) = {} /\ Cardinality({}) = 0 /\ InitializeCFGheader \in Header(Most')
      /\ InitializeCFGheader.devs = 0
  BY <1>2, Fresh, FS_EmptySet DEF InitializeCFGheader
<1>7. Shows(shown', FreshLoad)
  BY <1>1, <1>6 DEF Shows
<1>8. pos' \in [load : {file'.count}, dev : 0..MaxDcb]
  BY <1>1, <1>4, <1>5
<1>9. Placed'
  <2>1. pos'.load = file'.count /\ file'.count \in Nat /\ 1 \in 1..file.count
    BY <1>4, <1>5, <1>8
  <2>2. pos' \in [load : 1..file'.count, dev : 0..MaxDcb]
    BY <1>4, <1>5, <1>8, <2>1
  <2>3. /\ file'.loads[pos'.load] = FreshLoad /\ nload' = file'.count /\ file'.count > 1
        /\ Full(file'.loads[1]) # {}
    BY <1>1, <1>4, <1>5, <2>1
  <2>4. gcfg' \in Header(Most') /\ Cardinality(Full(file'.loads[pos'.load])) <= gcfg'.devs
    <3>1. Cardinality(Full(file'.loads[pos'.load])) = 0 /\ gcfg'.devs = 0
      BY <1>1, <1>6, <2>3
    <3> QED
      BY <1>1, <1>6, <3>1
  <2> QED
    BY <1>1, <1>7, <2>2, <2>3, <2>4 DEF Placed
<1>10. \A l \in 1..file'.count : \A s \in Full(file'.loads[l]) :
         l \in 1..file.count /\ file'.loads[l] = file.loads[l]
  BY <1>4, <1>5, <1>6
<1>11. Listed'
  <2>1. DOMAIN EmptyBag = {} /\ IsBag(EmptyBag)
    BY OneBag
  <2>2. ASSUME NEW l \in 1..file'.count, NEW s \in Slots, Rest(l, s)'
        PROVE  /\ file'.loads[l].dev[s].name \notin avail'
               /\ file'.loads[l].dev[s].addr \in DOMAIN addrs'
    BY <1>1, <1>3, <1>10, <2>2 DEF Listed, Rest
  <2> QED
    BY <1>1, <1>2, <1>3, <2>1, <2>2 DEF Listed
<1>12. Linked'
  BY <1>1, <1>2 DEF Linked
<1> QED
  BY <1>1, <1>2, <1>3, <1>5, <1>9, <1>11, <1>12 DEF Sound

LEMMA Filled ==
  ASSUME NEW f, NEW m \in Nat, Good(f, m), NEW l \in 1..f.count, FillDeviceCfgListBox(f, l)
  PROVE  /\ Shows(shown', f.loads[l]) /\ mark' = 0 /\ IsBag(load_addrs')
         /\ 0 \notin DOMAIN shown' /\ (shown' = <<>> <=> Full(f.loads[l]) = {})
         /\ \A k \in 1..f.count \ {l} : \A s \in Full(f.loads[k]) :
              f.loads[k].dev[s].addr \notin DOMAIN load_addrs'
<1>1. shown' = ListOf(f, l) /\ mark' = 0 /\ load_addrs' = AddrBag(f, {l})
  <2>1. {l} \cap (1..f.count) = {l}
    OBVIOUS
  <2> QED
    BY <2>1 DEF FillDeviceCfgListBox
<1>2. Shows(shown', f.loads[l])
  BY <1>1, ListShows
<1>3. 0 \notin DOMAIN shown' /\ (shown' = <<>> <=> Full(f.loads[l]) = {})
  BY <1>2, ShownDomain, EmptyShown
<1>4. /\ IsBag(load_addrs')
      /\ \A a \in DOMAIN load_addrs' : \E k \in {l} : \E s \in Full(f.loads[k]) :
           f.loads[k].dev[s].addr = a
  <2>1. {l} \in SUBSET (1..f.count)
    OBVIOUS
  <2>2. Lists(load_addrs', f, {l})
    BY <1>1, <2>1, AddrsListed
  <2> QED
    BY <2>2 DEF Lists
<1>5. \A k \in 1..f.count \ {l} : \A s \in Full(f.loads[k]) :
        f.loads[k].dev[s].addr \notin DOMAIN load_addrs'
  BY <1>4, Together DEF Differ
<1> QED
  BY <1>1, <1>2, <1>3, <1>4, <1>5

LEMMA HeaderOf ==
  ASSUME NEW f, NEW m \in Nat, Good(f, m), NEW l \in 1..f.count, NEW h
  PROVE  /\ QueryIniCFGheader(f, h, l) = f.loads[l].hdr /\ f.loads[l].hdr \in Header(m)
         /\ Cardinality(Full(f.loads[l])) <= f.loads[l].hdr.devs
         /\ f.count \in Nat /\ 1 \in 1..f.count /\ (f.count > 1 => Full(f.loads[1]) # {})
BY DEF QueryIniCFGheader, Good, Shaped, GoodBlock, Block

(* The advanced dialog is open on a good file.                              *)
Dialog ==
  /\ dlg = "advanced" /\ Good(file, Most) /\ Placed /\ Listed /\ Linked
  /\ ~nested => Good(saved, Most) /\ saved.count > 0

LEMMA InDialogue ==
  ASSUME Base, intact => Sound, intact, dlg = "advanced"
  PROVE  Dialog /\ boot.done = FALSE /\ Most \in Nat
BY MostNat DEF Dialog, Sound, Base

LEMMA DialogSound ==
  ASSUME Dialog', boot'.done = FALSE
  PROVE  Sound'
BY DEF Dialog, Sound

(* The operations of the dialog and what they add to the counts.             *)
LEMMA MostSteps ==
  ASSUME Base, Base'
  PROVE  /\ Most \in Nat /\ Most' \in Nat
         /\ edits' = edits /\ nb' = nb => Most' = Most
         /\ edits' = edits + 1 /\ nb'.open = nb.open /\ nb'.insert = nb.insert => Most' = Most + 1
         /\ edits' = edits + 1 /\ ~nb.open => Most <= Most'
         /\ edits' = edits /\ nb' = Closed =>
              Most' = IF nb.open /\ nb.insert THEN Most + 1 ELSE Most
<1>1. Most \in Nat /\ Most' \in Nat
  BY MostNat, MostNatNext
<1>2. edits \in Nat /\ MaxDcb \in Nat /\ nb.open \in BOOLEAN /\ nb.insert \in BOOLEAN
      /\ nb'.open \in BOOLEAN /\ nb'.insert \in BOOLEAN /\ edits' \in Nat
  BY DriverIniAssumption DEF Base
<1>3. edits' = edits /\ nb' = nb => Most' = Most
  BY DEF Most
<1>4. edits' = edits + 1 /\ nb'.open = nb.open /\ nb'.insert = nb.insert => Most' = Most + 1
  BY <1>2 DEF Most
<1>5. edits' = edits + 1 /\ ~nb.open => Most <= Most'
  <2>1. \A e, d \in Nat, i \in {0, 1} : d + e <= d + (e + 1) - i
    OBVIOUS
  <2>2. PICK i \in {0, 1} : Most' = MaxDcb + edits' - i
    BY DEF Most
  <2>3. ~nb.open => Most = MaxDcb + edits
    BY MostNat
  <2> QED
    BY <1>2, <2>1, <2>2, <2>3
<1>6. edits' = edits /\ nb' = Closed => Most' = IF nb.open /\ nb.insert THEN Most + 1 ELSE Most
  BY <1>2 DEF Most, Closed
<1> QED
  BY <1>1, <1>3, <1>4, <1>5, <1>6

LEMMA DeleteLoadStep ==
  ASSUME Base, Base', intact => Sound, intact', DeleteLoad
  PROVE  Sound'
<1>1. /\ dlg = "advanced" /\ ~nb.open /\ can.drop /\ addrs' = addrs (-) load_addrs
      /\ avail' = avail \union ({shown[i] : i \in DOMAIN shown} \ ShortNames)
      /\ cur' = IF shown = <<>> THEN cur ELSE shown[Len(shown)]
      /\ file' = RemoveIniCFGheader(file, pos.load) /\ nload' = nload - 1
      /\ pos' = [pos EXCEPT !.load = 1]
      /\ can' = [add |-> TRUE, drop |-> can.drop /\ nload' # 1]
      /\ FillDeviceCfgListBox(file', 1) /\ gcfg' = QueryIniCFGheader(file', gcfg, 1)
      /\ intact /\ pos.load >= file.count /\ edits' = edits + 1
      /\ UNCHANGED <<saved, dlg, nested, nb, gdev, sel, boot>>
  BY DEF DeleteLoad, InDialog, Edit, bootVars
<1>2. Dialog /\ boot.done = FALSE /\ Most \in Nat /\ Most' \in Nat /\ Most <= Most'
  BY <1>1, InDialogue, MostSteps
<1>3. /\ Good(file, Most') /\ Placed /\ Listed /\ Linked
      /\ ~nested => Good(saved, Most') /\ saved.count > 0
  BY <1>2, GoodGrows DEF Dialog
<1>4. /\ nload = file.count /\ file.count \in Nat /\ file.count > 1 /\ pos.load = file.count
      /\ pos \in [load : 1..file.count, dev : 0..MaxDcb] /\ can.drop \in BOOLEAN
      /\ Shows(shown, file.loads[file.count]) /\ (shown = <<>> => sel = 0)
  BY <1>1, <1>3 DEF Placed, Good, Shaped
<1>5. file' = [count |-> file.count - 1, loads |-> SubSeq(file.loads, 1, file.count - 1)]
  BY <1>1, <1>4 DEF RemoveIniCFGheader
<1>6. /\ Good(file', Most') /\ file'.count = file.count - 1
      /\ \A k \in 1..file'.count : file'.loads[k] = file.loads[k]
  BY <1>2, <1>3, <1>4, <1>5, CutOff
<1>7. 1 \in 1..file'.count /\ file'.loads[1] = file.loads[1] /\ Full(file.loads[1]) # {}
  BY <1>3, <1>4, <1>6 DEF Good, Shaped
<1>8. /\ Shows(shown', file'.loads[1]) /\ mark' = 0 /\ IsBag(load_addrs')
      /\ 0 \notin DOMAIN shown' /\ shown' # <<>>
      /\ \A k \in 1..file'.count \ {1} : \A s \in Full(file'.loads[k]) :
           file'.loads[k].dev[s].addr \notin DOMAIN load_addrs'
  BY <1>1, <1>2, <1>6, <1>7, Filled
<1>9. gcfg' \in Header(Most') /\ Cardinality(Full(file'.loads[1])) <= gcfg'.devs
  BY <1>1, <1>2, <1>6, <1>7, HeaderOf
<1>10. pos' \in [load : {1}, dev : 0..MaxDcb]
  BY <1>1, <1>4
<1>11. Placed'
  <2>1. pos'.load = 1 /\ pos' \in [load : 1..file'.count, dev : 0..MaxDcb]
    BY <1>7, <1>10
  <2>2. nload' = file'.count /\ (can'.drop => file'.count > 1) /\ can' \in [add : BOOLEAN, drop : BOOLEAN]
    <3>1. nload' = file'.count
      BY <1>1, <1>4, <1>6
    <3>2. can' = [add |-> TRUE, drop |-> nload' # 1]
      BY <1>1
    <3>3. file'.count # 1 => file'.count > 1
      BY <1>4, <1>6
    <3> QED
      BY <3>1, <3>2, <3>3
  <2> QED
    BY <1>7, <1>8, <1>9, <2>1, <2>2 DEF Placed
<1>12. \A i \in DOMAIN shown : \E s \in Full(file.loads[file.count]) :
         file.loads[file.count].dev[s].name = shown[i]
  BY <1>4 DEF Shows
<1>13. ASSUME NEW l \in 1..file'.count, NEW s \in Full(file'.loads[l])
       PROVE  /\ l \in 1..file.count /\ l # file.count /\ file'.loads[l] = file.loads[l]
              /\ \A i \in DOMAIN shown : file.loads[l].dev[s].name # shown[i]
  <2>1. l \in 1..file.count /\ l # file.count /\ file'.loads[l] = file.loads[l]
    BY <1>4, <1>6
  <2>2. ASSUME NEW i \in DOMAIN shown
        PROVE  file.loads[l].dev[s].name # shown[i]
    <3>1. PICK t \in Full(file.loads[file.count]) : file.loads[file.count].dev[t].name = shown[i]
      BY <1>12
    <3>2. file.count \in 1..file.count /\ s \in Full(file.loads[l])
      BY <1>4, <1>13, <2>1
    <3> QED
      BY <1>2, <1>3, <2>1, <3>1, <3>2, Together DEF Differ
  <2> QED
    BY <2>1, <2>2
<1>14. Listed'
  <2>1. /\ IsBag(addrs') /\ DOMAIN addrs \ DOMAIN load_addrs \subseteq DOMAIN addrs'
    BY <1>1, <1>3, BagsDiffer DEF Listed
  <2>2. shown \in Seq(Names) /\ avail' \subseteq Names /\ cur' \in Names \union {0}
    <3>1. shown \in Seq(Names)
      BY <1>4 DEF Shows
    <3>2. \A i \in DOMAIN shown : shown[i] \in Names
      BY <3>1
    <3>3. shown # <<>> => Len(shown) \in DOMAIN shown
      BY <3>1
    <3> QED
      BY <1>1, <1>3, <3>1, <3>2, <3>3 DEF Listed
  <2>3. ASSUME NEW l \in 1..file'.count, NEW s \in Slots, Rest(l, s)'
        PROVE  /\ file'.loads[l].dev[s].name \notin avail'
               /\ file'.loads[l].dev[s].addr \in DOMAIN addrs'
    <3>1. s \in Full(file'.loads[l])
      BY <2>3 DEF Rest
    <3>2. /\ l \in 1..file.count /\ l # pos.load /\ file'.loads[l] = file.loads[l]
          /\ file.loads[l].dev[s].name \notin {shown[i] : i \in DOMAIN shown}
      BY <1>4, <1>13, <3>1
    <3>3. /\ file.loads[l].dev[s].name \notin avail /\ file.loads[l].dev[s].addr \in DOMAIN addrs
          /\ file.loads[l].dev[s].addr \notin DOMAIN load_addrs
      BY <1>1, <1>3, <3>1, <3>2 DEF Listed, Rest
    <3> QED
      BY <1>1, <2>1, <3>2, <3>3
  <2> QED
    BY <1>1, <1>8, <1>10, <2>1, <2>2, <2>3 DEF Listed
<1>15. Linked'
  <2>1. ~nb'.open /\ sel' = sel
    BY <1>1
  <2>2. ASSUME sel \in DOMAIN shown', cur' = shown'[sel]
        PROVE  FALSE
    <3>1. shown # <<>>
      BY <1>4, <1>8, <2>2
    <3>2. Len(shown) \in DOMAIN shown /\ cur' = shown[Len(shown)]
      BY <1>1, <1>4, <3>1 DEF Shows
    <3>3. PICK s \in Full(file'.loads[1]) : file'.loads[1].dev[s].name = cur'
      BY <1>8, <2>2 DEF Shows
    <3> QED
      BY <1>7, <1>13, <3>2, <3>3
  <2> QED
    BY <2>1, <2>2 DEF Linked
<1> QED
  BY <1>1, <1>2, <1>3, <1>6, <1>11, <1>14, <1>15, DialogSound DEF Dialog

LEMMA SpinLoadStep ==
  ASSUME Base, Base', intact => Sound, intact', SpinLoad
  PROVE  Sound'
<1>1. PICK l \in 1..nload \ {pos.load} :
        /\ file' = PlaceIniCFGheader(file, Advanced(gcfg), pos.load)
        /\ pos' = [pos EXCEPT !.load = l] /\ sel' = 0
        /\ FillDeviceCfgListBox(file', l)
        /\ gcfg' = QueryIniCFGheader(file', Advanced(gcfg), l)
        /\ can' = [add |-> shown' # <<>>, drop |-> l # 1]
  BY DEF SpinLoad
<1>2. /\ dlg = "advanced" /\ ~nb.open /\ intact /\ edits' = edits
      /\ UNCHANGED <<saved, dlg, nested, nb, gdev, cur, nload, avail, addrs, boot>>
  BY DEF SpinLoad, InDialog, bootVars
<1>3. Dialog /\ boot.done = FALSE /\ Most \in Nat /\ Most' = Most
  BY <1>2, InDialogue, MostSteps
<1>4. /\ gcfg \in Header(Most) /\ pos \in [load : 1..file.count, dev : 0..MaxDcb]
      /\ Cardinality(Full(file.loads[pos.load])) <= gcfg.devs /\ nload = file.count
      /\ Good(file, Most) /\ Listed
  BY <1>3 DEF Dialog, Placed
<1>5. /\ Good(file', Most) /\ file'.count = file.count
      /\ \A k \in 1..file.count : /\ file'.loads[k].dev = file.loads[k].dev
                                  /\ Full(file'.loads[k]) = Full(file.loads[k])
  BY <1>1, <1>3, <1>4, AdvancedHeader, HeaderPlaced
<1>6. l \in 1..file'.count /\ l \in 1..file.count
  BY <1>4, <1>5
<1>7. /\ Shows(shown', file'.loads[l]) /\ mark' = 0 /\ IsBag(load_addrs')
      /\ 0 \notin DOMAIN shown' /\ (shown' = <<>> <=> Full(file'.loads[l]) = {})
      /\ \A k \in 1..file'.count \ {l} : \A s \in Full(file'.loads[k]) :
           file'.loads[k].dev[s].addr \notin DOMAIN load_addrs'
  BY <1>1, <1>3, <1>5, <1>6, Filled
<1>8. /\ gcfg' \in Header(Most) /\ Cardinality(Full(file'.loads[l])) <= gcfg'.devs
      /\ file'.count \in Nat /\ (file'.count > 1 => Full(file'.loads[1]) # {})
  BY <1>1, <1>3, <1>5, <1>6, HeaderOf
<1>9. pos' \in [load : {l}, dev : 0..MaxDcb]
  BY <1>1, <1>4
<1>10. Placed'
  <2>1. pos'.load = l /\ pos' \in [load : 1..file'.count, dev : 0..MaxDcb]
    BY <1>6, <1>9
  <2>2. /\ can' \in [add : BOOLEAN, drop : BOOLEAN]
        /\ can'.drop => file'.count > 1
        /\ can'.add => Full(file'.loads[1]) # {}
    <3>1. can'.add <=> shown' # <<>>
      BY <1>1
    <3>2. can'.drop <=> l # 1
      BY <1>1
    <3>3. can' \in [add : BOOLEAN, drop : BOOLEAN]
      BY <1>1
    <3>4. l # 1 => file'.count > 1
      BY <1>6, <1>8
    <3>5. l = 1 \/ file'.count > 1
      BY <3>4
    <3> QED
      BY <1>7, <1>8, <3>1, <3>2, <3>3, <3>4, <3>5
  <2>3. nload' = file'.count
    BY <1>2, <1>4, <1>5
  <2> QED
    BY <1>1, <1>3, <1>7, <1>8, <2>1, <2>2, <2>3 DEF Placed
<1>11. Listed'
  <2>1. ASSUME NEW k \in 1..file'.count, NEW s \in Slots, Rest(k, s)'
        PROVE  /\ file'.loads[k].dev[s].name \notin avail'
               /\ file'.loads[k].dev[s].addr \in DOMAIN addrs'
    BY <1>2, <1>4, <1>5, <2>1 DEF Listed, Rest
  <2>2. pos'.load = l /\ ~nb'.open
    BY <1>2, <1>9
  <2> QED
    BY <1>2, <1>4, <1>7, <2>1, <2>2 DEF Listed
<1>12. Linked'
  BY <1>1, <1>2, <1>7 DEF Linked
<1> QED
  BY <1>2, <1>3, <1>5, <1>10, <1>11, <1>12, DialogSound DEF Dialog

LEMMA HighlightStep ==
  ASSUME Base, Base', intact => Sound, intact', Highlight
  PROVE  Sound'
<1>1. /\ dlg = "advanced" /\ ~nb.open /\ mark' \in DOMAIN shown
      /\ UNCHANGED <<file, saved, dlg, nested, pos, gcfg, gdev, cur, shown, sel, nload, can, avail,
                     addrs, load_addrs, nb, boot, intact, edits>>
  BY DEF Highlight, InDialog, fileVars, bootVars
<1>2. Dialog /\ boot.done = FALSE /\ Most' = Most
  BY <1>1, InDialogue, MostSteps
<1>3. Placed'
  BY <1>1, <1>2 DEF Dialog, Placed
<1>4. Listed'
  BY <1>1, <1>2 DEF Dialog, Listed, Rest
<1>5. Linked'
  BY <1>1, <1>2 DEF Dialog, Linked, AtPos
<1> QED
  BY <1>1, <1>2, <1>3, <1>4, <1>5, DialogSound DEF Dialog

LEMMA NamesNotZero ==
  ASSUME NEW f, NEW m \in Nat, Good(f, m), NEW l \in 1..f.count, NEW s \in Full(f.loads[l])
  PROVE  /\ f.loads[l].dev[s].name \in Names /\ f.loads[l].dev[s].name # 0
         /\ f.loads[l].dev[s].addr \in Addrs /\ f.loads[l].dev[s].addr # 0
<1>1. f.loads[l].dev[s] \in Devices
  BY Together
<1> QED
  BY <1>1, DriverIniAssumption DEF Devices

LEMMA InsertStep ==
  ASSUME Base, Base', intact => Sound, intact', InsertDevice
  PROVE  Sound'
<1>1. /\ dlg = "advanced" /\ ~nb.open /\ Len(shown) < MaxDcb /\ pos' = [pos EXCEPT !.dev = 0]
      /\ cur' = 0 /\ gdev' = NoDev /\ mark' = 0 /\ edits' = edits + 1
      /\ nb' = [open |-> TRUE, insert |-> TRUE, old |-> 0]
      /\ UNCHANGED <<file, saved, dlg, nested, gcfg, shown, sel, nload, can, avail, addrs,
                     load_addrs, boot, intact>>
  BY DEF InsertDevice, InDialog, Edit, fileVars, bootVars
<1>2. Dialog /\ boot.done = FALSE /\ Most \in Nat /\ Most' \in Nat /\ Most <= Most'
  BY <1>1, InDialogue, MostSteps
<1>3. /\ Good(file, Most') /\ Placed /\ Listed /\ (~nested => Good(saved, Most') /\ saved.count > 0)
      /\ gcfg \in Header(Most')
  BY <1>2, GoodGrows DEF Dialog, Placed
<1>4. pos \in [load : 1..file.count, dev : 0..MaxDcb] /\ MaxDcb \in Nat
  BY <1>3, DriverIniAssumption DEF Placed
<1>5. pos' \in [load : 1..file.count, dev : 0..MaxDcb] /\ pos'.load = pos.load /\ pos'.dev = 0
  BY <1>1, <1>4
<1>6. Placed'
  BY <1>1, <1>3, <1>5 DEF Placed
<1>7. Listed'
  <2>1. ASSUME NEW l \in 1..file.count, NEW s \in Slots, Rest(l, s)'
        PROVE  LET d == file.loads[l].dev[s] IN
               d.name \notin avail /\ d.addr \in DOMAIN addrs /\ d.name # 0 /\ d.addr # 0
    <3>1. s \in Full(file.loads[l])
      BY <1>1, <2>1 DEF Rest
    <3> QED
      BY <1>1, <1>2, <1>3, <3>1, NamesNotZero DEF Listed, Rest
  <2>2. 0 \notin avail
    BY <1>3, DriverIniAssumption DEF Listed
  <2> QED
    BY <1>1, <1>3, <1>5, <2>1, <2>2 DEF Listed
<1>8. Linked'
  BY <1>1, <1>5 DEF Linked
<1> QED
  BY <1>1, <1>2, <1>3, <1>6, <1>7, <1>8, DialogSound DEF Dialog

(* The device the buttons act on is the one that is highlighted.            *)
Hit(t, s) ==
  /\ s \in Full(file.loads[pos.load]) /\ t.pos = [load |-> pos.load, dev |-> s]
  /\ t.dev = file.loads[pos.load].dev[s] /\ t.dev.name = shown[mark]
  /\ t.hdr \in Header(Most) /\ Cardinality(Full(file.loads[pos.load])) <= t.hdr.devs

LEMMA TargetHit ==
  ASSUME Dialog, Most \in Nat, ~nb.open, mark # 0, Target(mark).name = shown[mark]
  PROVE  mark \in DOMAIN shown /\ \E s \in Slots : Hit(Target(mark), s)
<1> DEFINE l == pos.load
           b == file.loads[l]
<1>1. /\ Good(file, Most) /\ Linked /\ pos \in [load : 1..file.count, dev : 0..MaxDcb]
      /\ gcfg \in Header(Most) /\ Cardinality(Full(b)) <= gcfg.devs
      /\ Shows(shown, b) /\ mark \in DOMAIN shown /\ l \in 1..file.count
  BY DEF Dialog, Placed
<1>2. CASE mark = sel
  <2>1. Target(mark) = [pos |-> pos, hdr |-> gcfg, dev |-> gdev, name |-> cur]
    BY <1>2 DEF Target
  <2>2. cur = shown[sel] /\ AtPos /\ gdev.name = cur
    BY <1>1, <1>2, <2>1 DEF Linked
  <2>3. pos.dev \in Full(b) /\ b.dev[pos.dev] = gdev /\ pos = [load |-> l, dev |-> pos.dev]
    BY <1>1, <2>2, DriverIniAssumption DEF AtPos, Full, Slots
  <2>4. Hit(Target(mark), pos.dev)
    BY <1>1, <1>2, <2>1, <2>2, <2>3 DEF Hit
  <2> QED
    BY <1>1, <2>3, <2>4 DEF Full
<1>3. CASE mark # sel
  <2>1. PICK s \in Full(b) : b.dev[s].name = shown[mark]
    BY <1>1 DEF Shows
  <2> DEFINE n == shown[mark]
  <2>2. /\ Named(file, n) # {}
        /\ QueryIniDCBheaderName(file, n, pos) = [load |-> l, dev |-> s]
    BY <1>1, <2>1, NameFound
  <2>3. Target(mark) = [pos |-> [load |-> l, dev |-> s], hdr |-> b.hdr, name |-> n, dev |-> b.dev[s]]
    BY <1>3, <2>2 DEF Target
  <2>4. b.hdr \in Header(Most) /\ Cardinality(Full(b)) <= b.hdr.devs
    BY <1>1, HeaderOf
  <2>5. Hit(Target(mark), s)
    BY <2>1, <2>3, <2>4 DEF Hit
  <2> QED
    BY <1>1, <2>1, <2>5 DEF Full
<1> QED
  BY <1>2, <1>3

LEMMA EditStep ==
  ASSUME Base, Base', intact => Sound, intact', EditDevice
  PROVE  Sound'
<1> DEFINE t == Target(mark)
<1>1. /\ dlg = "advanced" /\ ~nb.open /\ mark # 0 /\ edits' = edits + 1
      /\ sel' = mark /\ pos' = t.pos /\ gcfg' = t.hdr /\ gdev' = t.dev /\ cur' = t.name
      /\ nb' = [open |-> TRUE, insert |-> FALSE, old |-> t.dev.addr]
      /\ intact /\ t.name = shown[mark]
      /\ UNCHANGED <<file, saved, dlg, nested, shown, mark, nload, can, avail, addrs, load_addrs,
                     boot>>
  BY DEF EditDevice, InDialog, Edit, fileVars, bootVars
<1>2. Dialog /\ boot.done = FALSE /\ Most \in Nat /\ Most' \in Nat /\ Most <= Most'
  BY <1>1, InDialogue, MostSteps
<1>3. /\ Good(file, Most') /\ Placed /\ Listed /\ (~nested => Good(saved, Most') /\ saved.count > 0)
      /\ Header(Most) \subseteq Header(Most')
  BY <1>2, GoodGrows DEF Dialog
<1>4. mark \in DOMAIN shown /\ \E s \in Slots : Hit(t, s)
  BY <1>1, <1>2, TargetHit
<1>5. PICK s \in Slots : Hit(t, s)
  BY <1>4
<1> DEFINE l == pos.load
           d == file.loads[l].dev[s]
<1>6. /\ s \in Full(file.loads[l]) /\ pos' = [load |-> l, dev |-> s] /\ gdev' = d
      /\ cur' = d.name /\ gcfg' \in Header(Most') /\ Cardinality(Full(file.loads[l])) <= gcfg'.devs
      /\ nb'.old = d.addr /\ d.name = shown[mark]
  BY <1>1, <1>3, <1>5 DEF Hit
<1> HIDE DEF t
<1>7. l \in 1..file.count /\ Shows(shown, file.loads[l]) /\ s \in 0..MaxDcb /\ s # 0
  BY <1>3, DriverIniAssumption DEF Placed, Slots
<1>8. Placed'
  <2>1. pos' \in [load : 1..file.count, dev : 0..MaxDcb] /\ pos'.load = l
    BY <1>6, <1>7
  <2>2. shown # <<>>
    BY <1>4, <1>7
  <2> QED
    BY <1>1, <1>3, <1>4, <1>6, <2>1, <2>2 DEF Placed
<1>9. /\ d.name \in Names /\ d.name # 0 /\ d.addr \in Addrs /\ d.addr # 0
      /\ d.name \notin avail /\ d.addr \in DOMAIN addrs
  <2>1. d.name \notin avail /\ d.addr \in DOMAIN addrs
    BY <1>1, <1>3, <1>6, <1>7 DEF Listed, Rest
  <2>2. /\ d.name \in Names /\ d.name # 0 /\ d.addr \in Addrs /\ d.addr # 0
    BY <1>2, <1>3, <1>6, <1>7, NamesNotZero
  <2> QED
    BY <2>1, <2>2
<1>10. Listed'
  <2>1. ASSUME NEW k \in 1..file.count, NEW u \in Slots, Rest(k, u)'
        PROVE  LET e == file.loads[k].dev[u] IN
               /\ e.name \notin avail /\ e.addr \in DOMAIN addrs
               /\ e.name # d.name /\ e.addr # d.addr
    <3>1. u \in Full(file.loads[k]) /\ (k # l \/ u # s)
      BY <1>1, <1>6, <2>1 DEF Rest
    <3>2. Differ(d, file.loads[k].dev[u])
      BY <1>2, <1>3, <1>6, <1>7, <3>1, Together
    <3>3. file.loads[k].dev[u].name \notin avail /\ file.loads[k].dev[u].addr \in DOMAIN addrs
      BY <1>1, <1>3, <3>1 DEF Listed, Rest
    <3> QED
      BY <3>2, <3>3 DEF Differ
  <2>2. pos'.load = l /\ nb'.open /\ cur' = d.name /\ nb'.old = d.addr /\ file' = file
        /\ avail' = avail /\ addrs' = addrs /\ load_addrs' = load_addrs
    BY <1>1, <1>6
  <2>3. /\ avail' \subseteq Names /\ IsBag(addrs') /\ IsBag(load_addrs')
        /\ cur' \in Names \union {0}
    BY <1>3, <1>9, <2>2 DEF Listed
  <2>4. \A k \in 1..file'.count : \A u \in Slots : Rest(k, u)' =>
          LET e == file'.loads[k].dev[u] IN
          /\ e.name \notin avail' /\ e.addr \in DOMAIN addrs'
          /\ nb'.open => e.name # cur' /\ e.addr # nb'.old
    <3> HIDE DEF d, l
    <3> QED
      BY <2>1, <2>2
  <2>5. \A k \in 1..file'.count \ {pos'.load} : \A u \in Full(file'.loads[k]) :
          file'.loads[k].dev[u].addr \notin DOMAIN load_addrs'
    BY <1>3, <2>2 DEF Listed
  <2>6. nb'.open => cur' \notin avail' /\ (nb'.old # 0 => nb'.old \in DOMAIN addrs')
    <3> HIDE DEF d, l
    <3> QED
      BY <1>9, <2>2
  <2> HIDE DEF d, l
  <2> QED
    BY <2>3, <2>4, <2>5, <2>6 DEF Listed
<1>11. Linked'
  <2>1. AtPos'
    <3>1. pos'.dev = s /\ pos'.load = l /\ file.loads[l].dev[s] # NoDev
      BY <1>6 DEF Full
    <3> QED
      BY <1>1, <1>6, <1>7, <3>1 DEF AtPos
  <2> QED
    BY <1>1, <1>4, <1>6, <1>9, <2>1 DEF Linked
<1> QED
  BY <1>1, <1>2, <1>3, <1>8, <1>10, <1>11, DialogSound DEF Dialog

(* A count is a word of the file: no behavior inserts so many devices that  *)
(* one could overflow.                                                      *)
Narrow == MaxDcb + MaxEdits < WordSize

(* What Remove of the list box does.                                        *)
Unread == dlg' = "undefined" /\ UNCHANGED <<fileVars, editVars, intact>>
Removed(t) ==
  /\ addrs' = addrs (-) SetToBag({t.dev.addr}) /\ avail' = avail \union {t.name}
  /\ file' = RemoveIniDCBheader(file, t.pos) /\ pos' = t.pos /\ gcfg' = t.hdr /\ gdev' = NoDev
  /\ cur' = 0 /\ sel' = 0 /\ can' = [add |-> can.add /\ shown' # <<>>, drop |-> can.drop]
  /\ FillDeviceCfgListBox(file', t.pos.load)
  /\ intact' = (intact /\ t.name = shown[mark] /\ ~(shown' = <<>> /\ file.count > 1))
  /\ UNCHANGED <<saved, dlg, nload>>

LEMMA DeleteDeviceActs ==
  ASSUME DeleteDevice, NEW t, t = Target(mark)
  PROVE  /\ InDialog /\ mark # 0 /\ Edit /\ UNCHANGED <<nested, nb, bootVars>>
         /\ IF t.pos.dev = 0 THEN Unread ELSE Removed(t)
<1>1. InDialog /\ mark # 0 /\ Edit /\ UNCHANGED <<nested, nb, bootVars>>
  BY Zenon DEF DeleteDevice
<1>2. IF t.pos.dev = 0 THEN Unread ELSE Removed(t)
  BY Zenon DEF DeleteDevice, Unread, Removed
<1> QED
  BY <1>1, <1>2

LEMMA DeleteDeviceStep ==
  ASSUME Base, Base', intact => Sound, intact', DeleteDevice, Narrow
  PROVE  Sound'
<1>1. PICK t : t = Target(mark)
  OBVIOUS
<1>a. /\ InDialog /\ mark # 0 /\ Edit /\ UNCHANGED <<nested, nb, bootVars>>
      /\ IF t.pos.dev = 0 THEN Unread ELSE Removed(t)
  BY <1>1, DeleteDeviceActs
<1>b. intact
  BY <1>a DEF Unread, Removed
<1>2. /\ dlg = "advanced" /\ ~nb.open /\ mark # 0 /\ edits' = edits + 1 /\ intact
      /\ UNCHANGED <<nested, nb, boot>>
  BY <1>a, <1>b DEF InDialog, Edit, bootVars
<1>3. Dialog /\ boot.done = FALSE /\ Most \in Nat /\ Most' \in Nat /\ Most <= Most'
  BY <1>2, InDialogue, MostSteps
<1>4. /\ Good(file, Most') /\ Placed /\ Listed /\ (~nested => Good(saved, Most') /\ saved.count > 0)
      /\ Header(Most) \subseteq Header(Most')
  BY <1>3, GoodGrows DEF Dialog
<1>5. CASE t.pos.dev = 0
  <2>1. dlg' = "undefined" /\ file' = file
    BY <1>a, <1>5 DEF Unread, fileVars
  <2> QED
    BY <1>2, <1>3, <1>4, <2>1 DEF Sound
<1>6. CASE t.pos.dev # 0
  <2>1. /\ addrs' = addrs (-) SetToBag({t.dev.addr}) /\ avail' = avail \union {t.name}
        /\ file' = RemoveIniDCBheader(file, t.pos) /\ pos' = t.pos /\ gcfg' = t.hdr
        /\ cur' = 0 /\ sel' = 0 /\ can' = [add |-> can.add /\ shown' # <<>>, drop |-> can.drop]
        /\ FillDeviceCfgListBox(file', t.pos.load)
        /\ t.name = shown[mark] /\ ~(shown' = <<>> /\ file.count > 1)
        /\ UNCHANGED <<saved, dlg, nload>>
    BY <1>a, <1>6 DEF Removed
  <2>2. mark \in DOMAIN shown /\ \E s \in Slots : Hit(t, s)
    BY <1>1, <1>2, <1>3, <2>1, TargetHit
  <2>3. PICK s \in Slots : Hit(t, s)
    BY <2>2
  <2>4. PICK l : l = pos.load
    OBVIOUS
  <2>5. PICK d : d = file.loads[l].dev[s]
    OBVIOUS
  <2>6. /\ s \in Full(file.loads[l]) /\ t.pos = [load |-> l, dev |-> s] /\ t.dev = d
        /\ d.name = t.name /\ t.hdr \in Header(Most')
        /\ Cardinality(Full(file.loads[l])) <= t.hdr.devs
    BY <1>4, <2>1, <2>3, <2>4, <2>5 DEF Hit
  <2>7. l \in 1..file.count /\ s \in 0..MaxDcb
    BY <1>4, <2>4, DriverIniAssumption DEF Placed, Slots
  <2>8. Minus(file', file, l, s, Most')
    <3>1. Most' < WordSize
      BY MostNatNext, <1>3, WordNat, DriverIniAssumption DEF Narrow
    <3>2. shown' = ListOf(file', l)
      BY <2>1, <2>6 DEF FillDeviceCfgListBox
    <3> QED
      BY <1>3, <1>4, <2>1, <2>6, <2>7, <3>1, <3>2, DeviceRemoved
  <2>9. /\ Good(file', Most') /\ file'.count = file.count
        /\ \A k \in 1..file.count \ {l} : file'.loads[k] = file.loads[k]
        /\ Full(file'.loads[l]) = Full(file.loads[l]) \ {s}
        /\ Taken(file'.loads[l], file.loads[l], s)
    BY <2>8 DEF Minus
  <2>10. DOMAIN file.loads[l].dev = Slots
    BY <1>4, <2>7 DEF Good, Shaped, GoodBlock, Block
  <2>11. ASSUME NEW k \in 1..file.count, NEW u \in Full(file'.loads[k])
         PROVE  /\ u \in Full(file.loads[k]) /\ (k # l \/ u # s)
                /\ file'.loads[k].dev[u] = file.loads[k].dev[u]
                /\ Differ(d, file.loads[k].dev[u])
    <3>1. u \in Full(file.loads[k]) /\ (k # l \/ u # s)
      BY <2>9, <2>11
    <3>2. file'.loads[k].dev[u] = file.loads[k].dev[u]
      <4>1. CASE k = l
        BY <2>9, <2>10, <3>1, <4>1 DEF Taken, Full
      <4>2. CASE k # l
        BY <2>9, <4>2
      <4> QED
        BY <4>1, <4>2
    <3>3. Differ(d, file.loads[k].dev[u])
      BY <1>3, <1>4, <2>5, <2>6, <2>7, <3>1, Together
    <3> QED
      BY <3>1, <3>2, <3>3
  <2>12. /\ Shows(shown', file'.loads[l]) /\ mark' = 0 /\ IsBag(load_addrs')
         /\ 0 \notin DOMAIN shown' /\ (shown' = <<>> <=> Full(file'.loads[l]) = {})
         /\ \A k \in 1..file'.count \ {l} : \A u \in Full(file'.loads[k]) :
              file'.loads[k].dev[u].addr \notin DOMAIN load_addrs'
    <3>1. FillDeviceCfgListBox(file', l) /\ l \in 1..file'.count
      BY <2>1, <2>6, <2>7, <2>9
    <3> QED
      BY <1>3, <2>9, <3>1, Filled
  <2>13. Cardinality(Full(file'.loads[l])) <= gcfg'.devs /\ gcfg' \in Header(Most')
    <3>1. Cardinality(Full(file'.loads[l])) <= Cardinality(Full(file.loads[l]))
      BY <2>9, FullFinite, FS_Subset
    <3>2. /\ Cardinality(Full(file'.loads[l])) \in Int /\ Cardinality(Full(file.loads[l])) \in Int
          /\ t.hdr.devs \in Int
      BY <2>6, FullFinite DEF Header
    <3> QED
      BY <2>1, <2>6, <3>1, <3>2
  <2>14. Placed'
    <3>1. pos'.load = l /\ pos' \in [load : 1..file'.count, dev : 0..MaxDcb]
      BY <2>1, <2>6, <2>7, <2>9
    <3>2. /\ can' \in [add : BOOLEAN, drop : BOOLEAN] /\ (can'.drop => file'.count > 1)
          /\ (can'.add => Full(file'.loads[1]) # {})
      <4>1. /\ can \in [add : BOOLEAN, drop : BOOLEAN] /\ (can.drop => file.count > 1)
            /\ (can.add => Full(file.loads[1]) # {}) /\ file.count \in Nat
        BY <1>4 DEF Placed, Good, Shaped
      <4>2. /\ can' \in [add : BOOLEAN, drop : BOOLEAN] /\ (can'.drop <=> can.drop)
            /\ (can'.add <=> (can.add /\ shown' # <<>>))
        BY <2>1, <4>1
      <4>3. CASE l = 1
        BY <2>9, <2>12, <4>1, <4>2, <4>3
      <4>4. CASE l # 1
        <5>1. 1 \in 1..file.count \ {l}
          BY <2>7, <4>1, <4>4
        <5> QED
          BY <2>9, <4>1, <4>2, <5>1
      <4> QED
        BY <4>3, <4>4
    <3>3. nload' = file'.count
      BY <1>4, <2>1, <2>9 DEF Placed
    <3> QED
      BY <2>1, <2>12, <2>13, <3>1, <3>2, <3>3 DEF Placed
  <2>15. Listed'
    <3>1. /\ IsBag(addrs') /\ DOMAIN addrs \ {d.addr} \subseteq DOMAIN addrs'
      <4>1. IsBag(addrs) /\ IsBag(SetToBag({d.addr})) /\ DOMAIN SetToBag({d.addr}) = {d.addr}
        BY <1>4, OneBag DEF Listed
      <4> QED
        BY <2>1, <2>6, <4>1, BagsDiffer
    <3>2. avail' \subseteq Names
      <4>1. d.name \in Names
        BY <1>3, <1>4, <2>5, <2>6, <2>7, NamesNotZero
      <4> QED
        BY <1>4, <2>1, <2>6, <4>1 DEF Listed
    <3>3. ASSUME NEW k \in 1..file'.count, NEW u \in Slots, Rest(k, u)'
          PROVE  /\ file'.loads[k].dev[u].name \notin avail'
                 /\ file'.loads[k].dev[u].addr \in DOMAIN addrs'
      <4>1. k \in 1..file.count /\ u \in Full(file'.loads[k])
        BY <2>9, <3>3 DEF Rest
      <4>2. /\ u \in Full(file.loads[k]) /\ file'.loads[k].dev[u] = file.loads[k].dev[u]
            /\ Differ(d, file.loads[k].dev[u])
        BY <2>11, <4>1
      <4>3. /\ file.loads[k].dev[u].name \notin avail /\ file.loads[k].dev[u].addr \in DOMAIN addrs
        BY <1>2, <1>4, <3>3, <4>1, <4>2 DEF Listed, Rest
      <4> QED
        BY <2>1, <2>6, <3>1, <4>2, <4>3 DEF Differ
    <3>4. pos'.load = l /\ ~nb'.open
      BY <1>2, <2>1, <2>6
    <3> QED
      BY <2>1, <2>12, <3>1, <3>2, <3>3, <3>4 DEF Listed
  <2>16. Linked'
    BY <1>2, <2>1, <2>12 DEF Linked
  <2> QED
    BY <1>2, <1>3, <1>4, <2>1, <2>9, <2>14, <2>15, <2>16, DialogSound DEF Dialog
<1> QED
  BY <1>5, <1>6

(* What the first page of the notebook saves: an address, a name.           *)
LEMMA AddressTaken ==
  ASSUME Dialog, Base, nb.open, NEW a \in Accepted
  PROVE  /\ IsBag(Exchanged(addrs, a)) /\ IsBag(Exchanged(load_addrs, a))
         /\ a \in Addrs /\ a # 0
         /\ \A l \in 1..file.count : \A s \in Slots : Rest(l, s) =>
              /\ file.loads[l].dev[s].addr \in DOMAIN Exchanged(addrs, a)
              /\ file.loads[l].dev[s].addr # a
         /\ \A l \in 1..file.count \ {pos.load} : \A s \in Full(file.loads[l]) :
              file.loads[l].dev[s].addr \notin DOMAIN Exchanged(load_addrs, a)
<1>1. Listed
  BY DEF Dialog
<1>2. /\ IsBag(addrs) /\ IsBag(load_addrs)
      /\ \A l \in 1..file.count : \A s \in Slots : Rest(l, s) =>
           /\ file.loads[l].dev[s].addr \in DOMAIN addrs
           /\ file.loads[l].dev[s].addr # nb.old
      /\ \A l \in 1..file.count \ {pos.load} : \A s \in Full(file.loads[l]) :
           file.loads[l].dev[s].addr \notin DOMAIN load_addrs
  BY <1>1 DEF Listed
<1>3. a \in Addrs /\ a # 0 /\ (a = nb.old \/ a \notin DOMAIN addrs)
  BY DriverIniAssumption DEF Accepted
<1>4. /\ IsBag(Exchanged(addrs, a)) /\ DOMAIN addrs \ {nb.old} \subseteq DOMAIN Exchanged(addrs, a)
      /\ a # nb.old => a \in DOMAIN Exchanged(addrs, a)
  BY <1>2, AddressExchanged
<1>5. /\ IsBag(Exchanged(load_addrs, a))
      /\ DOMAIN Exchanged(load_addrs, a) \subseteq DOMAIN load_addrs \union {a}
  BY <1>2, AddressExchanged
<1>7. ASSUME NEW l \in 1..file.count, NEW s \in Slots, Rest(l, s)
      PROVE  /\ file.loads[l].dev[s].addr \in DOMAIN Exchanged(addrs, a)
             /\ file.loads[l].dev[s].addr # a
  <2>1. /\ file.loads[l].dev[s].addr \in DOMAIN addrs
        /\ file.loads[l].dev[s].addr # nb.old
    BY <1>2, <1>7
  <2> QED
    BY <1>3, <1>4, <2>1
<1>8. ASSUME NEW l \in 1..file.count \ {pos.load}, NEW s \in Full(file.loads[l])
      PROVE  file.loads[l].dev[s].addr \notin DOMAIN Exchanged(load_addrs, a)
  <2>1. Rest(l, s) /\ s \in Slots
    BY DEF Rest, Full
  <2>2. file.loads[l].dev[s].addr # a
    BY <1>7, <2>1
  <2> QED
    BY <1>2, <1>5, <2>2
<1> QED
  BY <1>3, <1>4, <1>5, <1>7, <1>8

LEMMA NameTaken ==
  ASSUME Dialog, nb.open, NEW n \in Offered, TakeName(n)
  PROVE  /\ n \in Names /\ n # 0 /\ cur' = n /\ avail' \subseteq Names /\ n \notin avail'
         /\ \A l \in 1..file.count : \A s \in Slots : Rest(l, s) =>
              file.loads[l].dev[s].name \notin avail' /\ file.loads[l].dev[s].name # n
<1>1. Listed
  BY DEF Dialog
<1>2. /\ avail \subseteq Names /\ cur \in Names \union {0} /\ cur \notin avail
      /\ \A l \in 1..file.count : \A s \in Slots : Rest(l, s) =>
           file.loads[l].dev[s].name \notin avail /\ file.loads[l].dev[s].name # cur
  BY <1>1 DEF Listed
<1>3. n \in Names /\ n # 0 /\ n \in avail \union {cur}
  BY <1>2 DEF Offered
<1>4. cur' = n /\ avail' = IF n = cur THEN avail ELSE (avail \ {n}) \union ({cur} \ {0})
  BY DEF TakeName
<1>5. avail' \subseteq Names /\ n \notin avail' /\ avail' \subseteq avail \union {cur}
  BY <1>2, <1>3, <1>4
<1>6. ASSUME NEW l \in 1..file.count, NEW s \in Slots, Rest(l, s)
      PROVE  file.loads[l].dev[s].name \notin avail' /\ file.loads[l].dev[s].name # n
  BY <1>2, <1>3, <1>5, <1>6
<1> QED
  BY <1>3, <1>4, <1>5, <1>6

LEMMA TurnPageStep ==
  ASSUME Base, Base', intact => Sound, intact', TurnPage
  PROVE  Sound'
<1>1. PICK a \in Accepted \ {nb.old} : nb' = [nb EXCEPT !.old = a]
  BY DEF TurnPage
<1>2. /\ nb.open /\ edits' = edits /\ intact
      /\ UNCHANGED <<file, saved, dlg, nested, pos, gcfg, gdev, cur, shown, sel, mark, nload, can,
                     avail, addrs, load_addrs, boot, intact>>
  BY DEF TurnPage, fileVars, editVars, bootVars
<1>3. nb'.open = nb.open /\ nb'.insert = nb.insert /\ nb'.old = a
  BY <1>1 DEF Base
<1>4. Dialog /\ boot.done = FALSE /\ Most \in Nat /\ Most' = Most
  <2>1. Dialog /\ boot.done = FALSE /\ Most \in Nat
    BY <1>2, InDialogue, MostSteps DEF Base
  <2>2. Most' = Most
    BY <1>2, <1>3 DEF Most
  <2> QED
    BY <2>1, <2>2
<1>5. /\ Good(file, Most) /\ Placed /\ Listed /\ Linked
      /\ (~nested => Good(saved, Most) /\ saved.count > 0)
  BY <1>4 DEF Dialog
<1>6. Placed'
  BY <1>2, <1>4, <1>5 DEF Placed
<1>7. /\ a # 0
      /\ \A l \in 1..file.count : \A s \in Slots : Rest(l, s) =>
           file.loads[l].dev[s].addr # a
  BY <1>1, <1>2, <1>4, AddressTaken
<1>8. \A l, s : Rest(l, s)' => Rest(l, s)
  BY <1>2, <1>3 DEF Rest
<1>9. Listed'
  BY <1>2, <1>3, <1>5, <1>7, <1>8 DEF Listed
<1>10. Linked'
  BY <1>2, <1>3, <1>5, <1>7 DEF Linked, AtPos
<1> QED
  BY <1>2, <1>4, <1>5, <1>6, <1>9, <1>10, DialogSound DEF Dialog

LEMMA SaveRefusedStep ==
  ASSUME Base, Base', intact => Sound, intact', SaveRefused
  PROVE  Sound'
<1>1. PICK a \in Accepted : TakeAddress(a)
  BY DEF SaveRefused
<1>2. /\ nb.open /\ edits' = edits + 1 /\ intact
      /\ UNCHANGED <<file, saved, dlg, nested, pos, gcfg, gdev, cur, shown, sel, mark, nload, can,
                     avail, boot, intact>>
  BY DEF SaveRefused, Edit, fileVars, bootVars
<1>3. /\ nb'.open = nb.open /\ nb'.insert = nb.insert /\ nb'.old = a
      /\ addrs' = Exchanged(addrs, a) /\ load_addrs' = Exchanged(load_addrs, a)
  BY <1>1 DEF TakeAddress, Base
<1>4. Dialog /\ boot.done = FALSE /\ Most \in Nat /\ Most' \in Nat /\ Most' = Most + 1
  BY <1>2, <1>3, InDialogue, MostSteps DEF Base
<1>5. /\ Good(file, Most') /\ Placed /\ Listed /\ Linked
      /\ (~nested => Good(saved, Most') /\ saved.count > 0)
      /\ Header(Most) \subseteq Header(Most')
  BY <1>4, GoodGrows DEF Dialog
<1>6. Placed'
  BY <1>2, <1>5 DEF Placed
<1>7. /\ IsBag(addrs') /\ IsBag(load_addrs') /\ a # 0
      /\ \A l \in 1..file.count : \A s \in Slots : Rest(l, s) =>
           file.loads[l].dev[s].addr \in DOMAIN addrs' /\ file.loads[l].dev[s].addr # a
      /\ \A l \in 1..file.count \ {pos.load} : \A s \in Full(file.loads[l]) :
           file.loads[l].dev[s].addr \notin DOMAIN load_addrs'
  BY <1>2, <1>3, <1>4, AddressTaken
<1>8. \A l, s : Rest(l, s)' => Rest(l, s)
  BY <1>2, <1>3 DEF Rest
<1>9. Listed'
  BY <1>2, <1>3, <1>5, <1>7, <1>8 DEF Listed
<1>10. Linked'
  BY <1>2, <1>3, <1>5, <1>7 DEF Linked, AtPos
<1> QED
  BY <1>2, <1>4, <1>5, <1>6, <1>9, <1>10, DialogSound DEF Dialog

LEMMA PageRefusedStep ==
  ASSUME Base, Base', intact => Sound, intact', PageRefused
  PROVE  Sound'
<1>1. PICK a \in Accepted, n \in Offered : TakeAddress(a) /\ TakeName(n)
  BY DEF PageRefused
<1>2. /\ nb.open /\ edits' = edits + 1 /\ intact
      /\ UNCHANGED <<file, saved, dlg, nested, pos, gcfg, gdev, shown, sel, mark, nload, can,
                     boot, intact>>
  BY DEF PageRefused, Edit, fileVars, bootVars
<1>3. /\ nb'.open = nb.open /\ nb'.insert = nb.insert /\ nb'.old = a
      /\ addrs' = Exchanged(addrs, a) /\ load_addrs' = Exchanged(load_addrs, a)
  BY <1>1 DEF TakeAddress, Base
<1>4. Dialog /\ boot.done = FALSE /\ Most \in Nat /\ Most' \in Nat /\ Most' = Most + 1
  BY <1>2, <1>3, InDialogue, MostSteps DEF Base
<1>5. /\ Good(file, Most') /\ Placed /\ Listed /\ Linked
      /\ (~nested => Good(saved, Most') /\ saved.count > 0)
      /\ Header(Most) \subseteq Header(Most')
  BY <1>4, GoodGrows DEF Dialog
<1>6. Placed'
  BY <1>2, <1>5 DEF Placed
<1>7. /\ IsBag(addrs') /\ IsBag(load_addrs') /\ a # 0
      /\ \A l \in 1..file.count : \A s \in Slots : Rest(l, s) =>
           file.loads[l].dev[s].addr \in DOMAIN addrs' /\ file.loads[l].dev[s].addr # a
      /\ \A l \in 1..file.count \ {pos.load} : \A s \in Full(file.loads[l]) :
           file.loads[l].dev[s].addr \notin DOMAIN load_addrs'
  BY <1>2, <1>3, <1>4, AddressTaken
<1>8. \A l, s : Rest(l, s)' => Rest(l, s)
  BY <1>2, <1>3 DEF Rest
<1>9. /\ n \in Names /\ cur' = n /\ avail' \subseteq Names /\ n \notin avail'
      /\ \A l \in 1..file.count : \A s \in Slots : Rest(l, s) =>
           file.loads[l].dev[s].name \notin avail' /\ file.loads[l].dev[s].name # n
  BY <1>1, <1>2, <1>4, NameTaken
<1>10. Listed'
  BY <1>2, <1>3, <1>7, <1>8, <1>9 DEF Listed
<1>11. Linked'
  BY <1>2, <1>3, <1>5, <1>7 DEF Linked, AtPos
<1> QED
  BY <1>2, <1>4, <1>5, <1>6, <1>10, <1>11, DialogSound DEF Dialog

(* A name of the list box is changed with its device.                       *)
LEMMA Relisted ==
  ASSUME NEW q, NEW b, NEW c, NEW i \in DOMAIN q, NEW s \in Full(b), NEW d, d # NoDev,
         Shows(q, b), DOMAIN b.dev = Slots, c.dev = [b.dev EXCEPT ![s] = d], b.dev[s].name = q[i],
         d.name \in Names, \A t \in Full(b) \ {s} : b.dev[t].name # d.name,
         \A t, u \in Full(b) : b.dev[t].name = b.dev[u].name => t = u
  PROVE  Shows([q EXCEPT ![i] = d.name], c) /\ DOMAIN [q EXCEPT ![i] = d.name] = DOMAIN q
<1> DEFINE r == [q EXCEPT ![i] = d.name]
<1>1. s \in Slots
  BY DEF Full
<1>2. Full(c) = Full(b) /\ Cardinality(Full(c)) = Cardinality(Full(b))
  <2>1. Full(c) = Full(b) \union {s}
    BY <1>1, DevWritten
  <2> QED
    BY <2>1
<1>3. /\ q \in Seq(Names) /\ Len(q) = Cardinality(Full(b))
      /\ \A j, k \in DOMAIN q : q[j] = q[k] => j = k
      /\ \A j \in DOMAIN q : \E t \in Full(b) : b.dev[t].name = q[j]
      /\ \A t \in Full(b) : \E j \in DOMAIN q : b.dev[t].name = q[j]
  BY DEF Shows
<1>4. /\ r \in Seq(Names) /\ Len(r) = Cardinality(Full(c)) /\ DOMAIN r = DOMAIN q
      /\ r[i] = d.name /\ \A j \in DOMAIN q \ {i} : r[j] = q[j]
  BY <1>2, <1>3
<1>5. c.dev[s] = d /\ \A t \in Full(b) \ {s} : c.dev[t] = b.dev[t]
  BY <1>1 DEF Full
<1>6. \A j \in DOMAIN q \ {i} : \E t \in Full(b) \ {s} : b.dev[t].name = q[j]
  BY <1>3
<1> HIDE DEF r
<1>a. \A j \in DOMAIN q \ {i} : r[j] # d.name
  <2> TAKE j \in DOMAIN q \ {i}
  <2>1. PICK t \in Full(b) \ {s} : b.dev[t].name = q[j]
    BY <1>6
  <2>2. b.dev[t].name # d.name
    BY <2>1
  <2> QED
    BY <1>4, <2>1, <2>2
<1>7. ASSUME NEW j \in DOMAIN r, NEW k \in DOMAIN r, r[j] = r[k], j # k
      PROVE  FALSE
  <2>1. CASE j = i
    BY <1>4, <1>7, <1>a, <2>1
  <2>2. CASE k = i
    BY <1>4, <1>7, <1>a, <2>2
  <2>3. CASE j # i /\ k # i
    <3>1. q[j] = q[k]
      BY <1>4, <1>7, <2>3
    <3> QED
      BY <1>3, <1>4, <1>7, <3>1
  <2> QED
    BY <2>1, <2>2, <2>3
<1>8. ASSUME NEW j \in DOMAIN r
      PROVE  \E t \in Full(c) : c.dev[t].name = r[j]
  <2>1. CASE j = i
    BY <1>2, <1>4, <1>5, <2>1
  <2>2. CASE j # i
    BY <1>2, <1>4, <1>5, <1>6, <2>2
  <2> QED
    BY <2>1, <2>2
<1>9. ASSUME NEW t \in Full(c)
      PROVE  \E j \in DOMAIN r : c.dev[t].name = r[j]
  <2>1. CASE t = s
    BY <1>4, <1>5, <2>1
  <2>2. CASE t # s
    <3>1. t \in Full(b) /\ c.dev[t] = b.dev[t]
      BY <1>2, <1>5, <2>2
    <3>2. PICK j \in DOMAIN q : b.dev[t].name = q[j]
      BY <1>3, <3>1
    <3>3. j # i
      BY <2>2, <3>1, <3>2
    <3> QED
      BY <1>4, <3>1, <3>2, <3>3
  <2> QED
    BY <2>1, <2>2
<1> QED
  BY <1>4, <1>7, <1>8, <1>9 DEF Shows, r

(* What Ok of the notebook does once the device is in the file.             *)
Stored(r, a, n) ==
  /\ file' = r.file /\ pos' = r.pos /\ gcfg' = r.hdr /\ dlg' = dlg
  /\ IF nb.insert
     THEN FillDeviceCfgListBox(r.file, r.pos.load) /\ can' = [can EXCEPT !.add = TRUE]
     ELSE /\ mark' = mark /\ shown' = [shown EXCEPT ![sel] = n]
          /\ load_addrs' = Exchanged(load_addrs, a) /\ can' = can

LEMMA NotebookOkActs ==
  ASSUME NotebookOk
  PROVE  /\ nb.open /\ nb' = Closed /\ intact' = (intact /\ gdev'.addr \in DOMAIN addrs')
         /\ UNCHANGED <<saved, nested, sel, nload, bootVars, edits>>
         /\ \E a \in Accepted, n \in Offered : \E d, r :
              /\ d = [name |-> n, addr |-> a] /\ r = PlaceIniDCBheader(file, gcfg, d, pos)
              /\ TakeName(n) /\ addrs' = Exchanged(addrs, a) /\ gdev' = d
              /\ r.ok => Stored(r, a, n)
<1>1. /\ nb.open /\ nb' = Closed /\ intact' = (intact /\ gdev'.addr \in DOMAIN addrs')
      /\ UNCHANGED <<saved, nested, sel, nload, bootVars, edits>>
  BY Zenon DEF NotebookOk
<1>2. PICK a \in Accepted, n \in Offered :
       LET d == [name |-> n, addr |-> a]
           r1 == PlaceIniDCBheader(file, gcfg, d, pos)
           again == nb.insert /\ ~r1.ok
           none == \A l \in DOMAIN file.loads : file.loads[l].init
           r2 == PlaceIniDCBheader(file, gcfg, d, [pos EXCEPT !.load = 0])
           r == IF again THEN r2 ELSE r1
       IN /\ TakeName(n) /\ addrs' = Exchanged(addrs, a) /\ gdev' = d
          /\ IF again /\ none
             THEN dlg' = "undefined"
                  /\ UNCHANGED <<file, pos, gcfg, shown, mark, load_addrs, can>>
             ELSE /\ file' = r.file /\ pos' = r.pos /\ gcfg' = r.hdr
                  /\ dlg' = dlg
                  /\ IF nb.insert /\ r.ok
                     THEN /\ FillDeviceCfgListBox(r.file, r.pos.load)
                          /\ can' = [can EXCEPT !.add = TRUE]
                     ELSE /\ mark' = mark
                          /\ shown' = IF nb.insert THEN shown ELSE [shown EXCEPT ![sel] = n]
                          /\ load_addrs' = Exchanged(load_addrs, a)
                          /\ can' = can
  BY Zenon DEF NotebookOk
<1> DEFINE d == [name |-> n, addr |-> a]
           r == PlaceIniDCBheader(file, gcfg, d, pos)
<1>3. TakeName(n) /\ addrs' = Exchanged(addrs, a) /\ gdev' = d
  BY <1>2, Zenon
<1>4. r.ok => Stored(r, a, n)
  <2>1. SUFFICES ASSUME r.ok
                 PROVE  Stored(r, a, n)
    OBVIOUS
  <2> QED
    BY <1>2, <2>1, Zenon DEF Stored
<1> QED
  BY <1>1, <1>3, <1>4

LEMMA NotebookOkStep ==
  ASSUME Base, Base', intact => Sound, intact', NotebookOk
  PROVE  Sound'
<1>1. /\ nb.open /\ nb' = Closed /\ intact /\ gdev'.addr \in DOMAIN addrs'
      /\ UNCHANGED <<saved, nested, sel, nload, boot, edits>>
  BY NotebookOkActs DEF bootVars
<1>2. PICK a \in Accepted, n \in Offered : \E d, r :
        /\ d = [name |-> n, addr |-> a] /\ r = PlaceIniDCBheader(file, gcfg, d, pos)
        /\ TakeName(n) /\ addrs' = Exchanged(addrs, a) /\ gdev' = d
        /\ r.ok => Stored(r, a, n)
  BY NotebookOkActs
<1>3. PICK d, r :
        /\ d = [name |-> n, addr |-> a] /\ r = PlaceIniDCBheader(file, gcfg, d, pos)
        /\ TakeName(n) /\ addrs' = Exchanged(addrs, a) /\ gdev' = d
        /\ r.ok => Stored(r, a, n)
  BY <1>2
<1>4. /\ Dialog /\ boot.done = FALSE /\ Most \in Nat /\ Most' \in Nat
      /\ Most' = IF nb.insert THEN Most + 1 ELSE Most
  BY <1>1, InDialogue, MostSteps DEF Base
<1>5. Most <= Most' /\ nb.insert \in BOOLEAN
  BY <1>4 DEF Base
<1>6. /\ Good(file, Most) /\ Good(file, Most') /\ Placed /\ Listed /\ Linked
      /\ (~nested => Good(saved, Most') /\ saved.count > 0)
  BY <1>4, <1>5, GoodGrows DEF Dialog
<1>7. PICK l : l = pos.load
  OBVIOUS
<1>8. /\ pos \in [load : 1..file.count, dev : 0..MaxDcb] /\ gcfg \in Header(Most)
      /\ l \in 1..file.count /\ Shows(shown, file.loads[l]) /\ file.count \in Nat
      /\ nload = file.count
  BY <1>6, <1>7 DEF Placed, Good, Shaped
<1>9. /\ a \in Addrs /\ a # 0 /\ IsBag(addrs')
      /\ IsBag(Exchanged(load_addrs, a))
      /\ \A k \in 1..file.count : \A s \in Slots : Rest(k, s) =>
           file.loads[k].dev[s].addr \in DOMAIN addrs' /\ file.loads[k].dev[s].addr # a
      /\ \A k \in 1..file.count \ {l} : \A s \in Full(file.loads[k]) :
           file.loads[k].dev[s].addr \notin DOMAIN Exchanged(load_addrs, a)
  BY <1>1, <1>3, <1>4, <1>7, AddressTaken
<1>10. /\ n \in Names /\ n # 0 /\ cur' = n /\ avail' \subseteq Names /\ n \notin avail'
       /\ \A k \in 1..file.count : \A s \in Slots : Rest(k, s) =>
            file.loads[k].dev[s].name \notin avail' /\ file.loads[k].dev[s].name # n
  BY <1>1, <1>3, <1>4, NameTaken
<1>11. d \in Devices /\ d.name = n /\ d.addr = a /\ a \in DOMAIN addrs'
  BY <1>1, <1>3, <1>9, <1>10 DEF Devices
<1>12. \A k \in 1..file.count : \A t \in Full(file.loads[k]) :
         k # l \/ t # pos.dev => Rest(k, t) /\ t \in Slots
  BY <1>7 DEF Rest, Full
<1>13. \A k \in 1..file.count : \A t \in Full(file.loads[k]) :
         k # l \/ t # pos.dev => Differ(d, file.loads[k].dev[t])
  BY <1>9, <1>10, <1>11, <1>12 DEF Differ
<1>14. IF nb.insert THEN pos.dev = 0 /\ Full(file.loads[l]) # Slots
       ELSE /\ pos.dev # 0 /\ pos.dev \in Full(file.loads[l]) /\ sel \in DOMAIN shown
            /\ shown[sel] = file.loads[l].dev[pos.dev].name
  <2>1. CASE nb.insert
    <3>1. pos.dev = 0 /\ Len(shown) < MaxDcb /\ Len(shown) = Cardinality(Full(file.loads[l]))
      BY <1>1, <1>6, <1>8, <2>1 DEF Linked, Shows
    <3>2. Cardinality(Full(file.loads[l])) # MaxDcb
      <4>1. Cardinality(Full(file.loads[l])) \in 0..MaxDcb /\ MaxDcb \in Nat
        BY FullFinite, DriverIniAssumption
      <4> QED
        BY <3>1, <4>1
    <3> QED
      BY <2>1, <3>1, <3>2, FullFinite
  <2>2. CASE ~nb.insert
    <3>1. AtPos /\ sel \in DOMAIN shown /\ shown[sel] = gdev.name
      BY <1>1, <1>6, <2>2 DEF Linked
    <3>2. pos.dev # 0 /\ file.loads[l].dev[pos.dev] = gdev /\ gdev # NoDev
      BY <1>7, <3>1 DEF AtPos
    <3>3. pos.dev \in Full(file.loads[l])
      BY <1>8, <3>2, DriverIniAssumption DEF Full, Slots
    <3> QED
      BY <2>2, <3>1, <3>2, <3>3
  <2> QED
    BY <1>5, <2>1, <2>2
<1>15. Put(r, file, pos, d, Most')
  <2>1. Most' = IF pos.dev = 0 THEN Most + 1 ELSE Most
    BY <1>4, <1>14
  <2>2. /\ pos.dev = 0 => Full(file.loads[pos.load]) # Slots
        /\ pos.dev # 0 => pos.dev \in Full(file.loads[pos.load])
        /\ \A k \in 1..file.count : \A t \in Full(file.loads[k]) :
             k # pos.load \/ t # pos.dev => Differ(d, file.loads[k].dev[t])
    BY <1>7, <1>13, <1>14
  <2>3. r = PlaceIniDCBheader(file, gcfg, d, pos)
    BY <1>3
  <2> QED
    BY <1>4, <1>6, <1>8, <1>11, <2>1, <2>2, <2>3, DevicePlaced
<1>16. Stored(r, a, n) /\ gdev' = d /\ pos' = r.pos /\ gcfg' = r.hdr /\ dlg' = dlg /\ file' = r.file
  BY <1>3, <1>15 DEF Put, Stored
<1>17. PICK s : s = pos'.dev
  OBVIOUS
<1>18. /\ Good(file', Most') /\ file'.count = file.count /\ gcfg' \in Header(Most')
       /\ pos' \in [load : {l}, dev : Slots] /\ pos'.load = l /\ s \in Slots
       /\ (IF nb.insert THEN s \notin Full(file.loads[l]) ELSE s = pos.dev)
       /\ file'.loads[l].dev = [file.loads[l].dev EXCEPT ![s] = d] /\ d # NoDev
       /\ Full(file'.loads[l]) = Full(file.loads[l]) \union {s}
       /\ Cardinality(Full(file'.loads[l])) <= gcfg'.devs
       /\ \A k \in 1..file.count \ {l} : file'.loads[k] = file.loads[k]
  BY <1>7, <1>14, <1>15, <1>16, <1>17 DEF Put
<1>19. DOMAIN file.loads[l].dev = Slots
  BY <1>6, <1>8 DEF Good, Shaped, GoodBlock, Block
<1>20. file'.loads[l].dev[s] = d
  BY <1>18, <1>19
<1>21. ASSUME NEW k \in 1..file.count, NEW u \in Full(file'.loads[k]), k # l \/ u # s
       PROVE  /\ u \in Full(file.loads[k]) /\ file'.loads[k].dev[u] = file.loads[k].dev[u]
              /\ Rest(k, u)
  <2>1. u \in Full(file.loads[k])
    BY <1>18, <1>21
  <2>2. file'.loads[k].dev[u] = file.loads[k].dev[u]
    <3>1. CASE k = l
      BY <1>18, <1>19, <1>21, <2>1, <3>1 DEF Full
    <3>2. CASE k # l
      BY <1>18, <3>2
    <3> QED
      BY <3>1, <3>2
  <2>3. k # l \/ u # pos.dev
    BY <1>14, <1>18, <1>21, <2>1, DriverIniAssumption DEF Full, Slots
  <2> QED
    BY <1>12, <2>1, <2>2, <2>3
<1>22. /\ Shows(shown', file'.loads[l]) /\ mark' \in {0} \union DOMAIN shown' /\ shown' # <<>>
       /\ IsBag(load_addrs')
       /\ \A k \in 1..file.count \ {l} : \A u \in Full(file'.loads[k]) :
            file'.loads[k].dev[u].addr \notin DOMAIN load_addrs'
  <2>1. CASE nb.insert
    <3>1. FillDeviceCfgListBox(file', l)
      BY <1>16, <1>18, <2>1 DEF Stored
    <3>2. l \in 1..file'.count /\ Full(file'.loads[l]) # {}
      BY <1>8, <1>18
    <3>3. /\ Shows(shown', file'.loads[l]) /\ mark' = 0 /\ IsBag(load_addrs')
          /\ 0 \notin DOMAIN shown' /\ (shown' = <<>> <=> Full(file'.loads[l]) = {})
          /\ \A k \in 1..file'.count \ {l} : \A u \in Full(file'.loads[k]) :
               file'.loads[k].dev[u].addr \notin DOMAIN load_addrs'
      BY <1>4, <1>18, <3>1, <3>2, Filled
    <3> QED
      BY <1>18, <3>2, <3>3
  <2>2. CASE ~nb.insert
    <3>1. mark' = mark /\ shown' = [shown EXCEPT ![sel] = n] /\ load_addrs' = Exchanged(load_addrs, a)
      BY <1>16, <2>2 DEF Stored
    <3>2. /\ s \in Full(file.loads[l]) /\ sel \in DOMAIN shown
          /\ shown[sel] = file.loads[l].dev[s].name
      BY <1>14, <1>18, <2>2
    <3>3. \A t \in Full(file.loads[l]) \ {s} : file.loads[l].dev[t].name # n
      BY <1>8, <1>11, <1>13, <1>18, <2>2 DEF Differ
    <3>4. \A t, u \in Full(file.loads[l]) :
            file.loads[l].dev[t].name = file.loads[l].dev[u].name => t = u
      BY <1>4, <1>6, <1>8, Together DEF Differ
    <3>5. Shows(shown', file'.loads[l]) /\ DOMAIN shown' = DOMAIN shown
      <4>1. PICK b : b = file.loads[l]
        OBVIOUS
      <4>2. PICK c : c = file'.loads[l]
        OBVIOUS
      <4>3. /\ c.dev = [b.dev EXCEPT ![s] = d] /\ DOMAIN b.dev = Slots /\ Shows(shown, b)
            /\ s \in Full(b) /\ b.dev[s].name = shown[sel]
            /\ \A t \in Full(b) \ {s} : b.dev[t].name # d.name
            /\ \A t, u \in Full(b) : b.dev[t].name = b.dev[u].name => t = u
            /\ d # NoDev /\ d.name \in Names /\ shown' = [shown EXCEPT ![sel] = d.name]
        BY <1>8, <1>10, <1>11, <1>18, <1>19, <3>1, <3>2, <3>3, <3>4, <4>1, <4>2
      <4> QED
        BY <3>2, <4>2, <4>3, Relisted
    <3>6. mark \in {0} \union DOMAIN shown
      BY <1>6 DEF Placed
    <3> QED
      BY <1>9, <1>18, <3>1, <3>2, <3>5, <3>6
  <2> QED
    BY <1>5, <2>1, <2>2
<1>23. Placed'
  <2>1. pos' \in [load : 1..file'.count, dev : 0..MaxDcb] /\ nload' = file'.count
    BY <1>1, <1>8, <1>18, DriverIniAssumption DEF Slots
  <2>2. can \in [add : BOOLEAN, drop : BOOLEAN] /\ (can.drop => file.count > 1)
        /\ (can.add => Full(file.loads[1]) # {})
    BY <1>6 DEF Placed
  <2>3. can' = [can EXCEPT !.add = TRUE] \/ (can' = can /\ ~nb.insert)
    BY <1>16 DEF Stored
  <2>4. can' \in [add : BOOLEAN, drop : BOOLEAN] /\ (can'.drop => file'.count > 1)
    BY <1>18, <2>2, <2>3
  <2>5. Full(file'.loads[1]) # {}
    <3>1. CASE l = 1
      BY <1>18, <3>1
    <3>2. CASE l # 1
      <4>1. 1 \in 1..file.count \ {l} /\ file.count > 1
        BY <1>8, <3>2
      <4>2. Full(file.loads[1]) # {}
        BY <1>6, <4>1 DEF Good, Shaped
      <4> QED
        BY <1>18, <4>1, <4>2
    <3> QED
      BY <3>1, <3>2
  <2> QED
    BY <1>18, <1>22, <2>1, <2>4, <2>5 DEF Placed
<1>24. ~nb'.open
  BY <1>1 DEF Closed
<1>25. Listed'
  <2>1. ASSUME NEW k \in 1..file'.count, NEW u \in Slots, Rest(k, u)'
        PROVE  /\ file'.loads[k].dev[u].name \notin avail'
               /\ file'.loads[k].dev[u].addr \in DOMAIN addrs'
    <3>1. k \in 1..file.count /\ u \in Full(file'.loads[k])
      BY <1>18, <2>1 DEF Rest
    <3>2. CASE k = l /\ u = s
      BY <1>9, <1>10, <1>11, <1>20, <3>2
    <3>3. CASE k # l \/ u # s
      <4>1. Rest(k, u) /\ file'.loads[k].dev[u] = file.loads[k].dev[u]
        BY <1>21, <3>1, <3>3
      <4> QED
        BY <1>9, <1>10, <3>1, <4>1
    <3> QED
      BY <3>2, <3>3
  <2> QED
    BY <1>9, <1>10, <1>18, <1>22, <1>24, <2>1 DEF Listed
<1>26. Linked'
  <2>1. AtPos'
    <3>1. pos'.dev # 0 /\ file'.loads[pos'.load].dev[pos'.dev] = gdev' /\ gdev' # NoDev
      BY <1>16, <1>17, <1>18, <1>20, DriverIniAssumption DEF Slots
    <3> QED
      BY <3>1 DEF AtPos
  <2>2. gdev'.name = cur'
    BY <1>10, <1>11, <1>16
  <2> QED
    BY <1>24, <2>1, <2>2 DEF Linked
<1> QED
  BY <1>1, <1>4, <1>6, <1>16, <1>18, <1>23, <1>25, <1>26, DialogSound DEF Dialog

LEMMA NotebookCancelStep ==
  ASSUME Base, Base', intact => Sound, intact', NotebookCancel
  PROVE  Sound'
<1>1. /\ nb.open /\ nb' = Closed /\ intact /\ (nb.insert \/ (cur = gdev.name /\ gdev.addr \in DOMAIN addrs))
      /\ UNCHANGED <<file, saved, dlg, nested, pos, gcfg, gdev, cur, shown, sel, mark, nload, can,
                     avail, addrs, load_addrs, boot, edits>>
  BY DEF NotebookCancel, fileVars, editVars, bootVars
<1>2. /\ Dialog /\ boot.done = FALSE /\ Most \in Nat /\ Most' \in Nat /\ ~nb'.open
      /\ Most' = IF nb.insert THEN Most + 1 ELSE Most
  BY <1>1, InDialogue, MostSteps DEF Base, Closed
<1>3. Most <= Most' /\ nb.insert \in BOOLEAN
  BY <1>2 DEF Base
<1>4. /\ Good(file, Most') /\ Placed /\ Listed /\ Linked
      /\ (~nested => Good(saved, Most') /\ saved.count > 0)
      /\ Header(Most) \subseteq Header(Most')
  BY <1>2, <1>3, GoodGrows DEF Dialog
<1>5. Placed'
  BY <1>1, <1>4 DEF Placed
<1>6. ~nb.insert => /\ AtPos /\ sel \in DOMAIN shown /\ shown[sel] = gdev.name /\ nb.old # 0
                    /\ pos.dev # 0 /\ file.loads[pos.load].dev[pos.dev] = gdev
  BY <1>1, <1>4 DEF Linked, AtPos
<1>7. Listed'
  <2>1. ASSUME NEW k \in 1..file.count, NEW u \in Slots, u \in Full(file.loads[k])
        PROVE  /\ file.loads[k].dev[u].name \notin avail
               /\ file.loads[k].dev[u].addr \in DOMAIN addrs
    <3>1. CASE k # pos.load \/ u # pos.dev
      BY <1>1, <1>4, <2>1, <3>1 DEF Listed, Rest
    <3>2. CASE k = pos.load /\ u = pos.dev
      <4>1. ~nb.insert
        BY <1>1, <1>4, <2>1, <3>2, DriverIniAssumption DEF Linked, Slots
      <4>2. file.loads[k].dev[u].name = cur /\ file.loads[k].dev[u].addr \in DOMAIN addrs
        BY <1>1, <1>6, <3>2, <4>1
      <4> QED
        BY <1>1, <1>4, <4>2 DEF Listed
    <3> QED
      BY <3>1, <3>2
  <2>2. \A k, u : Rest(k, u)' => u \in Full(file.loads[k])
    BY <1>1 DEF Rest
  <2> QED
    BY <1>1, <1>2, <1>4, <2>1, <2>2 DEF Listed
<1>8. Linked'
  <2>1. ASSUME sel \in DOMAIN shown, cur = shown[sel]
        PROVE  AtPos /\ gdev.name = cur
    <3>1. CASE nb.insert
      <4>1. PICK t \in Full(file.loads[pos.load]) : file.loads[pos.load].dev[t].name = shown[sel]
        BY <1>4, <2>1 DEF Placed, Shows
      <4>2. pos.dev = 0 /\ pos.load \in 1..file.count /\ t \in Slots /\ t # 0
        BY <1>1, <1>4, <3>1, DriverIniAssumption DEF Linked, Placed, Full, Slots
      <4>3. file.loads[pos.load].dev[t].name # cur
        BY <1>1, <1>4, <4>2 DEF Listed, Rest
      <4> QED
        BY <2>1, <4>1, <4>3
    <3>2. CASE ~nb.insert
      BY <1>6, <1>1, <3>2
    <3> QED
      BY <1>3, <3>1, <3>2
  <2> QED
    BY <1>1, <1>2, <2>1 DEF Linked, AtPos
<1> QED
  BY <1>1, <1>2, <1>4, <1>5, <1>7, <1>8, DialogSound DEF Dialog

LEMMA BootStep ==
  ASSUME Base, Base', intact => Sound, intact', Boot
  PROVE  Sound'
<1>1. /\ dlg = "closed" /\ lines > 0 /\ edits' = edits + 1
      /\ boot' = [left |-> lines, taken |-> {}, resident |-> FALSE, done |-> TRUE] /\ served' = {}
      /\ UNCHANGED <<file, saved, dlg, nested, gcfg, lines, nb, intact>>
  BY DEF Boot, Edit, fileVars, editVars
<1>2. intact /\ ~nb.open /\ lines \in Int
  BY <1>1 DEF Base
<1>3. Most \in Nat /\ Most' \in Nat /\ Most <= Most'
  BY <1>1, <1>2, MostSteps
<1>4. /\ Good(file, Most') /\ Header(Most) \subseteq Header(Most')
      /\ (file.count > 0 /\ ~file.loads[1].init => gcfg \in Header(Most))
  BY <1>1, <1>2, <1>3, GoodGrows DEF Sound
<1>5. Progress'
  <2>1. lines' - boot'.left = 0 /\ boot'.left <= lines' /\ lines' > 0
    BY <1>1, <1>2
  <2>2. ~boot'.resident /\ served' = {}
    BY <1>1
  <2> QED
    BY <2>1, <2>2 DEF Progress
<1> QED
  BY <1>1, <1>4, <1>5 DEF Sound

LEMMA OneMore ==
  ASSUME NEW f, NEW S, NEW c, NEW A, A = UNION {DevicesOf(f, l) : l \in S \union {c}},
         NEW B, B = UNION {DevicesOf(f, l) : l \in S}
  PROVE  A = B \union DevicesOf(f, c)
<1>1. \A d : d \in A <=> \E l \in S \union {c} : d \in DevicesOf(f, l)
  OBVIOUS
<1>2. \A d : d \in B <=> \E l \in S : d \in DevicesOf(f, l)
  OBVIOUS
<1>3. \A d : d \in A <=> d \in B \/ d \in DevicesOf(f, c)
  BY <1>1, <1>2
<1> QED
  BY <1>3

(* One driver more has read the file.                                       *)
LEMMA GetIniInfoActs ==
  ASSUME GetIniInfo
  PROVE  /\ boot.left > 0 /\ UNCHANGED <<fileVars, editVars, lines, dlg, nested, nb, intact, edits>>
         /\ \E taken, free : \E mine :
              /\ taken = IF boot.resident THEN boot.taken ELSE {}
              /\ free = Available(taken) /\ mine = Min(free)
              /\ boot' = IF free = {} THEN [boot EXCEPT !.left = @ - 1, !.taken = taken]
                         ELSE [boot EXCEPT !.left = @ - 1, !.taken = taken \union {mine},
                                           !.resident = @ \/ DevicesOf(file, mine) # {}]
              /\ served' = IF free = {} THEN served ELSE served \union DevicesOf(file, mine)
BY Zenon DEF GetIniInfo, LoadDriver

LEMMA GetIniInfoStep ==
  ASSUME Base, Base', intact => Sound, intact', GetIniInfo
  PROVE  Sound'
<1>1. boot.left > 0 /\ UNCHANGED <<file, saved, lines, dlg, nested, gcfg, nb, intact, edits>>
  BY GetIniInfoActs DEF fileVars, editVars
<1>2. PICK taken, free : \E mine :
        /\ taken = IF boot.resident THEN boot.taken ELSE {}
        /\ free = Available(taken) /\ mine = Min(free)
        /\ boot' = IF free = {} THEN [boot EXCEPT !.left = @ - 1, !.taken = taken]
                   ELSE [boot EXCEPT !.left = @ - 1, !.taken = taken \union {mine},
                                     !.resident = @ \/ DevicesOf(file, mine) # {}]
        /\ served' = IF free = {} THEN served ELSE served \union DevicesOf(file, mine)
  BY GetIniInfoActs
<1>3. PICK mine :
        /\ taken = IF boot.resident THEN boot.taken ELSE {}
        /\ free = Available(taken) /\ mine = Min(free)
        /\ boot' = IF free = {} THEN [boot EXCEPT !.left = @ - 1, !.taken = taken]
                   ELSE [boot EXCEPT !.left = @ - 1, !.taken = taken \union {mine},
                                     !.resident = @ \/ DevicesOf(file, mine) # {}]
        /\ served' = IF free = {} THEN served ELSE served \union DevicesOf(file, mine)
  BY <1>2
<1>4. /\ DOMAIN boot = {"left", "taken", "resident", "done"} /\ boot.left \in Nat
      /\ boot.resident \in BOOLEAN /\ boot.done /\ dlg = "closed" /\ lines \in Int
  BY <1>1 DEF Base
<1>5. intact /\ Most' = Most /\ Most \in Nat
  BY <1>1, MostSteps
<1>6. /\ Good(file, Most) /\ Progress
      /\ (file.count > 0 /\ ~file.loads[1].init => gcfg \in Header(Most))
  BY <1>4, <1>5 DEF Sound
<1>7. file.count \in Nat /\ \A l \in 1..file.count : file.loads[l].hdr.dcbs = MaxDcb
  BY <1>6 DEF Good, Shaped, GoodBlock, Block, Header
<1>8. free = 1..file.count \ taken
  BY <1>3, <1>7, DriverIniAssumption DEF Available
<1>9. /\ boot'.left = boot.left - 1
      /\ boot'.taken = IF free = {} THEN taken ELSE taken \union {mine}
      /\ boot'.resident <=> (boot.resident \/ (free # {} /\ DevicesOf(file, mine) # {}))
  <2>1. CASE free = {}
    BY <1>3, <1>4, <2>1
  <2>2. CASE free # {}
    <3> DEFINE b == boot.resident \/ DevicesOf(file, mine) # {}
    <3>1. boot' = [boot EXCEPT !.left = @ - 1, !.taken = taken \union {mine}, !.resident = b]
      BY <1>3, <2>2, Zenon
    <3>2. boot'.resident = b
      <4> HIDE DEF b
      <4> QED
        BY <1>4, <3>1
    <3>3. boot'.left = boot.left - 1 /\ boot'.taken = taken \union {mine}
      <4> HIDE DEF b
      <4> QED
        BY <1>4, <3>1
    <3> QED
      BY <2>2, <3>2, <3>3
  <2> QED
    BY <2>1, <2>2
<1>10. PICK n : n = lines - boot.left
  OBVIOUS
<1>11. /\ n \in Int /\ lines' - boot'.left = n + 1 /\ boot'.left <= lines' /\ lines' > 0
       /\ 0 <= n
  BY <1>1, <1>4, <1>6, <1>9, <1>10 DEF Progress
<1>12. served' = IF free = {} THEN served ELSE served \union DevicesOf(file, mine)
  BY <1>3
<1>13. Progress'
  <2>1. CASE boot.resident
    <3>1. PICK k \in 1..file.count : /\ boot.taken = 1..k /\ (k = file.count \/ k >= n)
                                     /\ served = UNION {DevicesOf(file, l) : l \in 1..k}
      BY <1>6, <1>10, <2>1 DEF Progress
    <3>2. taken = 1..k
      BY <1>3, <2>1, <3>1
    <3>3. CASE k = file.count
      <4>1. free = {}
        BY <1>8, <3>2, <3>3
      <4>2. boot'.taken = 1..k /\ boot'.resident /\ served' = served /\ k \in 1..file'.count
            /\ k = file'.count
        BY <1>1, <1>9, <1>12, <2>1, <3>2, <3>3, <4>1
      <4>3. served' = UNION {DevicesOf(file', l) : l \in 1..k}
        BY <1>1, <3>1, <4>2
      <4> QED
        BY <1>11, <4>2, <4>3 DEF Progress
    <3>4. CASE k # file.count
      <4>1. k + 1 \in free /\ \A x \in free : x >= k + 1 /\ x \in Nat
        BY <1>7, <1>8, <3>2, <3>4
      <4>2. free \in SUBSET Nat /\ free # {}
        BY <4>1
      <4>3. Min(free) \in free /\ \A y \in free : Min(free) <= y
        BY <4>2, LeastNat
      <4>4. mine = k + 1
        <5>1. mine \in Nat /\ k + 1 <= mine /\ mine <= k + 1
          BY <1>3, <4>1, <4>3
        <5> QED
          BY <5>1
      <4>5. boot'.taken = 1..(k + 1) /\ boot'.resident /\ served' = served \union DevicesOf(file, k + 1)
        <5>1. 1..k \union {k + 1} = 1..(k + 1)
          OBVIOUS
        <5> QED
          BY <1>9, <1>12, <2>1, <3>2, <4>2, <4>4, <5>1
      <4>6. k + 1 \in 1..file'.count /\ k + 1 >= n + 1
        BY <1>1, <1>7, <1>11, <3>1, <3>4
      <4>7. served' = UNION {DevicesOf(file', l) : l \in 1..(k + 1)}
        <5>1. 1..(k + 1) = 1..k \union {k + 1}
          OBVIOUS
        <5>2. PICK B : B = UNION {DevicesOf(file, l) : l \in 1..k}
          OBVIOUS
        <5>3. PICK A : A = UNION {DevicesOf(file, l) : l \in 1..k \union {k + 1}}
          OBVIOUS
        <5>4. A = B \union DevicesOf(file, k + 1)
          BY <5>2, <5>3, OneMore
        <5>5. A = UNION {DevicesOf(file', l) : l \in 1..(k + 1)}
          BY <1>1, <5>1, <5>3
        <5> QED
          BY <3>1, <4>5, <5>2, <5>4, <5>5
      <4> QED
        BY <1>11, <4>5, <4>6, <4>7 DEF Progress
    <3> QED
      BY <3>3, <3>4
  <2>2. CASE ~boot.resident
    <3>1. /\ taken = {} /\ served = {} /\ free = 1..file.count
          /\ (n > 0 /\ file.count > 0 => Full(file.loads[1]) = {})
      BY <1>3, <1>6, <1>8, <1>10, <2>2 DEF Progress
    <3>2. CASE file.count = 0
      <4>1. free = {}
        BY <3>1, <3>2
      <4> QED
        BY <1>1, <1>9, <1>11, <1>12, <2>2, <3>1, <3>2, <4>1 DEF Progress
    <3>3. CASE file.count # 0
      <4>1. free \in SUBSET Nat /\ free # {} /\ 1 \in free /\ \A x \in free : x >= 1
        BY <1>7, <3>1, <3>3
      <4>2. Min(free) \in free /\ \A y \in free : Min(free) <= y
        BY <4>1, LeastNat
      <4>3. mine = 1
        <5>1. mine \in Nat /\ 1 <= mine /\ mine <= 1
          BY <1>3, <4>1, <4>2
        <5> QED
          BY <5>1
      <4>4. /\ boot'.taken = {1} /\ served' = DevicesOf(file, 1)
            /\ boot'.resident <=> DevicesOf(file, 1) # {}
        BY <1>9, <1>12, <2>2, <3>1, <4>1, <4>3
      <4>5. DevicesOf(file, 1) = {} <=> Full(file.loads[1]) = {}
        <5>1. Used(file, 1) = Full(file.loads[1])
          BY <1>5, <1>6, <3>1, <4>1, UsedIsFull
        <5> QED
          BY <5>1 DEF DevicesOf
      <4>6. CASE Full(file.loads[1]) = {}
        BY <1>1, <1>11, <4>4, <4>5, <4>6 DEF Progress
      <4>7. CASE Full(file.loads[1]) # {}
        <5>1. 1 >= n + 1 /\ 1 \in 1..file'.count
          BY <1>1, <1>7, <1>11, <3>1, <3>3, <4>7
        <5>2. boot'.resident /\ boot'.taken = 1..1
          BY <4>4, <4>5, <4>7
        <5>3. served' = UNION {DevicesOf(file', l) : l \in 1..1}
          BY <1>1, <4>4
        <5> QED
          BY <1>11, <5>1, <5>2, <5>3 DEF Progress
      <4> QED
        BY <4>6, <4>7
    <3> QED
      BY <3>2, <3>3
  <2> QED
    BY <1>4, <2>1, <2>2
<1> QED
  BY <1>1, <1>4, <1>5, <1>6, <1>13 DEF Sound

(* The devices of a file.                                                   *)
LEMMA ConfiguredIs ==
  ASSUME NEW f, NEW m \in Nat, Good(f, m)
  PROVE  /\ \A d : d \in Configured(f) <=>
              \E l \in 1..f.count : \E s \in Full(f.loads[l]) : d = f.loads[l].dev[s]
         /\ Configured(f) = UNION {DevicesOf(f, l) : l \in 1..f.count}
         /\ \A l \in 1..f.count : \A d : d \in DevicesOf(f, l) <=>
              \E s \in Full(f.loads[l]) : d = f.loads[l].dev[s]
<1>1. \A l \in 1..f.count : Used(f, l) = Full(f.loads[l]) /\ (Full(f.loads[l]) # {} => f.loads[l].init)
  BY UsedIsFull
<1>2. \A l \in 1..f.count : \A d : d \in DevicesOf(f, l) <=>
        \E s \in Full(f.loads[l]) : d = f.loads[l].dev[s]
  BY <1>1 DEF DevicesOf
<1>3. \A d : d \in Configured(f) <=>
        \E l \in 1..f.count : \E s \in Full(f.loads[l]) : d = f.loads[l].dev[s]
  BY <1>1, <1>2 DEF Configured
<1>4. \A d : d \in UNION {DevicesOf(f, l) : l \in 1..f.count} <=>
        \E l \in 1..f.count : \E s \in Full(f.loads[l]) : d = f.loads[l].dev[s]
  BY <1>2
<1> QED
  BY <1>2, <1>3, <1>4

LEMMA MinusOne ==
  ASSUME NEW f, NEW m \in Nat, Good(f, m), NEW l \in 1..f.count, NEW s \in Full(f.loads[l]),
         NEW g, Minus(g, f, l, s, m)
  PROVE  Configured(f) \ Configured(g) = {f.loads[l].dev[s]}
<1> DEFINE d == f.loads[l].dev[s]
<1>1. /\ Good(g, m) /\ g.count = f.count
      /\ Full(g.loads[l]) = Full(f.loads[l]) \ {s} /\ g.loads[l].dev = [f.loads[l].dev EXCEPT ![s] = NoDev]
      /\ \A k \in 1..f.count \ {l} : g.loads[k] = f.loads[k]
  BY DEF Minus, Taken
<1>2. DOMAIN f.loads[l].dev = Slots
  BY DEF Good, Shaped, GoodBlock, Block
<1>3. \A k \in 1..f.count : \A t \in Full(f.loads[k]) : k # l \/ t # s =>
        t \in Full(g.loads[k]) /\ g.loads[k].dev[t] = f.loads[k].dev[t]
  <2> TAKE k \in 1..f.count
  <2> TAKE t \in Full(f.loads[k])
  <2>1. CASE k = l
    BY <1>1, <1>2, <2>1 DEF Full
  <2>2. CASE k # l
    BY <1>1, <2>2
  <2> QED
    BY <2>1, <2>2
<1>4. \A k \in 1..f.count : \A t \in Full(g.loads[k]) :
        /\ t \in Full(f.loads[k]) /\ (k # l \/ t # s) /\ g.loads[k].dev[t] = f.loads[k].dev[t]
  <2> TAKE k \in 1..f.count
  <2> TAKE t \in Full(g.loads[k])
  <2>1. t \in Full(f.loads[k]) /\ (k # l \/ t # s)
    BY <1>1
  <2> QED
    BY <1>3, <2>1
<1>5. d \in Configured(f)
  BY ConfiguredIs
<1>6. d \notin Configured(g)
  <2>1. ASSUME NEW k \in 1..f.count, NEW t \in Full(g.loads[k]), d = g.loads[k].dev[t]
        PROVE  FALSE
    <3>1. t \in Full(f.loads[k]) /\ (k # l \/ t # s) /\ d = f.loads[k].dev[t]
      BY <1>4, <2>1
    <3>2. Differ(d, f.loads[k].dev[t])
      BY <3>1, Together
    <3> QED
      BY <3>1, <3>2 DEF Differ
  <2> QED
    BY <1>1, <2>1, ConfiguredIs
<1>7. ASSUME NEW e \in Configured(f), e # d
      PROVE  e \in Configured(g)
  <2>1. PICK k \in 1..f.count : \E t \in Full(f.loads[k]) : e = f.loads[k].dev[t]
    BY ConfiguredIs
  <2>2. PICK t \in Full(f.loads[k]) : e = f.loads[k].dev[t]
    BY <2>1
  <2>3. k # l \/ t # s
    BY <1>7, <2>2
  <2>4. t \in Full(g.loads[k]) /\ g.loads[k].dev[t] = e
    BY <1>3, <2>2, <2>3
  <2> QED
    BY <1>1, <2>4, ConfiguredIs
<1> QED
  BY <1>5, <1>6, <1>7

LEMMA DeletesOne ==
  ASSUME Base, Base', intact => Sound, intact', DeleteDevice, Narrow, dlg' = "advanced"
  PROVE  \E d : Configured(file) \ Configured(file') = {d}
<1>1. PICK t : t = Target(mark)
  OBVIOUS
<1>2. /\ InDialog /\ mark # 0 /\ Edit /\ UNCHANGED <<nested, nb, bootVars>>
      /\ IF t.pos.dev = 0 THEN Unread ELSE Removed(t)
  BY <1>1, DeleteDeviceActs
<1>3. Removed(t)
  BY <1>2 DEF Unread
<1>4. /\ file' = RemoveIniDCBheader(file, t.pos) /\ shown' = ListOf(file', t.pos.load) /\ intact
      /\ t.name = shown[mark] /\ ~(shown' = <<>> /\ file.count > 1)
  BY <1>3 DEF Removed, FillDeviceCfgListBox
<1>5. dlg = "advanced" /\ ~nb.open /\ mark # 0
  BY <1>2 DEF InDialog
<1>6. Dialog /\ Most \in Nat /\ Most < WordSize
  BY <1>4, <1>5, InDialogue, MostNat, WordNat, DriverIniAssumption DEF Narrow
<1>7. PICK s \in Slots : Hit(t, s)
  BY <1>1, <1>4, <1>5, <1>6, TargetHit
<1>8. PICK l : l = pos.load
  OBVIOUS
<1>9. /\ s \in Full(file.loads[l]) /\ t.pos = [load |-> l, dev |-> s] /\ t.pos.load = l
      /\ l \in 1..file.count /\ Good(file, Most)
  BY <1>6, <1>7, <1>8 DEF Hit, Dialog, Placed
<1>10. Minus(file', file, l, s, Most)
  BY <1>4, <1>6, <1>9, DeviceRemoved
<1>11. Configured(file) \ Configured(file') = {file.loads[l].dev[s]}
  <2>1. PICK m \in Nat : m = Most
    BY <1>6
  <2>2. Good(file, m) /\ Minus(file', file, l, s, m)
    BY <1>9, <1>10, <2>1
  <2> QED
    BY <1>9, <2>2, MinusOne
<1> QED
  BY <1>11

-----------------------------------------------------------------------------
(* The invariant holds initially and every step keeps it.                   *)

LEMMA InitInv == Init => Inv
<1> SUFFICES ASSUME Init
             PROVE  Inv
  OBVIOUS
<1>1. Base
  BY CountedFiles, DriverIniAssumption DEF Init, Base, Closed
<1>2. Most \in Nat
  BY <1>1, MostNat
<1>3. Good(file, Most) /\ file.count = 0 /\ dlg = "closed" /\ boot.done = FALSE
  BY <1>2, NewFileGood DEF Init
<1> QED
  BY <1>1, <1>3 DEF Inv, Sound

LEMMA SoundStep ==
  ASSUME Inv, [Next]_vars, intact', Narrow
  PROVE  Sound'
<1>1. Base /\ Base' /\ (intact => Sound)
  BY BaseStep DEF Inv
<1>2. CASE UNCHANGED vars
  <2>1. UNCHANGED <<file, saved, dlg, nested, pos, gcfg, gdev, cur, shown, sel, mark, nload, can,
                    avail, addrs, load_addrs, nb, lines, boot, served, intact, edits>>
    BY <1>2 DEF vars, fileVars, editVars, bootVars
  <2>2. Most' = Most /\ (Progress <=> Progress') /\ (Placed <=> Placed') /\ (Linked <=> Linked')
    BY <2>1 DEF Most, Progress, Placed, Linked, AtPos
  <2>3. Listed <=> Listed'
    BY <2>1 DEF Listed, Rest
  <2> QED
    BY <1>1, <2>1, <2>2, <2>3 DEF Sound
<1>3. CASE InstallDevice
  BY <1>1, <1>3, InstallStep
<1>4. CASE SimpleOk
  BY <1>1, <1>4, SimpleOkStep
<1>5. CASE SimpleAdvanced
  BY <1>1, <1>5, SimpleAdvancedStep
<1>6. CASE SimpleCancel
  BY <1>1, <1>6, SimpleCancelStep
<1>7. CASE AdvancedOk
  BY <1>1, <1>7, AdvancedOkStep
<1>8. CASE AdvancedCancel
  BY <1>1, <1>8, AdvancedCancelStep
<1>9. CASE AddLoad
  BY <1>1, <1>9, AddLoadStep
<1>10. CASE DeleteLoad
  BY <1>1, <1>10, DeleteLoadStep
<1>11. CASE SpinLoad
  BY <1>1, <1>11, SpinLoadStep
<1>12. CASE Highlight
  BY <1>1, <1>12, HighlightStep
<1>13. CASE InsertDevice
  BY <1>1, <1>13, InsertStep
<1>14. CASE EditDevice
  BY <1>1, <1>14, EditStep
<1>15. CASE DeleteDevice
  BY <1>1, <1>15, DeleteDeviceStep
<1>16. CASE SaveRefused
  BY <1>1, <1>16, SaveRefusedStep
<1>17. CASE PageRefused
  BY <1>1, <1>17, PageRefusedStep
<1>18. CASE NotebookOk
  BY <1>1, <1>18, NotebookOkStep
<1>19. CASE NotebookCancel
  BY <1>1, <1>19, NotebookCancelStep
<1>20. CASE Boot
  BY <1>1, <1>20, BootStep
<1>21. CASE GetIniInfo
  BY <1>1, <1>21, GetIniInfoStep
<1>22. CASE TurnPage
  BY <1>1, <1>22, TurnPageStep
<1> QED
  BY <1>2, <1>3, <1>4, <1>5, <1>6, <1>7, <1>8, <1>9, <1>10, <1>11, <1>12, <1>13, <1>14, <1>15,
     <1>16, <1>17, <1>18, <1>19, <1>20, <1>21, <1>22 DEF Next

LEMMA InvStep ==
  ASSUME Narrow
  PROVE  Inv /\ [Next]_vars => Inv'
<1> SUFFICES ASSUME Inv, [Next]_vars
             PROVE  Inv'
  OBVIOUS
<1>1. Base'
  BY BaseStep DEF Inv
<1>2. intact' => Sound'
  BY SoundStep
<1> QED
  BY <1>1, <1>2 DEF Inv

(* Every state of a behavior satisfies the invariant: whatever the order in  *)
(* which loads and devices are added, edited and removed.                   *)
THEOREM FileSound ==
  ASSUME Narrow
  PROVE  Spec => []Inv
<1>1. Init => Inv
  BY InitInv
<1>2. Inv /\ [Next]_vars => Inv'
  BY InvStep
<1> QED
  BY <1>1, <1>2, PTL DEF Spec

LEMMA GoodFile ==
  ASSUME Inv, intact
  PROVE  Most \in Nat /\ Good(file, Most) /\ \A l \in 1..file.count : Used(file, l) = Full(file.loads[l])
<1>1. Most \in Nat /\ Good(file, Most)
  BY MostNat DEF Inv, Sound
<1> QED
  BY <1>1, UsedIsFull

(* No two devices of the file share a name or an address while the          *)
(* configuration is intact: the lists of free names and addresses the dialog *)
(* keeps are right through any edits, refused and cancelled ones included.   *)
THEOREM NamesCorrect ==
  ASSUME Narrow
  PROVE  Spec => []NamesUnique
<1>1. Inv => NamesUnique
  <2> SUFFICES ASSUME Inv, intact,
                      NEW l \in 1..file.count, NEW k \in 1..file.count,
                      NEW s \in Used(file, l), NEW t \in Used(file, k), <<l, s>> # <<k, t>>
               PROVE  /\ file.loads[l].dev[s].name # file.loads[k].dev[t].name
                      /\ file.loads[l].dev[s].addr # file.loads[k].dev[t].addr
    BY DEF NamesUnique
  <2>1. Good(file, Most) /\ s \in Full(file.loads[l]) /\ t \in Full(file.loads[k])
    BY GoodFile
  <2>2. l # k \/ s # t
    OBVIOUS
  <2> QED
    BY <2>1, <2>2 DEF Good, Apart, Differ
<1> QED
  BY <1>1, FileSound, PTL

(* The count that decides when a load is thrown away is never less than its *)
(* devices while the configuration is intact, though the dialog rewrites it *)
(* from a copy that may be older than the file.                             *)
THEOREM CountsCorrect ==
  ASSUME Narrow
  PROVE  Spec => []CountCovers
<1>1. Inv => CountCovers
  <2> SUFFICES ASSUME Inv, intact, NEW l \in 1..file.count
               PROVE  file.loads[l].hdr.devs >= Cardinality(Used(file, l))
    BY DEF CountCovers
  <2>1. /\ Good(file, Most) /\ Most \in Nat /\ Used(file, l) = Full(file.loads[l])
        /\ file.loads[l] \in Block(Most) /\ Cardinality(Full(file.loads[l])) <= file.loads[l].hdr.devs
    BY GoodFile DEF Good, Shaped, GoodBlock
  <2>2. Cardinality(Full(file.loads[l])) \in Int /\ file.loads[l].hdr.devs \in Int
    BY <2>1, FullFinite DEF Block, Header
  <2> QED
    BY <2>1, <2>2
<1> QED
  BY <1>1, FileSound, PTL

(* After a boot with a line for every load every device of the file is      *)
(* served, though each driver takes itself for the first until one stays.   *)
THEOREM ServedCorrect ==
  ASSUME Narrow
  PROVE  Spec => []AllServed
<1>1. Inv => AllServed
  <2> SUFFICES ASSUME Inv, boot.done, boot.left = 0, intact, lines >= file.count
               PROVE  served = Configured(file)
    BY DEF AllServed
  <2>1. Most \in Nat /\ Good(file, Most) /\ Progress /\ lines \in Int /\ boot.resident \in BOOLEAN
    BY GoodFile DEF Inv, Sound, Base
  <2>2. /\ Configured(file) = UNION {DevicesOf(file, l) : l \in 1..file.count}
        /\ \A d : d \in Configured(file) <=>
             \E l \in 1..file.count : \E s \in Full(file.loads[l]) : d = file.loads[l].dev[s]
    BY <2>1, ConfiguredIs
  <2>3. lines - boot.left = lines /\ lines > 0 /\ file.count \in Nat
    BY <2>1 DEF Progress, Good, Shaped
  <2>4. CASE boot.resident
    <3>1. PICK k \in 1..file.count : /\ k = file.count \/ k >= lines
                                     /\ served = UNION {DevicesOf(file, l) : l \in 1..k}
      BY <2>1, <2>3, <2>4 DEF Progress
    <3>2. k = file.count
      BY <2>1, <2>3, <3>1
    <3> QED
      BY <2>2, <3>1, <3>2
  <2>5. CASE ~boot.resident
    <3>1. served = {} /\ (file.count > 0 => Full(file.loads[1]) = {})
      BY <2>1, <2>3, <2>5 DEF Progress
    <3>2. file.count <= 1
      BY <2>1, <2>3, <3>1 DEF Good, Shaped
    <3>3. \A l \in 1..file.count : l = 1 /\ file.count > 0
      BY <2>3, <3>2
    <3>4. \A d : d \notin Configured(file)
      BY <2>2, <3>1, <3>3
    <3> QED
      BY <3>1, <3>4
  <2> QED
    BY <2>1, <2>4, <2>5
<1> QED
  BY <1>1, FileSound, PTL

(* Remove takes one device out of the configuration and leaves every other  *)
(* one in it, those of the other loads included.                            *)
THEOREM RemoveCorrect ==
  ASSUME Narrow
  PROVE  Spec => RemovesOne
<1>1. Inv /\ [Next]_vars
        => [(dlg = "advanced" /\ dlg' = "advanced" /\ DeleteDevice /\ intact')
             => Cardinality(Configured(file) \ Configured(file')) = 1]_vars
  <2> SUFFICES ASSUME Inv, [Next]_vars, dlg' = "advanced", DeleteDevice, intact'
               PROVE  Cardinality(Configured(file) \ Configured(file')) = 1
    OBVIOUS
  <2>1. Base /\ Base' /\ (intact => Sound)
    BY BaseStep DEF Inv
  <2>2. PICK d : Configured(file) \ Configured(file') = {d}
    BY <2>1, DeletesOne
  <2> QED
    BY <2>2, FS_Singleton
<1> QED
  BY <1>1, FileSound, PTL DEF Spec, RemovesOne
=============================================================================
