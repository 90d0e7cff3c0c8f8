------------------------------ MODULE DriverIni ------------------------------
(****************************************************************************)
(* The initialization file of the device driver, the two dialogs that edit  *)
(* it, and the driver that reads it when the system boots.                  *)
(*                                                                          *)
(* The file is a header that counts the driver "loads", followed by one     *)
(* block per load: a load header and a fixed number of device headers.      *)
(* InstallDevice copies the file, runs the simple or the advanced dialog,   *)
(* and copies the file back when the dialog was cancelled.  The advanced    *)
(* dialog does not hold the configuration in memory: every button reads or  *)
(* rewrites a part of the file at a position (load, device) the dialog      *)
(* remembers, next to its own copies of a load header, of a device header,  *)
(* of the names and addresses in use and of the number of loads.            *)
(*                                                                          *)
(* Left out: adapters and the interrupt level of a load (PCI, OEM and MCA   *)
(* cards), spooler ports, which interrupt a device has (the refusal of one  *)
(* is a choice of the environment), ports marked as skipped, and the texts. *)
(* A read of an uninitialized stack variable ends the behavior in the       *)
(* dialog state "undefined".                                                *)
(****************************************************************************)
EXTENDS Integers, Sequences, FiniteSets, Bags, FiniteSetsExt

CONSTANTS
  Names,       \* COM numbers, as naturals; port n of the simple dialog has address n
  Addrs,       \* base addresses, as naturals
  ShortNames,  \* the names of one digit
  StdPorts,    \* the ports the simple dialog offers
  MaxDcb,      \* device headers in use of a load (wDCBcount after InitializeCFGheader)
  MaxLoads,    \* bound: loads the user opens
  MaxEdits     \* bound: dialog operations of a behavior

ASSUME DriverIniAssumption ==
  /\ Names \subseteq Nat \ {0} /\ Addrs \subseteq Nat \ {0}
  /\ ShortNames \subseteq Names /\ StdPorts \subseteq Names \cap Addrs /\ IsFiniteSet(StdPorts)
  /\ MaxDcb \in Nat \ {0} /\ MaxLoads \in Nat \ {0} /\ MaxEdits \in Nat

VARIABLES
  file,    \* the file: the count of its header and the blocks after it
  saved,   \* its copy (szTempFilePath)
  dlg,     \* the dialog that is open
  nested,  \* the advanced dialog was opened by the simple one
  pos,     \* stDCBposition
  gcfg,    \* stGlobalCFGheader
  gdev,    \* stGlobalDCBheader
  cur,     \* szCurrentConfigDeviceName, 0 when empty
  shown,   \* the names in the list box of devices
  sel,     \* iItemSelected, 0 for LIT_NONE: the item last read from the file
  mark,    \* the highlighted item of the list box, 0 for none
  nload,   \* stConfigDeviceCount.wLoadNumber, the limit of the spin button
  can,     \* which of the buttons Add Load and Remove Load are enabled
  avail,   \* names with astConfigDeviceList[].bAvailable
  addrs,   \* pAddressList, as a bag
  load_addrs, \* pLoadAddressList, as a bag
  nb,      \* the device notebook: open, inserting, wOldAddress
  lines,   \* DEVICE= lines of the driver in CONFIG.SYS
  boot,    \* drivers still to load, load headers taken, a driver is resident,
           \* the system was booted since the last edit
  served,  \* devices the resident drivers serve
  intact,  \* history: no load lost its last device but the only one, none was removed
           \* but the last, no notebook was left half saved, none was saved with an
           \* address the list does not have, and the buttons acted on the highlighted
           \* item; the simple dialog starts it over
  edits    \* dialog operations so far

fileVars == <<file, saved>>
editVars == <<pos, gcfg, gdev, cur, shown, sel, mark, nload, can, avail, addrs, load_addrs>>
bootVars == <<lines, boot, served>>
vars == <<fileVars, editVars, bootVars, dlg, nested, nb, intact, edits>>

Slots == 1..MaxDcb
NoDev == [name |-> 0, addr |-> 0]
Devices == [name : Names, addr : Addrs]
WordSize == 65536  \* the counts of a load header are words
Closed == [open |-> FALSE, insert |-> FALSE, old |-> 0]

\* The numbers of a set in their order.
Ascending(S) == [i \in 1..Cardinality(S) |->
                   CHOOSE x \in S : Cardinality({y \in S : y <= x}) = i]
----------------------------------------------------------------------------
(* The file *)

InitializeCFGheader == [devs |-> 0, dcbs |-> MaxDcb, adv |-> FALSE]
FreshLoad == [init |-> TRUE, hdr |-> InitializeCFGheader, dev |-> [s \in Slots |-> NoDev]]
NoFile == [count |-> 0, loads |-> <<>>]
NewFile == [count |-> 1, loads |-> <<FreshLoad>>]

Used(f, l) == {s \in 1..f.loads[l].hdr.dcbs : f.loads[l].dev[s] # NoDev}
DevicesOf(f, l) == {f.loads[l].dev[s] : s \in Used(f, l)}
Configured(f) == UNION {DevicesOf(f, l) : l \in {k \in 1..f.count : f.loads[k].init}}
Holes(f) == {l \in 1..f.count : ~f.loads[l].init}

\* Every routine that opens the file creates it first when it is missing.
OpenIni(f) == IF f.count = 0 THEN NewFile ELSE f

\* The first header not in use, or a new block after the last counted one:
\* whatever was behind it is overwritten and cut off.
AddedLoad(f) == Min(Holes(f) \union {f.count + 1})
AddIniConfigHeader(f) ==
  LET at == AddedLoad(f) IN
  IF at <= f.count THEN [f EXCEPT !.loads[at] = FreshLoad]
  ELSE [count |-> at, loads |-> Append(SubSeq(f.loads, 1, f.count), FreshLoad)]

\* The caller's header replaces the one in the file, counters included.
PlaceIniCFGheader(f, h, l) ==
  IF l \in 1..f.count THEN [f EXCEPT !.loads[l].init = TRUE, !.loads[l].hdr = h] ELSE f

\* Load 0 asks for the first block not in use, even behind the counted ones;
\* device 0 for the first free device header of the block.  More is what a new
\* device adds to the count of its load.
PlaceDevice(f, h, d, p, More) ==
  LET unused == {l \in DOMAIN f.loads : ~f.loads[l].init}
      l == IF p.load # 0 THEN p.load ELSE Min(unused)
      free == {s \in 1..f.loads[l].hdr.dcbs : f.loads[l].dev[s] = NoDev}
      s == IF p.dev # 0 THEN p.dev ELSE Min(free)
      old == f.loads[l].hdr
      new == [h EXCEPT !.devs = old.devs + (IF p.dev = 0 THEN More ELSE 0), !.dcbs = old.dcbs]
  IN IF p.load > f.count THEN [ok |-> FALSE, file |-> f, hdr |-> h, pos |-> p]
     ELSE IF (p.dev = 0 /\ free = {}) \/ p.dev > old.dcbs
       THEN [ok |-> FALSE, file |-> f, hdr |-> h, pos |-> [p EXCEPT !.load = l]]
       ELSE [ok |-> TRUE, hdr |-> new, pos |-> [load |-> l, dev |-> s],
             file |-> [f EXCEPT !.loads[l] = [@ EXCEPT !.init = TRUE, !.hdr = new,
                                                       !.dev[s] = d]]]

\* Mutant: a new device is not counted.
PlaceIniDCBheader_Uncounted(f, h, d, p) == PlaceDevice(f, h, d, p, 0)
PlaceIniDCBheader(f, h, d, p) == PlaceDevice(f, h, d, p, 1)

QueryIniCFGheader(f, h, l) == IF l \in 1..f.count THEN f.loads[l].hdr ELSE h

\* Positions with this name.  A header not in use stops the search: the next
\* one is then read from the middle of its block.
Named(f, n) ==
  {x \in (1..(Min(Holes(f) \union {f.count + 1}) - 1)) \X Slots :
     x[2] \in Used(f, x[1]) /\ f.loads[x[1]].dev[x[2]].name = n}
QueryIniDCBheaderName(f, n, p) ==
  LET found == Named(f, n)
      l == Min({x[1] : x \in found})
      s == Min({x[2] : x \in {y \in found : y[1] = l}})
  IN IF found = {} THEN p ELSE [load |-> l, dev |-> s]

\* The last load is cut off; another one is cleared where it is, and the count
\* goes down all the same.
RemoveIniCFGheader(f, l) ==
  IF l = f.count /\ f.count > 1
  THEN [count |-> l - 1, loads |-> SubSeq(f.loads, 1, l - 1)]
  ELSE IF l > f.count THEN f
  ELSE [f EXCEPT !.count = IF @ > 1 THEN @ - 1 ELSE @,
                 !.loads[l] = [init |-> FALSE, hdr |-> [devs |-> 0, dcbs |-> 0, adv |-> FALSE],
                               dev |-> [s \in Slots |-> NoDev]]]

\* The count of the load header, not the device headers, says when a load is
\* empty; an emptied load goes the way a removed one does, but keeps its dcbs.
Without(b, s, left) == [b EXCEPT !.hdr = [@ EXCEPT !.devs = left], !.dev[s] = NoDev]
Unused(b, s) == [b EXCEPT !.init = FALSE, !.hdr = [devs |-> 0, dcbs |-> @.dcbs, adv |-> FALSE],
                          !.dev[s] = NoDev]
RemoveDevice(f, p, Empty(_)) ==
  LET l == p.load
      b == f.loads[l]
      left == (b.hdr.devs - 1) % WordSize
  IN IF l > f.count \/ ~b.init \/ b.dev[p.dev] = NoDev THEN f
     ELSE IF ~Empty(left) THEN [f EXCEPT !.loads[l] = Without(b, p.dev, left)]
     ELSE IF f.count # 1 /\ l >= f.count
       THEN [count |-> f.count - 1, loads |-> SubSeq(f.loads, 1, f.count - 1)]
     ELSE [count |-> IF f.count # 1 THEN f.count - 1 ELSE f.count,
           loads |-> [f.loads EXCEPT ![l] = Unused(b, p.dev)]]
\* Mutant: the load goes with its last device but one.
RemoveIniDCBheader_Early(f, p) == RemoveDevice(f, p, LAMBDA left : left <= 1)
RemoveIniDCBheader(f, p) == RemoveDevice(f, p, LAMBDA left : left = 0)
----------------------------------------------------------------------------
(* What the advanced dialog reads of it *)

ListOf(f, l) ==
  IF l > f.count \/ ~f.loads[l].init THEN <<>>
  ELSE LET used == Ascending(Used(f, l)) IN
       [i \in DOMAIN used |-> f.loads[l].dev[used[i]].name]
AddrBag(f, ls) ==
  LET at == UNION {{<<l, s>> : s \in Used(f, l)} : l \in {k \in ls : f.loads[k].init}} IN
  [a \in {f.loads[x[1]].dev[x[2]].addr : x \in at} |->
     Cardinality({x \in at : f.loads[x[1]].dev[x[2]].addr = a})]

\* FillDeviceCfgListBox: the list box and the addresses of one load.
FillDeviceCfgListBox(f, l) ==
  /\ shown' = ListOf(f, l) /\ mark' = 0
  /\ load_addrs' = AddrBag(f, {l} \cap (1..f.count))

\* WM_INITDLG of the advanced dialog on file f: FillDeviceLists marks the names
\* and addresses of every load in use, then load 1 is shown; h is the header
\* the caller left in stGlobalCFGheader.
OpenAdvanced(f, h) ==
  LET loads == f.count - Cardinality(Holes(f)) IN
  /\ dlg' = "advanced"
  /\ avail' = Names \ {d.name : d \in Configured(f)}
  /\ addrs' = AddrBag(f, 1..f.count)
  /\ nload' = Max({loads, 1})
  /\ pos' = [load |-> 1, dev |-> IF loads = 0 THEN 0 ELSE 1]
  /\ FillDeviceCfgListBox(f, 1)
  /\ gcfg' = IF shown' = <<>> THEN h ELSE QueryIniCFGheader(f, h, 1)
  /\ can' = [add |-> shown' # <<>>, drop |-> FALSE]
  /\ gdev' = NoDev /\ cur' = 0 /\ sel' = 0

\* UnMarkAllDevices and the DestroyList calls of both ends of the dialog.
CloseDialog ==
  /\ dlg' = "closed" /\ nested' = FALSE
  /\ pos' = [load |-> 1, dev |-> 0] /\ gdev' = NoDev /\ cur' = 0 /\ sel' = 0 /\ mark' = 0
  /\ shown' = <<>> /\ nload' = 1 /\ can' = [add |-> FALSE, drop |-> FALSE]
  /\ avail' = Names /\ addrs' = EmptyBag /\ load_addrs' = EmptyBag
  /\ UNCHANGED <<gcfg, nb>>
----------------------------------------------------------------------------
Init ==
  /\ file = NoFile /\ saved = NoFile
  /\ dlg = "closed" /\ nested = FALSE
  /\ pos = [load |-> 1, dev |-> 0]
  /\ gcfg = [devs |-> 0, dcbs |-> 0, adv |-> FALSE]
  /\ gdev = NoDev /\ cur = 0 /\ shown = <<>> /\ sel = 0 /\ mark = 0 /\ nload = 1
  /\ can = [add |-> FALSE, drop |-> FALSE]
  /\ avail = Names /\ addrs = EmptyBag /\ load_addrs = EmptyBag
  /\ nb = Closed
  /\ lines = 0
  /\ boot = [left |-> 0, taken |-> {}, resident |-> FALSE, done |-> FALSE]
  /\ served = {}
  /\ intact = TRUE /\ edits = 0

Edit == edits < MaxEdits /\ edits' = edits + 1
InDialog == dlg = "advanced" /\ ~nb.open

(* InstallDevice: the file is created and copied, and its first header tells
   which dialog it was last edited with. *)
InstallDevice ==
  LET f == OpenIni(file)
      first == f.loads[1]
      ready == IF first.init THEN f ELSE AddIniConfigHeader(f)
      header == IF first.init THEN first.hdr ELSE gcfg
  IN
  /\ dlg = "closed" /\ boot.left = 0 /\ Edit
  /\ saved' = f /\ file' = ready
  /\ served' = {}
  /\ IF first.hdr.adv /\ first.hdr.devs # 0
     THEN OpenAdvanced(ready, header)
     ELSE dlg' = "simple" /\ gcfg' = header
          /\ UNCHANGED <<pos, gdev, cur, shown, sel, mark, nload, can, avail, addrs, load_addrs>>
  /\ boot' = [boot EXCEPT !.done = FALSE]
  /\ UNCHANGED <<nested, nb, lines, intact>>

(* AdjustConfigSys: the number of DEVICE= lines follows the number of loads,
   if the user agrees. *)
AdjustConfigSys(n) == lines' \in {n, lines} /\ UNCHANGED <<boot, served>>
----------------------------------------------------------------------------
(* The simple dialog: check boxes for the standard ports *)

\* The loop over the checked ports, into a file that was deleted before it.
PortFile(ports) ==
  LET order == Ascending(ports) IN
  [count |-> 1,
   loads |-> <<[init |-> TRUE,
                hdr |-> [devs |-> Cardinality(ports), dcbs |-> MaxDcb, adv |-> FALSE],
                dev |-> [s \in Slots |-> IF s \in DOMAIN order
                           THEN [name |-> order[s], addr |-> order[s]] ELSE NoDev]]>>]
Checkable == {ports \in SUBSET StdPorts : Cardinality(ports) <= MaxDcb}

SimpleOk ==
  /\ dlg = "simple"
  /\ \E ports \in Checkable : file' = PortFile(ports)
  /\ AdjustConfigSys(1)
  /\ CloseDialog
  /\ intact' = TRUE
  /\ UNCHANGED <<saved, edits>>

\* The simple dialog is dismissed as successful before the advanced one runs:
\* what the latter returns is ignored.  Without a checked port there is no file
\* until the advanced dialog creates it.
SimpleAdvanced ==
  /\ dlg = "simple"
  /\ \E ports \in Checkable :
       /\ file' = PortFile(ports)
       /\ OpenAdvanced(PortFile(ports), gcfg)
  /\ nested' = TRUE
  /\ UNCHANGED <<saved, nb, bootVars, intact, edits>>

SimpleCancel ==
  /\ dlg = "simple"
  /\ file' = saved
  /\ CloseDialog
  /\ UNCHANGED <<saved, bootVars, intact, edits>>
----------------------------------------------------------------------------
(* The buttons of the advanced dialog *)

\* The header of the load shown goes to the file, marked as made here.
Advanced(h) == [h EXCEPT !.adv = TRUE]

AdvancedOk ==
  /\ InDialog
  /\ file' = PlaceIniCFGheader(file, Advanced(gcfg), pos.load)
  /\ AdjustConfigSys(IF shown = <<>> /\ nload = 1 THEN 0 ELSE nload)
  /\ CloseDialog
  /\ UNCHANGED <<saved, intact, edits>>

AdvancedCancel ==
  /\ InDialog
  /\ file' = IF nested THEN file ELSE saved
  /\ CloseDialog
  /\ UNCHANGED <<saved, bootVars, intact, edits>>

AddLoad ==
  /\ InDialog /\ can.add /\ nload < MaxLoads /\ Edit
  /\ nload' = nload + 1
  /\ gcfg' = InitializeCFGheader
  /\ file' = AddIniConfigHeader(file)
  /\ pos' = [pos EXCEPT !.load = AddedLoad(file)]
  /\ can' = [add |-> FALSE, drop |-> TRUE]
  /\ shown' = <<>> /\ sel' = 0 /\ mark' = 0 /\ load_addrs' = EmptyBag
  /\ UNCHANGED <<saved, dlg, nested, nb, gdev, cur, avail, addrs, bootVars, intact>>

\* The names of the load are read back from the list box, where a name of one
\* digit is indented: those stay marked as taken.
DeleteLoad ==
  /\ InDialog /\ can.drop /\ Edit
  /\ addrs' = addrs (-) load_addrs
  /\ avail' = avail \union ({shown[i] : i \in DOMAIN shown} \ ShortNames)
  /\ cur' = IF shown = <<>> THEN cur ELSE shown[Len(shown)]
  /\ file' = RemoveIniCFGheader(file, pos.load)
  /\ nload' = nload - 1
  /\ pos' = [pos EXCEPT !.load = 1]
  /\ can' = [add |-> TRUE, drop |-> can.drop /\ nload' # 1]
  /\ FillDeviceCfgListBox(file', 1)
  /\ gcfg' = QueryIniCFGheader(file', gcfg, 1)
  /\ intact' = (intact /\ pos.load >= file.count)
  /\ UNCHANGED <<saved, dlg, nested, nb, gdev, sel, bootVars>>

\* The spin button: the header of the load shown is written, another is read.
SpinLoad ==
  /\ InDialog
  /\ \E l \in 1..nload \ {pos.load} :
       /\ file' = PlaceIniCFGheader(file, Advanced(gcfg), pos.load)
       /\ pos' = [pos EXCEPT !.load = l]
       /\ sel' = 0
       /\ FillDeviceCfgListBox(file', l)
       /\ gcfg' = QueryIniCFGheader(file', Advanced(gcfg), l)
       /\ can' = [add |-> shown' # <<>>, drop |-> l # 1]
  /\ UNCHANGED <<saved, dlg, nested, nb, gdev, cur, nload, avail, addrs, bootVars, intact, edits>>

\* The notebook opens on a new device, or on the highlighted one.  The file is
\* searched only when another item is highlighted than at the last time.
InsertDevice ==
  /\ InDialog /\ Len(shown) < MaxDcb /\ Edit
  /\ pos' = [pos EXCEPT !.dev = 0]
  /\ cur' = 0 /\ gdev' = NoDev /\ mark' = 0
  /\ nb' = [open |-> TRUE, insert |-> TRUE, old |-> 0]
  /\ UNCHANGED <<fileVars, dlg, nested, gcfg, shown, sel, nload, can, avail, addrs,
                 load_addrs, bootVars, intact>>

\* The device the buttons act on when item i is highlighted: p its position, h
\* the header of its load, d the device, n its name.
Target(i) ==
  IF i = sel THEN [pos |-> pos, hdr |-> gcfg, dev |-> gdev, name |-> cur]
  ELSE LET n == shown[i]
           p == QueryIniDCBheaderName(file, n, pos) IN
       IF Named(file, n) = {}
       THEN [pos |-> pos, hdr |-> gcfg, dev |-> [gdev EXCEPT !.name = n], name |-> n]
       ELSE [pos |-> p, hdr |-> file.loads[p.load].hdr, name |-> n,
             dev |-> file.loads[p.load].dev[p.dev]]

Highlight ==
  /\ InDialog
  /\ \E i \in DOMAIN shown \ {mark} : mark' = i
  /\ UNCHANGED <<fileVars, dlg, nested, pos, gcfg, gdev, cur, shown, sel, nload, can, avail,
                 addrs, load_addrs, nb, bootVars, intact, edits>>

EditDevice ==
  /\ InDialog /\ mark # 0 /\ Edit
  /\ LET t == Target(mark) IN
       /\ sel' = mark /\ pos' = t.pos /\ gcfg' = t.hdr /\ gdev' = t.dev /\ cur' = t.name
       /\ nb' = [open |-> TRUE, insert |-> FALSE, old |-> t.dev.addr]
       /\ intact' = (intact /\ t.name = shown[mark])
  /\ UNCHANGED <<fileVars, dlg, nested, shown, mark, nload, can, avail, addrs, load_addrs,
                 bootVars>>

\* A device that was never read, because no device is selected in the file,
\* is removed by a routine that has read none.
DeleteDevice ==
  /\ InDialog /\ mark # 0 /\ Edit
  /\ LET t == Target(mark) IN
       IF t.pos.dev = 0
       THEN /\ dlg' = "undefined"
            /\ UNCHANGED <<fileVars, editVars, intact>>
       ELSE /\ addrs' = addrs (-) SetToBag({t.dev.addr})
            /\ avail' = avail \union {t.name}
            /\ file' = RemoveIniDCBheader(file, t.pos)
            /\ pos' = t.pos /\ gcfg' = t.hdr /\ gdev' = NoDev /\ cur' = 0 /\ sel' = 0
            /\ FillDeviceCfgListBox(file', t.pos.load)
            /\ can' = [add |-> can.add /\ shown' # <<>>, drop |-> can.drop]
            /\ intact' = (intact /\ t.name = shown[mark]
                          /\ ~(shown' = <<>> /\ file.count > 1))
            /\ UNCHANGED <<saved, dlg, nload>>
  /\ UNCHANGED <<nested, nb, bootVars>>
----------------------------------------------------------------------------
(* The notebook of one device *)

\* What the first page accepts: a free name or the device's own, an address
\* not in the list or the device's own.
Offered == (avail \union {cur}) \ {0}
Accepted == {a \in Addrs : a = nb.old \/ a \notin DOMAIN addrs}

\* The first page is turned: its address is validated, and from then on taken
\* for the old one, which no list has yet.
TurnPage ==
  /\ nb.open
  /\ \E a \in Accepted \ {nb.old} : nb' = [nb EXCEPT !.old = a]
  /\ UNCHANGED <<fileVars, editVars, bootVars, dlg, nested, intact, edits>>

\* An address list after the old address of the device was exchanged for a.
Exchanged(list, a) ==
  IF a = nb.old THEN list ELSE (list (+) SetToBag({a})) (-) SetToBag({nb.old})

\* UM_SAVE_DATA of the first page, up to the interrupt: the address lists, but
\* for an address that is taken for the old one.
TakeAddress(a) ==
  /\ nb' = [nb EXCEPT !.old = a]
  /\ addrs' = Exchanged(addrs, a) /\ load_addrs' = Exchanged(load_addrs, a)

\* Mutant: the new name is not marked as taken.
TakeName_Unmarked(n) ==
  /\ avail' = IF n = cur THEN avail ELSE avail \union ({cur} \ {0})
  /\ cur' = n

\* The rest of it: the name.
TakeName(n) ==
  /\ avail' = IF n = cur THEN avail ELSE (avail \ {n}) \union ({cur} \ {0})
  /\ cur' = n

\* The interrupt is refused after the address was exchanged.
SaveRefused ==
  /\ nb.open /\ Edit
  /\ \E a \in Accepted : TakeAddress(a)
  /\ UNCHANGED <<fileVars, dlg, nested, pos, gcfg, gdev, cur, shown, sel, mark, nload, can, avail,
                 bootVars, intact>>

\* The first page is saved and the page of extensions refuses.
PageRefused ==
  /\ nb.open /\ Edit
  /\ \E a \in Accepted, n \in Offered : TakeAddress(a) /\ TakeName(n)
  /\ UNCHANGED <<fileVars, dlg, nested, pos, gcfg, gdev, shown, sel, mark, nload, can,
                 bootVars, intact>>

\* Every page is saved and the device goes to the file, with an address that was
\* exchanged in the lists unless the page was turned before.  A new one that its
\* load has no place for is offered to any load not in use; if there is none, the
\* list box is filled for load 0, which is never read.
NotebookOk ==
  /\ nb.open
  /\ \E a \in Accepted, n \in Offered :
       LET d == [name |-> n, addr |-> a]
           r1 == PlaceIniDCBheader(file, gcfg, d, pos)
           again == nb.insert /\ ~r1.ok
           none == \A l \in DOMAIN file.loads : file.loads[l].init
           r2 == PlaceIniDCBheader(file, gcfg, d, [pos EXCEPT !.load = 0])
           r == IF again THEN r2 ELSE r1
       IN /\ TakeName(n) /\ addrs' = Exchanged(addrs, a) /\ gdev' = d
          /\ IF again /\ none
             THEN dlg' = "undefined"
                  /\ UNCHANGED <<file, pos, gcfg, shown, mark, load_addrs, can>>
             ELSE /\ file' = r.file /\ pos' = r.pos /\ gcfg' = r.hdr
                  /\ dlg' = dlg
                  /\ IF nb.insert /\ r.ok
                     THEN /\ FillDeviceCfgListBox(r.file, r.pos.load)
                          /\ can' = [can EXCEPT !.add = TRUE]
                     ELSE /\ mark' = mark
                          /\ shown' = IF nb.insert THEN shown ELSE [shown EXCEPT ![sel] = n]
                          /\ load_addrs' = Exchanged(load_addrs, a)
                          /\ can' = can
  /\ intact' = (intact /\ gdev'.addr \in DOMAIN addrs')
  /\ nb' = Closed
  /\ UNCHANGED <<saved, nested, sel, nload, bootVars, edits>>

\* The file keeps the device as it was; the lists keep what was saved so far.
NotebookCancel ==
  /\ nb.open
  /\ nb' = Closed
  /\ intact' = (intact /\ (nb.insert \/ (cur = gdev.name /\ gdev.addr \in DOMAIN addrs)))
  /\ UNCHANGED <<fileVars, editVars, bootVars, dlg, nested, edits>>
----------------------------------------------------------------------------
(* The system boots: one driver per DEVICE= line *)

Boot ==
  /\ dlg = "closed" /\ boot.left = 0 /\ lines > 0 /\ Edit
  /\ boot' = [left |-> lines, taken |-> {}, resident |-> FALSE, done |-> TRUE]
  /\ served' = {}
  /\ UNCHANGED <<fileVars, editVars, lines, dlg, nested, nb, intact>>

\* The load headers marked available that have room for devices.
Available(taken) == {l \in 1..file.count \ taken : file.loads[l].hdr.dcbs # 0}

\* GetIniInfo: as long as no driver is resident each one takes itself for the
\* first and marks every header available.  It serves the first available one;
\* when that has no devices it finds no other, and the driver does not stay.
LoadDriver(Keep(_)) ==
  LET taken == IF boot.resident THEN boot.taken ELSE {}
      free == Available(taken)
      mine == Min(free)
  IN
  /\ boot.left > 0
  /\ IF free = {}
     THEN /\ boot' = [boot EXCEPT !.left = @ - 1, !.taken = taken]
          /\ served' = served
     ELSE /\ boot' = [boot EXCEPT !.left = @ - 1, !.taken = taken \union Keep(mine),
                      !.resident = @ \/ DevicesOf(file, mine) # {}]
          /\ served' = served \union DevicesOf(file, mine)
  /\ UNCHANGED <<fileVars, editVars, lines, dlg, nested, nb, intact, edits>>

\* Mutant: the header stays available to the next driver.
GetIniInfo_StaysAvailable == LoadDriver(LAMBDA l : {})
GetIniInfo == LoadDriver(LAMBDA l : {l})

Next ==
  \/ InstallDevice \/ SimpleOk \/ SimpleAdvanced \/ SimpleCancel
  \/ AdvancedOk \/ AdvancedCancel \/ AddLoad \/ DeleteLoad \/ SpinLoad
  \/ Highlight \/ InsertDevice \/ EditDevice \/ DeleteDevice
  \/ TurnPage \/ SaveRefused \/ PageRefused \/ NotebookOk \/ NotebookCancel
  \/ Boot \/ GetIniInfo

Spec == Init /\ [][Next]_vars
----------------------------------------------------------------------------
(* No two devices of the file share a name or an address, as long as the
   configuration is intact: the names and addresses the dialog believes free are
   those the file does not use, through every sequence of edits, reopenings and
   boots. *)
NamesUnique ==
  intact => \A l, k \in 1..file.count : \A s \in Used(file, l), t \in Used(file, k) :
              <<l, s>> # <<k, t>> => /\ file.loads[l].dev[s].name # file.loads[k].dev[t].name
                                     /\ file.loads[l].dev[s].addr # file.loads[k].dev[t].addr

(* The count in a load header, which says when the load has become empty and
   may be thrown away, is never less than the devices it has while the
   configuration stays intact: the dialog rewrites it from copies that may be
   stale, but never from one too low. *)
CountCovers ==
  intact => \A l \in 1..file.count :
              file.loads[l].init => file.loads[l].hdr.devs >= Cardinality(Used(file, l))

(* After a boot with a line for every load, every device of the file is served
   by a driver, though a driver that finds no device does not stay and the next
   one starts over. *)
AllServed ==
  (boot.done /\ boot.left = 0 /\ intact /\ lines >= file.count)
    => served = Configured(file)

(* While the configuration stays intact, removing a device takes that device
   out of it and leaves every other one, those of the other loads included. *)
RemovesOne ==
  [][(dlg = "advanced" /\ dlg' = "advanced" /\ DeleteDevice /\ intact')
       => Cardinality(Configured(file) \ Configured(file')) = 1]_vars

=============================================================================
