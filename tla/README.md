# COMi, COMscope and their companions, in TLA+

This directory is a verification project for the programs of this repository:
the COMi serial device driver for OS/2 and the programs that configure it,
watch it and use it.  It holds TLA+ specifications translated from the
source, configurations with which TLC checks them on small instances, and
proofs that TLAPS checks for every value of the constants.

- [The system](#the-system)
- [Where the code is](#where-the-code-is)
- [The modules](#the-modules)
- [What is checked](#what-is-checked)
- [What is proved](#what-is-proved)
- [Where the code and its words disagree](#where-the-code-and-its-words-disagree)
- [What is not modelled](#what-is-not-modelled)
- [Further hazards](#further-hazards)

## The system

| part | code | state | correct when |
|---|---|---|---|
| Receive queue | `COMI` | ring, two pointers, flags FULL and EMPTY | a bounded FIFO; refuses only when full |
| Input handshaking | `COMI` | `INPUT_HS` bits, XOFF_SENT, modem control | the peer is held early enough, and never without something that will release it |
| Read request | `COMI` | packets waiting, semaphore, timer, counts | hands out the stream, in order, once; waits as long as its time-out says; always returns |
| Transmit stream | `COMI` | write buffer and count, semaphore, timer, transmit interrupt | every byte sent once, count right, Write always returns |
| Output handshaking, immediate byte | `COMI` | `byHSstatus`, `byImmediateByte` | nothing sent while held, restarted when released |
| COMscope trace ring | `COMI` | ring of traced words | the monitor sees what happened |
| Open, close, modem control, baud rates, dispatch, initialization | `COMI` | hardware registers, configuration | see *not modelled* |
| COMscope capture | `COMSCOPE` | capture buffer, indexes, thread flags and semaphores, files | what is shown and saved is the stream; the buffer is freed unused; commands return |
| COMscope display | `COMSCOPE` | screens: index, rows, cursors, options | what is drawn is in order; moving, clicking and searching agree with painting |
| Driver configuration | `CONFIG`, `UTILITY`, `IniAccess.c` | the file of loads and devices, the dialogs' copies of it, CONFIG.SYS | names unique, counts right, every device served after a boot |
| Print port drivers | `SPOOLER` | the system INI file, one key per write | an owned port can be opened and is set as shown |
| Paging connection | `CONNECT` | two libraries with a thread each, sockets, two windows | answers match requests; a listener has its thread |
| WinCOM | `WINCOM32` | window, loop and read threads, two semaphores, time-outs | one session at a time, time-outs restored, exchanges go on |
| Control dialogs, IOCtl wrappers, string and profile helpers, installer, help, run-time | `COMcontrol`, `Control`, `IOCtl`, `Profile`, `INSTALL`, `HELP`, `OS2LSRTL` | none that outlives a call | see *not modelled* |

How the parts interact.  In the driver four actors act on one device: requests
(which run with interrupts on, but are not preempted by other requests except
where they block or yield), the UART's interrupt, the timer and the far
end.  The receive and the transmit path meet in the immediate byte and in
`StartWriteStream`; a request and the interrupt meet in the ring, in counts, in
the semaphores and in the flag words.  The trace ring leads from the driver
to COMscope's monitor thread, from there through the capture buffer to its
display thread and its window, and to files.  The configuration dialogs and the
driver meet in the initialization file; both port drivers and the spooler
in the system INI file; the paging programs in messages; the threads of
WinCOM in flags, semaphores and the time-outs of the port.

The hard behaviours are interleavings of a request with interrupts at each
`sti`; wake-ups that may come before the wait; time-outs that race with
completion; threads that are told to end while they are waited for; files edited
in place through copies that go stale; and long sequences of legal calls.
`PROJECT.json` lists those that matter most under "hazards", each with its line and the
properties that cover it; the others are at the end of this file.

## Where the code is

The assembly source of some of the driver (`Util.asm`, `ProcessFlags.asm`) is
not in the repository; their listings `src/COMI/BASE/UTIL.lst` and
`ProcessFlags.lst` are, and are what the modules are translated from.

`Read`, `WriteBlock` and `Write` are in `src/COMI/COMDD.ASM` (559-1536) under
`IFDEF this_junk`: the build takes them from separate sources (`Read.asm`,
`Write.asm`) that are not in the repository, and whose listings show no code.  The
symbols of the linked driver (`src/COMI/BASE/COMDD.map`) have all the labels of the
Read in `COMDD.ASM`, and all but a few of those of the Write, in the same
order; so `ReadRequest` and `XmitStream` follow the text in `COMDD.ASM`, which is the
nearest there is.  Where that text differs from the sources that were built, the
modules do too.

## The modules

| module | what it is |
|---|---|
| `RcvFifo` | what the receive queue promises: a bounded FIFO with error replacement |
| `RcvQueue` | the ring, its flags, and input handshaking; refines `RcvFifo` |
| `ReadRequest` | Read, its packets, the receive interrupt and `ReadFIFO`, over `RcvFifo` |
| `XmitStream` | one Write, and all that moves or stops its bytes |
| `Capture` | COMscope's monitor, its buffer, and the commands around them |
| `Screen`, `LiveDisplay`, `Examine`, `Display` | COMscope's window: what the two displays share, the running one, the finished one, and the composition of both |
| `DriverIni` | the driver's configuration file, the dialogs that edit it, the drivers that read it |
| `PortDriver` | the two print port drivers |
| `Connect` | the paging client and server |
| `WinCom` | the threads of WinCOM |
| `MC...` | the instances TLC checks |
| `...Proofs` | the theorems |

### RcvQueue

State: the bytes of the buffer, the two pointers as offsets, the two flags, the
byte last handed out, the overrun bit, and one record `fc` with the bits of input
handshaking and what they drive.  `Length` is the number of bytes the ring
holds; the code uses the offset of the last (`dwReadBufferExtent`).

Each operation is one step: the reader calls `ReadReceiveQueue` with interrupts
off, `WrtReceiveQueue` runs in the interrupt routine, and the IOCtl runs with
interrupts off around what it changes.  What happens inside at an `sti` (in
`StartWriteStream`) is not covered.

Names are the code's: `Next1` is the wrap of a pointer, `RoomAfterStore` and
`RoomAfterRead` the two different formulas for the room, `HoldPeer` and
`ReleasePeer` the code at `wrt_send_Xoff` and `rd_send_Xon`, `SetDuplex`, `SetRts`
and `SetXonXoff` the parts of `ProcessFlag2` in their order.  RTS stands for both
modem lines.  `peer` is what the far end last heard; `late` counts the bytes
that came in since the hold.  `Word` is the number of values of a 16-bit
register: one comparison in `ProcessFlag2` uses CX where the others use ECX.

### ReadRequest

State: the queue of `RcvFifo`; the bytes in the UART; `req`, the place in Read
and its local variables; `d`, the fields of the device that Read, the interrupt,
the Timer and the flush share; the packets waiting; the client's buffer `mem`.
A step of Read runs from one point where interrupts are on to the next: each
`Fetch` is one turn of a copy loop, `TakesByte` and `FifoStore` are the two
halves of a turn of `ReadFIFO`, between which the interrupt may take bytes too.
`ReadBlock` is `read_block` entered with interrupts off; entered with interrupts on
it is four steps, `BlockSetUp`, `BlockClear`, `BlockArm` and `BlockClaim`.  The
interrupt takes a byte per step (`read_com`, `read_loop`, `clear_rd_sem`) and only
the Timer runs in between.

Bytes are their numbers in the stream, so that order and loss can be stated.
Three history fields say where the code itself breaks the stream or a wake-up:
`torn` (a full queue refused a byte; an interrupt came inside `ReadFIFO`;
`PhysToVirt` failed over bytes already taken), `missed` (the semaphore was cleared
before Read claimed it), `quiet` (ticks without a byte).

### XmitStream

State: one record `d` for the device, `size` (the request), `left`
(`wBytesLeft`) and `result` (the `IOcount` returned).  Bytes are counted, not named.
`pc` names the labels of `Write` at which interrupts are enabled: a step of Write
runs from one such place to the next.  Other requests run only where Write
blocks, yields or has returned.

`cnt` is `wXmitQueueCount`, `fifo` the level of the UART, `ier` and `thri` its
transmit interrupt enable and its pending interrupt, `clear` and `blocked` the
semaphore and WRT_BLOCKED, `hs` the bits of `byHSstatus` with the modem signals
gathered in one ("HDW"), `cts` and `delta` the signal and whether it changed
unnoticed.  `out` and `lost` are history.  `StartWriteStream` is translated with
what it does when the UART is not empty: it means to enable the transmit interrupt
and writes another port.  `Events` restricts what the far end, a client or the
receive queue may do.  An interrupt routine and a `Timer` call are one step each.

### Capture

The monitor thread (`m`) takes batches of words from the trace ring and stores
them one by one; the display thread (`d`) follows; the user interface (`ui`) is
where a command waits for a thread to end, and serves posted messages (`msgs`).
`b` is the capture buffer with its read and write index; a word is its number in
the session.  `dlg` is the buffer dialog.  It may be opened while a monitor runs
(`wincmd.c:1171`); the flag it copies when it comes up decides whether the length may
be changed, and OK writes the copy back, mode and flag, whatever happened meanwhile.
It is modal: no command comes while it is up, but messages are served.

`b.sound` is false in sessions whose buffer was changed by
something the code does not guard (a file loaded under a starting monitor, a
restart of the system under the old index) and in captures that were switched
to file after the buffer had wrapped: the monitor then goes on in a fresh buffer
with `bBufferWrapped` still TRUE (`thread.c:1032`).  The properties say nothing of those,
and the hazards list them.  `disk` holds the files of a capture and the file
last saved.

### Screen, LiveDisplay, Examine, Display

An element is a word of the trace: its kind and low byte.  `LiveDisplay` is the
display thread in its two formats: each step draws one element in a cell, and
window procedures move its cursors under it.  `Examine` is the display of a
buffer at rest: `Hits`, `RowPaint` and `ColumnPage` are what is painted, `LineDown`,
`LineUp`, `Forward`, `Backward`, `Clicked`, `Search` the separate scans that move, click
and search.  `Display` puts both under the commands of the window, one message at
a time.  When an index leaves the buffer, as the code lets it in the cases listed as
hazards, the examination is over: what the program reads there no model can
tell.

### DriverIni

The file is a count and one block per load, each with a header and a fixed
number of devices.  The dialogs do not hold it in memory: every button reads
or rewrites a part at a remembered position, beside copies of a header
(`gcfg`), a device (`gdev`), the names and addresses in use, the list box, and
the number of loads.  `file`, `dlg`, `pos` and the rest are those copies.  Cancel puts back
`saved`.  `Boot` and `GetIniInfo` are the drivers that CONFIG.SYS loads, each taking the
first load that is available.  A read of an uninitialized variable ends the
behaviour ("undefined").  `TurnPage` is the validation of the first page of the notebook
when another is turned up: it takes the new address for the old one
(`cfg_dev_dlg.c:271`), so that the save finds nothing to exchange in the lists (363-375).
`intact` is history: no load lost its last device but the
only one, none was removed but the last, no notebook was left half saved, none was
saved with an address the lists do not have, and the
buttons acted on the highlighted item; the simple dialog, which writes the file anew,
starts it over.

### PortDriver

The application `PM_<port>` (`app`), one key per write, and the list `PM_SPOOLER_PORT`
(`old`).  `InstallWrite`, `RemoveWrite` and `SavePortSettings` are one write each, any of which
may fail; requests for different ports, and InitPort, come in between.  `SetDialogValues`
and `InitializeCommPort` are the two parsers of the initialization string, one
for the dialog and one for the device.  Neither driver looks who owns a port it
is asked to install.  `taken` is history: the ports of SERIAL that COMI has begun to
install and whose name it has not written yet, or never, when a write failed; the
string is COMI's there and the port still SERIAL's.  InitPort reads the file in one
step, each of its controls may fail; its reads with controls between them are
two or three in the code, and what another writer does between them is not in the model.

### Connect

Each message is a connection that waits in the backlog of the listener (`net`),
is accepted by its thread, posted to its window (`posted`) and turned by
`ProcessRequest` or `ProcessResponse` into the next one in the same buffer under the
same number.  `lib` is the library of each side, `loop` the notify dialog.  `sent` is
history: what was asked, and what of it was answered or lost to a stop.
A library has one global socket: `listens` says that some socket of the side listens,
`held` that it is the global one.  A start that bind refuses has put its own there
before (`client.c:74`, `server.c:44`): a thread that accepts next does so on a socket never
bound and fails, and the one that listens is left without a thread (`Deserted`).

### WinCom

`Execute` creates the loop thread, which creates the read thread; a pause
shortens the time-outs of the port, raises `bStopThread`, wakes both and waits at most a
second for each.  `late` and `quiet` are history: a wait that timed out, and a
session in which nothing did.

## What is checked

| run | config | properties | shows |
|---|---|---|---|
| hold | `RcvHold.cfg` | `FullOnlyAfterSlack`, `HandshakeInParallel`, `FifoRefined`, `PeerReleased` | the hold comes in time, all handshakes together; a held peer is released; the ring is a FIFO |
| calls | `RcvCalls.cfg` | `HeldWhileShort` | no hold outlives the shortage of room, with flushes and DCBs at any time |
| rcvflush | `RcvFlush.cfg` | `FlushSendsXon` | violated: see below |
| reads | `Reads.cfg` | `HandsOutStream`, `ShortAfterSilence`, `ReadReturns` | Reads hand out the stream, in time, and return |
| xmit | `XmitAll.cfg` | `BytesConserved`, `FlushReturns` | no byte lost or sent twice; a flush ends a Write, with infinite time-outs too |
| returns | `XmitReturns.cfg` | `StreamHasDriver`, `WriteReturns` | a stream that may go on has somebody who moves it; every Write returns |
| capture | `Capture.cfg` | `InOrder`, `ViewIsRecent`, `FilesHoldStream`, `SavedComplete`, `FreedUnused`, `CommandReturns` | buffer, view and files are the stream; no thread is missed |
| display | `Display.cfg` | `DrawnInOrder`, `ClickTells`, `FoundMatches`, `LinesAgree`, `NoGap` | the separate scans of painting, moving, clicking and searching agree |
| ini | `DriverIni.cfg` | `NamesUnique`, `CountCovers`, `AllServed`, `RemovesOne` | the file stays right through any edits |
| ports | `PortDriver.cfg` | `OwnedIsReadable`, `CopiesAgree`, `HookGone`, `ProgramsWhatIsShown` | an owned port can be read; two copies and two parsers agree |
| connect | `Connect.cfg` | `ListenerHasThread`, `AnswersMatch`, `SizesTrue`, `EachAnswered` | listeners and answers, through stops, failures and restarts |
| wincom | `WinCom.cfg` | `OneLoop`, `TimeoutsRestored`, `StopEndsLoops`, `ExchangeGoesOn` | one session; time-outs put back; threads end; no post is lost |

Every property has a mutant beside the definition it alters
(`RoomAfterStoreExact`, `ReadBlockOver`, `SavePortSettings` → `SaveNewOnly`, ...): an
off-by-one, a forgotten flag, a missing wake-up, a swapped order, under which TLC
finds it violated.

### Bounds

- `RcvQueue`: a ring of 5 with two bytes, or 6 with one, wraps, fills, and has room for
  a hold level, a release level and late bytes on each side of both.  Only
  16-bit overflow depends on larger values; `Word` brings it into range.  `late` is
  capped at `Length + 1`.
- `ReadRequest`: four bytes, the second stripped; a queue, a UART and requests of two,
  one packet waiting, a time-out of two ticks.  Each of these is overtaken once:
  a queue is filled and refuses, a Read needs more than the queue holds, a tick
  passes without effect and the next expires.
- `XmitStream`: a request of 3 or 4 with a buffer of 2 or 3 needs a second load; a FIFO of 1
  has no room beside an immediate byte, one of 2 has; two ticks as above.  `xmit` has no
  modem interrupts, so that Write polls the signals; `returns` has them.
- `Capture`: a buffer and a trace ring of two words, batches of one, three words a
  session: the buffer wraps or fills once and goes on.  All commands, in any order
  and any number.
- `Display`: one running stream and two files of up to eleven elements, windows of
  one and two lines of four cells, a capture buffer of five, two commands from
  any of the profiles: the cursor wraps, pages end inside packets, a search
  wraps.
- `DriverIni`: three ports, two of them offered by the simple dialog and one with a name
  of two digits; two devices per load, three loads, five operations of the dialogs:
  a load is filled, emptied, removed and refilled.
- `PortDriver`: one port that both drivers want, one failing call, one dialog at a
  time; rates below and above what a USHORT holds.
- `Connect`: three subscribers and two groups, one request numbered besides the logon,
  two messages under way when a user acts.
- `WinCom`: two sessions, three commands, one line under way; a half-duplex master, a
  slave, a full-duplex writer.

### Fairness

A runnable thread runs, an interrupt is taken, the Timer ticks: weak fairness of
`ReadStep`, `Receive` and `Timer` in `ReadRequest`; of the steps of Write, the UART's
interrupts and the Timer in `XmitStream`; of the reader and the UART in `RcvQueue`; of
both threads, of the messages and of what the user interface was told in `Capture`; of
the threads and the windows in `Connect`; of the window and the threads in `WinCom`,
where a read or a write ends once the session is stopped, because the pause gives
the port short time-outs, and the peer answers.  These are what the hardware, the
kernel and the message queue give.  Nothing is assumed of bytes coming in, of Xon or
CTS, of the device's traffic, or of what users do.

`WriteReturns` is not asked with immediate bytes: each one sent by the interrupt
restarts the time-out of the Write (`Interrupt.asm:729-735`).  Where the code has a
weakness that would make a property false, the property says so in its text and
excepts it by a history variable (`missed`, `torn`, `late`, `quiet`, `b.sound`,
`disk.lost`, `intact`, `mixed`, `taken`) or by a state (`Deserted`); each exception is a hazard with its line.

## What is proved

The proofs hold for every value of the constants, under the named assumptions of
the modules (`LengthAssumption`, `ThresholdAssumption`, `ReadAssumption`, `XmitAssumption`,
`CaptureAssumption`, `ConnectAssumption`, `DriverIniAssumption`, ...), which TLC evaluates
on every run.

| theorem | statement | argument |
|---|---|---|
| `TypeCorrect` | `Spec => []TypeOK` (`RcvQueue`) | inductive as it stands |
| `RingCorrect` | `Spec => []RingInv` | inductive with `TypeOK` |
| `NoHoldOutlivesTheQueue` | `[](HeldWhileShort /\ EmptyNotHeld)` if `Length < Word` | a store that starts a hold leaves less room than the threshold, a read that leaves more ends it; `CountStored` and `CountRead` relate the code's formulas to the number of bytes |
| `FullTakesLateBytes` | `[]FullOnlyAfterSlack` if no DCB is set | `SlackLeft` is the strengthening: every late byte takes one of the slots the hold left |
| `HandshakesGoTogether` | `[]HandshakeInParallel` if there is neither flush nor DCB | inductive with `TypeOK` |
| `QueueImplementsFifo` | `Spec => FifoRefined` | each step maps to a step of `RcvFifo` or none, from `RingInv` and lemmas on which slots are in use |
| `XmitTypeCorrect` | `Spec => []TypeOK` (`XmitStream`) | from `ConserveInv` |
| `EveryByteOnce` | `Spec => []BytesConserved` | `ConserveInv` adds that the buffer is empty when Write is about to load it or has returned; each routine moves bytes from the queue to the UART one for one (`Keeps`) |
| `StreamIsDriven` | `Spec => []StreamHasDriver` if no byte is sent out of turn (`InTurn`), as in the run | see below |
| `ReadsHandOutStream` | `Spec => HandsOutStream` | see below |
| `BlockedHasWakerAlways` | `Spec => []BlockedHasWaker` | `Waker`: a Read that waits, or is about to claim, has a running timer or a clear semaphore |
| `ReadsWaitTheirTime` | `Spec => ShortAfterSilence` | `SilenceInv`: at each label, what the timer of the Read has still to run and the silence so far make up the time-out, or a byte has come in |
| `BufferInOrder` | `Spec => []InOrder` | see below |
| `ViewCorrect`, `SaveCorrect` | `Spec => []ViewIsRecent`, `Spec => SavedComplete` | a wrapped buffer is full (`WrappedFull`) and the monitor has ended while data is shown (`ViewedDead`); the copy that turns a wrapped buffer and the two parts that Save writes are the last words (`SnapshotIsRecent`, `SavedIsRecent`) |
| `FreedCorrect` | `Spec => FreedUnused` | see below |
| `FilesCorrect` | `Spec => []FilesHoldStream` | see below |
| `ListenerCorrect`, `AnswersCorrect` | `Spec => []ListenerHasThread`, `Spec => []AnswersMatch` | one invariant: the socket a library holds and its thread go together, or the listener is `Deserted`; requests and answers, under way or posted, the notify dialog's and the logon that is kept, all are numbered by what was asked |
| `SizesCorrect` | `Spec => []SizesTrue` | `Sized`: a query asks for one number or for active ones the server told the client of, so its answer has all of them or none (`AllOrNothing`) |
| `OwnedCorrect` | `Spec => []OwnedIsReadable` | `PortInv`: an installation that has got to step n has written what it writes before n, a port of SERIAL that COMI is being installed over is in `taken` (`Installing`), a dialog that is open has settings it can write; a lemma on the text a dialog makes |
| `CopiesCorrect` | `Spec => []CopiesAgree` | `CopyInv`: between the writes of one job the copies differ as far as the job has got, and a dialog in between is told by `mixed` |
| `ProgramsCorrect` | `Spec => ProgramsWhatIsShown` | `ShownInv`: what is stored as a time-out is one the parsers read alike; `OneMeaning`: both parsers read the same settings from one text, and that a port outside `taken` has a text is `Readable` |
| `HookFreedAtEnd` | `Spec /\ []OneDialog => []HookGone` | `HookInv`: the hook and its flag go together, and the stub is not hooked while help is up |
| `OneLoopCorrect`, `TimeoutsCorrect` | `Spec => []OneLoop`, `Spec => []TimeoutsRestored` | `EndKnown`: who forgets the loop thread knows that it has ended; `SavedLong`: neither what the window saved nor what a thread is about to send is short |
| `FileSound` | `Spec => []Inv` (`DriverIniProofs`) if `Narrow` | see below |
| `NamesCorrect`, `CountsCorrect`, `ServedCorrect`, `RemoveCorrect` | `Spec => []NamesUnique`, `[]CountCovers`, `[]AllServed`, `Spec => RemovesOne`, if `Narrow` | from `FileSound` |

*The stream.*  The inductive invariant of `ReadRequestProofs` is
`WakeInv /\ (h.torn \/ Stream)`.  `Stream` says where every byte is: the UART
holds the last ones that came in (`Line`); the client's buffer holds the
first ones, as many as `wBytesLeft` tells, at the places `Places` says `wOffset`,
`wStoreCount` and DI must have at each label (`Client`); and from the last byte
handed out through the queue to the one in hand there is a `Chain` in which only
stripped bytes are missing.  It is needed because Read keeps the offset in two
parts, which `read_block`, the time-out and the re-read put together differently.
The lemmas `ChainPut`, `ChainGet`, `ChainStrip` and `ChainEmpty` say what each kind of step
does to the chain; there is one lemma per kind of step.

*The capture buffer.*  `InOrder` depends on the mode, which the user may change under
a running monitor; on whether the monitor runs, which the menus and the dialog are
told by `cfg`; and on the flag that ends it.  The invariant therefore adds that a
monitor told to end has ended or is waited for (`StopMeansDead`), that who waited goes
on when it has ended (`KilledMeansDead`), that a running monitor is known to run
(`KnownToRun`), which `DialogInv` keeps through a dialog that was opened before (one that lets
the length be changed is up only while nothing is monitored), and that captures to
file do not wrap (`FilesDoNotWrap`); a switch to file after the buffer has wrapped
would break the last, and ends `b.sound`.

*Freeing it.*  `FreedUnused` is about two threads, and about messages posted before
the user's choice and served after it.  `FreeInv` adds to the invariant what is said
of the monitor for the display thread too, and that a monitor that does
not run is taken for ended by the user interface or has its end announced by a
message behind every one that announces a start (`EndHeard`).

*The files.*  `FileInv` says of a capture that has kept everything (`Kept`) which buffer of
the stream each file is (`Filed`), and the same of the queued messages: the one behind k
others that carry a buffer has the buffer after k more (`InLine`), and what the monitor has
given up is with them or before them.  When the monitor has left the last file, no such
message is queued (`LastKept`).  The lemmas `LineSame`, `LineGrows` and `LineServed` say what becomes of the
queue when a message is posted or served.  That a full buffer is the one the stream has next
is `InOrder` with `FilesDoNotWrap`; that the messages are well-formed is `EndHeard`.

*The driver of a stream.*  `Driven` says that where the buffer drains, a UART with bytes has
its interrupt enabled (`Watched`); that an empty one has it pending while nothing holds
the transmitter (`Moved`); that the interrupt is pending on an empty UART only
(`LineInv`); and which of the fields each label of Write has set (`PlaceInv`).  The
hypothesis `InTurn` leaves out TXbyteImmediate and the Xoff of half-duplex input handshaking: the
interrupt that is to send such a byte is enabled at the wrong port (`UTIL.lst:990`), and
with one of them waiting the stream may have no driver.

*The help hook.*  `OneDialog` says that the dialogs of the process come one after another.
Without it the theorem is false: a dialog that opens while another has help up hooks
the stub a second time (`IBM/serial.c:3006`, under *Further hazards*).

*The configuration file.*  `Inv` is `Base /\ (intact => Sound)`: `Base` are types, which hold
whatever happens.  `Sound` says of the file (`Good`) that a header not in use has no
devices and is the only one, that no two devices share a name or an address, and that each
count is no less than the devices it counts; and the same of the file that Cancel would
put back.  While the advanced dialog is up it adds three relations between the file and
what the dialog remembers of it: `Placed`, the position is in the file, the copy of the
load's header does not count too few, and the list box shows the devices of its load;
`Listed`, of every device but the one being edited the name is not among the free ones and
the address is in the list, which may have more, and neither is the edited one's; `Linked`, the
device last read is the one at the position, and the item selected is its name.  After a boot,
`Progress` says which loads the drivers loaded so far have taken.  Each is needed
because the buttons rewrite the file through those copies: that an edited device keeps its
count needs `Linked`, that a new one does not clash needs `Listed`, that a load is not
thrown away too early needs `Placed`.  Without `intact` `Sound` is false: the actions that
end it leave a hole in the file, a name in the wrong list or, after a page turn,
an address in none.

There is one lemma per action for the part of the invariant that it may disturb, over lemmas
on what each routine of `comddini.c` makes of a good file (`DevicePlaced`, `DeviceRemoved`,
`LoadAppended`, `CutOff`), on the list box (`ListShows`) and on the bags (`AddrsListed`).
The hypothesis `Narrow`, `MaxDcb + MaxEdits < WordSize`, says that a count cannot overflow: it
is a 16-bit word, which a new device raises from a copy that may already be too high, so
only the number of edits bounds it.  The model does not wrap it there.  `DriverIniAssumption`
asks that `StdPorts` be finite; the names and addresses may be infinitely many, and the
numbers of loads and of device headers are any.

Only model-checked:

- Liveness (`PeerReleased`, `ReadReturns`, `WriteReturns`, `FlushReturns`, `CommandReturns`,
  `EachAnswered`, `StopEndsLoops`, `ExchangeGoesOn`), which is out of this prover's reach.
- `Display`: what its scans compute for every buffer (`DrawnInOrder`, `ClickTells`, `FoundMatches`,
  `LinesAgree`, `NoGap`) is a matter of induction over data, which is out of reach too.

## Where the code and its words disagree

`rcvflush` is the run that shows one: a flush that ends a hold while the UART is
busy stores the line status in place of the Xon (`UTIL.lst:1162`), though its
comment says "clear flags and send Xon".

Noticed while modelling, and only written down here:

- A DCB that sends an Xoff itself leaves no record of it, and the read that ends
  the hold sends no Xon (`ProcessFlags.lst:718`).  One that enables a handshake during a hold
  makes the handshakes differ (`UTIL.lst:1137`).
- `StartWriteStream` starts the time-out of a Write that has none (`UTIL.lst:1074`); it enables
  the interrupt that is to send an immediate byte at a port four too low
  (`UTIL.lst:990`).
- A Write that polls the modem signals claims the semaphore that the Timer cleared
  (`COMDD.ASM:1006`); a Write that finds the UART busy with the Write before it is woken by the Timer alone
  (`COMDD.ASM:1255`); an Xon between `initiate_stream` and `start_stream` makes two
  routines fill the UART.
- `read_block` entered from a time-out has interrupts on: a wake-up before the claim
  is lost (`COMDD.ASM:766-790`, `missed`).
- An interrupt inside `ReadFIFO` stores its bytes before the one `ReadFIFO` holds (`torn`).
- `HELP/CFG_instl.ipf:762` says "Wait for Something" with an empty queue goes on
  as Normal processing; the interrupt wakes it at the first bytes
  (`Interrupt.asm:576-582`) and Read returns with those (`COMDD.ASM:854-858`).
- `PhysToVirt` failing after a time-out returns a count of 0 over bytes already taken
  (`COMDD.ASM:718`).
- A switch to capture to file during a capture that has wrapped leaves `bBufferWrapped` TRUE
  over a buffer filled from its start (`COMSCOPE/dialog.c:243`, `thread.c:1032`): the view begins with
  blanks and Save writes them.
- A start that `bind` refuses has replaced the global listening socket
  (`CONNECT/client/client.c:74`, `server/server.c:44`): the thread fails on the new one, and the
  first listens with nobody accepting.
- COMI installed over a port of SERIAL leaves it to SERIAL with the string "COMi Spooler;" when a
  write fails (`SPOOLER/spooler.c:583`): SERIAL's InitPort reports success with nothing set, and its
  dialog reads through a null pointer.
- A changed address is taken for the old one when the first page of the device notebook is
  turned (`CONFIG/cfg_dev_dlg.c:271`), and the save then leaves the list of addresses as it was
  (363-375): another device may take the same address.
- Remove Device looks the device up only if the item number has changed
  (`CONFIG/cfg_dlg.c:737`), and so removes the device edited before rather than the
  highlighted one; `HELP/CFG_instl.ipf:616` says the selected one.
- Where Remove Load has left a hole, that search does not reach the later loads
  (`comddini.c:1172`), and Edit stores one device over another, or one more than is counted.
  Where the last load of several goes with its last device, its number stays in the
  spin button (`cfg_dlg.c:755`), and a later sequence of spins, removals and additions leaves
  a first load without devices before one that no driver then serves.
- `GetReceiveQueueLen` of a wrapped ring is one too many (`UTIL.lst:168-173`); with a read
  buffer of 64K, enabling RTS handshaking on an empty queue drops RTS
  (`ProcessFlags.lst:514`; hence `Length < Word` in `NoHoldOutlivesTheQueue`).

## What is not modelled

In the driver: the DSR input handshake, `SetThresholds`, and what happens at an
`sti` inside an operation of `RcvQueue`, or between the flag test and the count after `WriteBlock`
(`COMDD.ASM:1284`), which is one step in `XmitStream`; the queue of waiting Writes, breaks, RTS
toggling, the failure of `PhysToVirt` in Write; line errors, the error word and the
counters that only reports show; opening and closing, which are mostly the
set-up of hardware registers; baud rates, arithmetic without state; the
dispatch of shared interrupts and the probing of hardware, which differ by
adapter; the macro that writes the trace ring (`Capture` has the ring as its
environment).

In the programs: the time between the reading and the writing back of the time-outs by
the pause of WinCOM (`util.c:148`), which is one step; fonts, colours, printing, status
and help windows, the text of lines; adapters and interrupt levels in the configuration;
`QueryPort` and the port icon; the address and logon dialogs of the paging programs;
failing allocations.

Whole parts: the control dialogs, the IOCtl wrappers and the profile and string helpers keep no
state that outlives a call; the installer, the dump tool, help and the run-time library are
input, output and formatting.  A model of any of them would repeat its lines.
The copies of sources under `debug`, `GA`, `EAS` and the old versions kept beside the
current ones are not part of the build that was modelled.

## Further hazards

`PROJECT.json` lists the forty hazards that matter most.  These are the others met in the
code, with the properties that cover them or the reason why none does.

The driver:

- `BASE/ProcessFlags.lst:514`: The room of the queue is compared in a 16-bit register though the
  buffer may be 64K long: with a full 64K of room RTS would be dropped on an empty queue.
  (`HeldWhileShort`)
- `BASE/UTIL.lst:170`: GetReceiveQueueLen computes length - (read - write - 1) for a wrapped
  ring, one more than the number of bytes it says it returns; GetReceiveQueueCount reports it to
  applications. *Not modelled: a pure function of the pointers that only a report depends on.*
- `IOCTL.ASM:340`: SetThresholds stores wXonThreshold and wXoffThreshold as given: a release
  level that a drained queue never reaches leaves the peer held for ever. *RcvQueue assumes the
  order of the two thresholds that OpenProcess sets up; with any other, nothing is promised of
  the release.*
- `COMDD.ASM:1322`: Write enables interrupts between its test of the holding register and the
  filling of the UART: StartWriteStream, run from an interrupt, may fill it in between.
  (`BytesConserved`)
- `COMDD.ASM:1006`: WriteBlock claims it again each time it has polled the modem signals: a
  time-out that came in between is swallowed. (`WriteReturns`)
- `BASE/UTIL.lst:1074`: A Write without a time-out is given one by StartWriteStream. *XmitStream
  models the start of the timer as the code has it (Rearm, Fill); with an infinite time-out the
  model lets such a Write time out, and no property is stated against it.*
- `COMDD.ASM:1255`: A Write that finds the UART busy with the Write before it waits for a
  wake-up that only the Timer gives. (`WriteReturns`)
- `BASE/UTIL.lst:990`: The transmit interrupt that is to send a waiting immediate byte is
  enabled at the wrong port. *XmitStream models the enable that is lost (StartWriteStream);
  StreamHasDriver is therefore asked of writes without an immediate byte and without the Xoff
  of half-duplex input handshaking, which takes the same place.*
- `IOCTL.ASM:1078`: byImmediateByte is one slot for TXbyteImmediate and for the Xon and Xoff of
  input handshaking: the later overwrites the earlier. (`HandshakeInParallel`)
- `COMDD.ASM:1206`: When PhysToVirt fails for a later part of a request, Write returns without
  having loaded the part it already subtracted from wBytesLeft, and counts it as written.
  *XmitStream has no failing PhysToVirt: after it the count is wrong by what the code does in
  these lines, and a property would restate them.*
- `BASE/UTIL.lst:320`: RTS is dropped by a read-modify-write of the modem control register after
  StartWriteStream has enabled interrupts: rd_send_Xon may put back what wrt_send_Xoff has just
  taken down. *In RcvQueue each operation is one step, and the modem control register has no
  value apart from the handshake that drives it.*
- `Interrupt.asm:526`: receive_line_status stores the last byte of an error loop from a register
  that may hold the line status, and ORs more than the error bits into wCOMerror. *Line errors
  are not modelled: the error word is bits a report shows, and no wait or queue depends on
  them.*
- `BASE/UTIL.lst:727`: The DSR input handshake flag of ProcessModemSignals is set when DSR is up
  and reset when it is down, and its receive loop uses port offsets from the wrong base. *The
  input handshake by DSR is not modelled: its loop reads ports that are not this device's, and
  what they return is unknown.*
- `IOCTL.ASM:2464`: GetCountsSinceLast and GetComError read a counter or the error word and
  clear it with interrupts enabled: what an interrupt adds in between is lost. *GetComError is
  one step in RcvQueue; GetCountsSinceLast is a counter that only a report shows.*
- `COMDD.ASM:2196`: CloseProcess yields while it waits for the transmitter; an Open of the same
  device may run then and meet a half-closed device. *Open and Close are not modelled: most of
  what they do is the hardware's set-up, and the yield matters only to two openers of one
  device.*
- `COMDD.ASM:1593`: An Open that fails after it has requested the interrupt leaves it and the
  open count behind. *Open is not modelled; the models start from a device that is open.*
- `COMDD.ASM:2311`: CloseProcess decides whether to send a final Xon by testing a bit of byFlag2
  in byFlag3. *Close is not modelled; no property is stated of a device that is being closed.*
- `Macro.inc:135`: The COMscope trace ring is written by interrupts and requests with a macro
  that is not atomic, and read while it is written; an overrun is not detected. *Capture models
  the ring by the number of words in it and their loss; the words that two writers tear are not
  told apart there.*
- `COMDD.ASM:766`: Read blocks on its semaphore with a time-out while the interrupt clears it: a
  byte that arrives between the test of the queue and the block must not be waited for.
  (`ReadReturns`) *Entered with interrupts off, nothing comes between the test and the claim;
  entered with them on something can, which is the hazard at COMDD.ASM:893.*
- `BASE/UTIL.lst:804`: CalcBaudRate and CalcTimeout divide and shift 16- and 32-bit values at
  the ends of their ranges. *Pure arithmetic on single values, with no state: better tested by
  its table of rates than modelled.*
- `Macro.inc:143`: The trace ring of the driver has no full flag: the word that fills it makes
  it look empty. *Arrive models the loss; that words are lost when nobody reads is the design.*
- `COMDD.ASM:885`: A time-out that finds bytes in the UART stores them and goes back to
  verify_and_block: in "Wait for Something" the Read may block for another time-out with bytes
  already in its buffer. (`ReadReturns`) *ReadReturns shows that it returns in the end; how soon
  is said only of normal time-outs (ShortAfterSilence).*
- `COMDD.ASM:672`: A DevHlp_Block of a waiting packet that is interrupted goes on to pull a
  packet and to serve it, though another Read is being served. *The model has no interrupted
  wait of a packet; in the code two requests would then share the fields of the device.*
- `COMDD.ASM:718`: When PhysToVirt fails after a time-out, Read returns a count of 0 over bytes
  it has already taken out of the queue. (`HandsOutStream`) *HandsOutStream excepts the stream
  from then on (torn): those bytes are lost to the client.*

COMscope:

- `thread.c:1105`: A thread is created again after stop, abort, view, format or restart in any
  order: two at once would share every index. *CaptureProofs proves that the monitor that is
  created never meets one that is alive: it is the conjunct StopMeansDead of the inductive
  invariant.*
- `comscope.c:1143`: UM_BUFFER_END of one capture may be served after the next was started; it
  then says "Monitoring Aborted" and clears bMonitoringStream while a monitor runs. *Capture
  models the message and what it clears (ServeEnd); what it should do in the next session is
  said nowhere, so that no property is stated.*
- `csutil.c:174`: KillMonitorThread waits ten seconds; CalcThreadSleepCount may let the monitor
  sleep longer at low baud rates. *The model gives the kill the time it needs.*
- `thread.c:1103`: A monitor that ends by itself between the test of bStopMonitorThread and the
  reset of its semaphore is waited for ten seconds. *Priorities make the window small; excluded
  by assumption.*
- `thread.c:1032`: A failed DosAllocMem of the next buffer leaves pwBuffer pointing at the full
  one, which is then both posted for writing and overwritten. *Memory is assumed not to run
  out.*
- `thread.c:983`: A monitor thread that cannot allocate its buffer exits without posting
  hevKillMonitorThreadSem or clearing bStopMonitorThread. *Memory is assumed not to run out.*
- `comscope.c:1156`: The last part of a capture is written by the thread under the name of the
  file a queued full buffer is about to be written to. *FilesHoldStream excludes that case:
  disk.lost names it.*
- `wincmd.c:754`: Load Data sets lWriteIndex to the length of the file: with a monitor just
  being started it indexes beyond the capture buffer. *B.sound names the sessions it touches.*
- `init.c:195`: StartSystem allocates a new capture buffer under the old write index. *B.sound
  names the sessions it touches.*
- `csutil.c:219`: The extension of the capture file wraps after 0xfff and the first file is
  overwritten. *Fewer files are assumed.*
- `thread.c:719`: The words of a packet are skipped by counting loop turns; a turn that only
  wraps the read index counts as one, so a packet across the end of the ring is left one word
  early and its last word drawn as an event. (`DrawnInOrder`)
- `comscope.c:1982`: WndSize resets the cursors of all three screens, the columns' too, while it
  holds the mutex of the row display only; the column thread draws between the two assignments
  or wherever it was. (`DrawnInOrder`)
- `dialog.c:450`: The filter dialog copies the SCREEN when it opens and writes all of it back on
  OK, live cursor included, while the display thread goes on drawing. (`DrawnInOrder`)
- `scroll.c:372`: The index of the last page is left as it was when everything fits in one page,
  also when the buffer is another: End or a line down goes to the old index. *The model follows
  the code: the examination ends where an index leaves the buffer (Viewing), and no property is
  stated of what lies beyond.*
- `scroll.c:1088`: Home in a column whose row number is larger than the lines above it scans
  past the first element and returns -1, which becomes the index (scroll.c:708). *The model
  follows the code up to the index: the examination ends there (InBuffer), what the program
  reads in front of the buffer is not modelled.*
- `thread.c:843`: A synchronised column that jumps to the line of the other blanks the lines
  between, or to the top, whatever was drawn there last. (`DrawnInOrder`) *DrawnInOrder asks
  only for the order of what is left when a column is synchronised.*
- `scroll.c:834`: GetColScrollRow masks the byte away before it compares it with the newline and
  finds no lines: after a synchronisation the row is 0 and Home does nothing. *Modelled as it is
  (ColScrollRow); what the row number should be is said nowhere.*
- `scroll.c:1083`: A page down in a column without newlines goes to the character after the last
  one counted, so that one is skipped at each step. *Modelled as it is (ColIndex); the code says
  nowhere which character a page begins with.*
- `scroll.c:515`: Going up, the data of a packet are met before its header and read as events.
  (`NoGap`) *NoGap asks for pages without packets that look like events.*
- `comscope.c:1364`: The end of the scroll buffer is tested for equality: a packet cut off by
  the end of a capture is skipped past it. *Past the end of the buffer the program reads memory
  no model can tell anything of.*
- `comscope.c:1538`: A transmitted break is drawn by the modem output option and counted by the
  device control option. (`ClickTells`) *ClickTells is asked of the sets of events that have
  both options or neither.*
- `comscope.c:1308`: The flag of the last overflow is static and survives from one painting to
  the next. (`ClickTells`) *ClickTells leaves pages with overflows out: they are drawn once and
  counted each time.*
- `search.c:323`: A search in the row display moves the index and paints only through the scroll
  bar; the page shown may be that of another index. (`NoGap`, `ClickTells`) *Both are asked only
  while the page is that of the index.*
- `search.c:178`: A search without case compares the element with itself in the place of the
  string. *Searches are modelled with case.*
- `search.c:231`: The second half of a search that wraps goes one element past its start.
  (`FoundMatches`)
- `column.c:754`: On the last line a newline leaves the cursor in it, so that the beginning of
  the next line is drawn behind it. (`LinesAgree`) *LinesAgree looks at the lines above the
  last.*
- `scroll.c:607`: The row number is kept apart from the index and does not follow keys, searches
  and options; at the first or last row a scroll jumps to the start or the end from wherever the
  index is. (`NoGap`) *NoGap is asked while the row number is that of the index.*
- `scroll.c:591`: SetupRowScrolling resets fLastScroll before it is tested (wincmd.c:341): the
  place of the last display is never taken up. *FLastScroll is left out, as it is always reset
  when it is read.*
- `wincmd.c:784`: Ending an examination frees pwScrollBuffer and leaves the pointer and the
  count; the dialogs of the columns go on using them (dialog.c:451). *What freed memory holds is
  not modelled: the examination is over when the buffer is freed.*
- `init.c:277`: The column index saved in the profile is restored for a file that may have
  changed or shrunk since. (`LinesAgree`, `FoundMatches`) *Restored takes an index of the file
  that is loaded.*
- `comscope.c:1235`: The row index is saved when the program ends and never restored. *Nothing
  is promised of it; Restored starts the rows at 0.*

Paging connection:

- `client/client.c:257`: Connections in the backlog are lost when a listener closes.
  (`EachAnswered`, `ListenerHasThread`)
- `response.c:66`: Any acknowledgement posts the semaphore of the notify loop: a late one
  acknowledges the next notification. *Connect models the post as the code has it
  (LoopIsPosted); which acknowledgement the loop should wait for is said nowhere.*
- `client/client.c:222`: After its last retry the thread frees the message and goes on posting
  it. *Windows are assumed to take a message in time.*
- `client/client.c:162`: A logon that cannot be sent leaves a library that is in use and a
  program that believes it is not: only Stop helps. *Load models it; no text promises
  otherwise.*
- `connect.c:477`: COMthreadMonitor resets the semaphore that the end of the program waits for.
  *The wait is never reached: WM_QUIT ends the loop before.*

Print port drivers:

- `IBM/serial.c:1338`: The setup dialog cannot show a stored rate above what the device reports;
  compared with the file instead of the controls, an OK would overwrite a setting nobody
  touched. *PortDriver models the controls read back as the original settings (Opened); that an
  untouched dialog writes nothing holds by this read-back alone.*
- `IBM/serial.c:3006`: The help flags are per process: a second dialog opened while the first
  has help up hooks the stub again, and the first to go clears its flag without releasing it.
  *The run has one dialog at a time, as one user of one port's settings does.*
- `IBM/serial.c:2412`: InitializeCommPort reads the rate into a USHORT: the rates from 76800 up,
  which the dialog offers, are programmed modulo 65536. *ProgramsWhatIsShown is stated for the
  rates a USHORT holds; the rest is wrong by construction.*
- `IBM/serial.c:1550`: The search for the highest rate has no bound: a device that reports more
  than the last of the list reads past it. *BaudLists has the rates of the list only.*
- `IBM/serial.c:742`: *cItems++ advances the pointer, not the count, so the loop compares
  whatever follows the caller's variable. *What follows the variable is the caller's memory.*
- `spooler.c:845`: SetPort writes back the PortSetup it read before its dialog; a RemovePort in
  between leaves an application with nothing but PortSetup. (`OwnedIsReadable`)

Configuration:

- `cfg_dev_dlg.c:442`: The notebook saves page after page and a page may refuse after the
  address or the name was exchanged; Cancel then leaves the lists of the dialog ahead of the
  file. (`NamesUnique`)
- `cfg_dlg.c:501`: Remove Load gives back the names read from the list box, where names of one
  digit are indented: COM1 to COM9 stay taken until the dialog is reopened. (`NamesUnique`)
- `comddini.c:1327`: The device count of a load header reaches zero one removal too early or
  late when it does not match the devices, and the load is thrown away with the devices it has.
  (`CountCovers`, `RemovesOne`)
- `comddini.c:1172`: The search by name stops at a header not in use and reads on from the
  middle of its block; the dialog then acts on the position of the device edited before.
  *RemovesOne and CountCovers exclude it through intact: both would be false once a middle load
  is empty.*
- `cfg_dlg.c:755`: The number of loads of the spin button is not lowered when the last device of
  the last load is removed; a device inserted next goes to load 0 and an uninitialised header is
  read. *Modelled as the dialog state "undefined", which ends the behaviour; nothing can be said
  of the state after it.  Where the user spins to an earlier load instead, intact is FALSE.*
- `cfg_dlg.c:2221`: Cancel in the advanced dialog that the simple one opened restores nothing:
  the simple dialog was already dismissed as successful. *Modelled (AdvancedCancel with nested);
  a property would restate the branch.*

WinCOM:

- `wincom.c:1177`: The pause looks at idReadThread before the loop thread has created the read
  thread: that thread is neither woken nor waited for. (`StopEndsLoops`)
- `thread.c:93`: After ten seconds without a post the reader skips its next read, which nobody
  answers with a post: a half-duplex exchange stops for good. *ExchangeGoesOn is stated for
  exchanges without it (quiet): with it the property is false.*
- `strtrans.c:232`: ReadString never reports a complete read, so that in half duplex the writer
  is posted only by ReadCharacters. *ExchangeGoesOn is stated for reads of characters.*
- `wincom.c:457`: All semaphores are created posted, so the first write of a slave does not wait
  for a line. *Modelled by Init; a property would restate it.*
- `dialog.c:448`: Leaving half duplex while a session runs takes the posts back: a writer that
  waits is not released, although the definition no longer asks it to wait. *ExchangeGoesOn
  excludes it (quiet); StopEndsLoops holds of the writer left behind.*
- `strtrans.c:138`: A partial write moves an index that the next attempt adds to a pointer into
  the same string. *Data of a line are not modelled.*
