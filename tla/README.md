# CWNet in TLA+

CWNet is an AmigaDOS handler: programs copy files to `NET://<ip>/<name>`, the
handler queues them and uploads them one after the other to a TFTP server over
a serial line, with SLIP, IP and UDP around every packet. This directory holds
TLA+ modules of the handler, the TLC configurations that check them and proofs
checked by TLAPS. `PROJECT.json` lists components, runs, mutants, the lines of
the source every definition stands for, findings, hazards and theorems.

## 1. Inventory

| Component | State | Operations | Interacts with |
|---|---|---|---|
| message loop (`handler.c`) | `g_running`, `g_busy`, local `ftx`, the one internal packet `outpkt`, `iopkt1`/`iopkt2` | one `case` per DOS packet or internal packet; exit | reads `g_port`; sends itself packets; starts IO |
| packet handlers (`dos.c`) | `g_transfers` (state, block number, error, buffers of each file), `g_locks` | FINDOUTPUT, WRITE, LOCATE, EXAMINE, EXAMINE_NEXT, write and read completion | reply to clients, send internal packets, call `netio.c` |
| network IO (`netio.c`) | `sreq`, `treq`, `g_netio_errno` | start a write or a read with its timer, stop the timer, abort, status | serial.device, timer.device, whose replies arrive in `g_port` |
| SLIP/IP/UDP (`netio.c`) | buffers | wrap, encode, decode, unwrap | called with each TFTP packet |
| `listq` | a lock, a FileInfoBlock | Lock, Examine, ExNext, UnLock | the handler's packets |
| start-up and end (`handler.c` 65-106, 361-371, `netio_init`, `netio_exit`) | log port, console, two requests, two devices, a buffer; `dn_Task` | replies the startup packet, acquires one thing after the other, releases them behind labels | its process's port, which Open() and Close() use as well |
| `unmount` | the device node | takes it out of the list, sends ACTION_DIE, waits, unloads the code | the handler's port and code |
| TFTP server and line (not in the repository) | its session, its disk; frames on the way | acknowledges write requests and blocks; loses frames | serial.device; minitftp's socket |
| `minitftp` | file, socket, address list; `blknum`, `buflen`, `error` | request, block by block, return code | a TFTP server over UDP |
| `slip`, `serecho`, `logtest`, `cwcrt0` | | experiments and tests | not part of the handler |

What is hard here. The handler is one process, but everything reaches it as a
message in one port: packets of several clients, its own internal packets, the
replies of two devices. Each of these messages exists once and is reused, so
an operation may meet its own message still queued; pointers to the file being
sent are kept in three places (`iopkt1`, `outpkt`, the local `ftx`) that
change at different times; a timeout races the completion it guards; memory
may run out in the middle of every operation; and closing, unmounting and
listing happen while a transfer is running. The hazards in `PROJECT.json` name
the lines.

What makes the parts correct: messages and requests are never used while in
use; blocks go out in order and a file reported as finished has arrived; a
timeout hits the file it belongs to; every file and every packet comes to an
end; a frame is delimited and survives its trip; a listing is complete and a
lock stays valid; what is reported as sent is on the server's disk; whatever
fails during start-up, everything acquired is released, once; the handler's
code stays in memory until the handler has returned.

## 2. Modules

| Module | Models | Used by |
|---|---|---|
| `Handler` | message loop, file transfers, internal packets, the two IO requests, clients and devices | `HandlerQueue`, `HandlerProofs` |
| `FileQueue` | abstract specification: what the handler promises its users | `HandlerQueue` |
| `HandlerQueue` | the refinement mapping from `Handler` to `FileQueue` | `MCHandler`, `Upload`, `PatientProofs` |
| `TftpServer` | the server, as operators on its state (external) | `Upload`, `MiniTftp` |
| `Upload` | composition: `Handler`, a lossy serial line and the server | runs itself |
| `MiniTftp` | `minitftp.c`, a UDP network and the server | runs itself |
| `Lifecycle` | start-up and end of the handler, `unmount`, programs, time | runs itself |
| `SlipCodec` | a TFTP packet through UDP, IP and SLIP and back | runs itself, `SlipProofs` |
| `Listing` | locks, Examine, ExNext, several `listq` and a growing queue | `MCListing` |
| `MCHandler`, `MCListing` | symmetry for TLC | the configurations |
| `HandlerProofs` | theorems about messages, types and buffers of `Handler` | `TransferProofs` |
| `TransferProofs` | theorems about the bytes of a file in `Handler` | `PatientProofs` |
| `PatientProofs` | theorems about `Handler` with clients that are not impatient, and the refinement of `FileQueue` | `UploadProofs` |
| `UploadProofs` | theorems about `Upload` | |
| `MiniTftpProofs`, `LifecycleProofs`, `SlipProofs`, `ListingProofs` | theorems about `MiniTftp`, `Lifecycle`, `SlipCodec`, `Listing` | |

### Handler

`port` is `g_port`, a sequence of the names of the messages in it: a client
(its DOS packet), `"out"` (`outpkt`), `"sreq"`, `"treq"`. `g_transfers` is the
list of `FileTransfer` structures; nodes are only added at its tail, so a
pointer is an index and 0 is NULL. Each file also has two history fields:
`accepted`, the bytes taken from the client, and `acked`, the bytes
acknowledged. `fb_curpos` is a position in the file.

There is one action per `case` of the loop. Handlers are atomic: whatever
clients and devices put into the port during a handler goes to its tail, as it
would before or after, and the handler looks at no other shared state. Two
handlers reply to their client first and send `outpkt` afterwards (ACTION_END,
a failing ACTION_WRITE): the client may put its next packet in between, so the
rest is an action of its own, `SendOwed`. In ACTION_END the code sets
`S_READY` after the reply as well; only the handler's own process reads it.

The environment: a client sends one packet and waits for the reply. A device
replies its request once, at any time. `Env` says what else may happen (see
`EnvEvents`): memory failures by place, serial errors, undecodable answers,
unmounting, and one of three kinds of clients:

- without `impatient` and `queue`, a client closes a file, or unmounts, only when
  nothing is being transferred (`Quiet`). For unmounting that is
  `cwtest.bat:25-28` ("It seems we have to wait for the file transfers to
  finish", `wait 120`);
- with `queue`, a client also closes its file while serial.device is at work for
  another one (`MayClose`), as `cwtest.bat:17-23` does: the second `copy` is
  started while the first file is being sent. Any number of files may wait then;
- with `impatient`, a file is closed, or the handler unmounted, at any time.

Most guarantees about IO do not hold with `impatient`, and the violation runs
show how they fail: a file closed while `outpkt` is queued (`InternalPacket`), a
timeout of the exchange during which another file was closed (`WrongTimeout`),
unmounting during a transfer (`UnmountBusy`). `queue` is what is left without
these three: the handler deals with ACTION_END, which takes two messages,
before the device completes its request, a frame taking far longer on the line
(`Unhurried`); and the exchange during which a file is closed is answered in
time. `joined` is the history variable for the latter: ACTION_END was handled
since the last frame was sent, so that `ftx` may name another file than the one
on the line. From the next frame on a timeout may come again.

Operations without a meaning (a queued packet sent again, a request sent or
freed while in use, NULL followed) are recorded in `undef` and stop the model.
Properties that also run in environments where they can happen are stated for
`undef = {}`.

Assumptions on exec.library, which is not part of the repository: WaitIO()
takes the reply of a finished request out of the port and leaves the port
alone when the reply has been read already; AbortIO() of a request not in use
does nothing. Only `io_Error > 0` is an error, as in the code.

A client may write zero bytes: `do_write()` has no check for that and queues an
empty buffer (AllocVec(0) succeeds or fails as any other), for which an empty
DATA packet is sent. `MaxBuffers` bounds the buffers of a file, which zero
writes would not.

Abstractions: file names, IP addresses and the bytes of a file are left out;
DATA frames carry file, block number, offset and length. All the failures of
`send_tftp_*_packet()` are one choice (`send`), whose details are in
`SlipCodec`; `MaxFiles` stands for the memory for `FileTransfer` structures.
LOCATE, EXAMINE, FREE_LOCK and unknown packets only reply (`Other`): what they
do to the lock list is in `Listing`.

### FileQueue and HandlerQueue

`FileQueue` is the queue as `listq` shows it and users reason about it: a file
is open, closed, sending, done or failed, and has a number of bytes accepted and
acknowledged. Only the oldest closed file is started, and only when no other is
being sent; acknowledgements come in pieces of at most a block and never run
ahead of what was accepted; a file is done only when all of it is acknowledged;
done and failed are final. A write of nothing, or the ACK of an empty block, is
no step of it. `HandlerQueue` hides block numbers, buffers, error codes and the
two states of sending (`Visible`), and `ImplementsQueue` says that `Handler`
implements `FileQueue`. A step of the handler is a step of the queue or none:
FINDOUTPUT is `Open`, a queued buffer `Write`, ACTION_END `Close`,
ACTION_SEND_NEXT_FILE `Start` or `Fail`, the ACK of a block `Progress`, an empty
buffer list `Finish`. It is checked and proved for clients that close files
while another is being sent (`queue`), so files do wait, in order, and
ACTION_SEND_NEXT_FILE does find `g_busy` set. With impatient clients it is false
(see `WrongTimeout`), and so it is when a write fails and the file is closed
afterwards, because ACTION_END sets `S_READY` whatever the state was
(`handler.c:172`): the file is sent without the buffers that were lost.

### TftpServer and Upload

`Upload` replaces the any-answer reads of `Handler` by a line: a frame written
is queued for the server, the server's answers are queued for the next reads,
`Lose` drops the oldest frame of either direction. serial.device is never told
to clear its buffer, so an answer nobody waits for stays until the next read.
The server is what the code expects of it, the "duplicate packet" of
`dos.c:92-96` included. Its disk records for each byte the position it had in
the file sent, so that `FinishedStored` compares contents, not lengths. `lost`
notes the file of the exchange in which something was lost.

The timer fires only when nothing is left on the line, that is the server
answers within `NETIO_TIMEOUT` or its answer is lost. With `late` in `Line` this
is dropped, and TLC finds `ServerInStep` and `FinishedStored` violated: since any
ACK answers a write request (`dos.c:431`), the answers of a file that has timed
out are taken for those of the next one, block by block.

### MiniTftp

`pc` is the call `main()` makes next. Calls that acquire something fail into
the clean-up that fits, `sendto()` and `recvfrom()` fail and the program goes on
as the code does. The network is two sets of packets: what is in a set arrives
in any order, may be lost, and may be delivered again. Only a second copy of
the write request is left out: the server would start the file anew, which no
client of one file can prevent. Addresses are left out; the code takes a packet
from anybody. The input is a regular file: `read()` returns less than a block
only at its end.

### Lifecycle

`h` is the next step of `entry()`, `held` what it has acquired, `todo` what the
label it has jumped to still releases; `up` says that start-up is over, or given
up. Open() and Close() take whatever message is in the process's port for their
answer (`stolen`); DoIO() and OpenDevice() look for their own.

A program finds the device in the list (`Lookup`, which needs `mounted` and
`dn_Task`) and sends packets in later steps (`Request`); in between it may be
preempted, and while it has a file open or a lock it goes on to use the port it
has (`knows`). The answer to a packet (`HandlePacket`) leaves it with the port or
without. So packets do arrive behind ACTION_DIE, and at the port of a process
that has ended (`deadport`).

The loop ends by ACTION_DIE (`HandleDie`), which clears `dn_Task`, or by a
CRITICAL error of `dos.c` (`Critical`, lines 405, 459 and the like), which leaves
it set; `critical` in `Faults` allows that at any time, a superset of what
`Handler` says of when it happens (`Undecodable`). The handler is `Orphaned` then,
as it is when its start-up has failed.

`unmount` takes the node out of the list, sends ACTION_DIE, waits for the answer,
then UNMOUNT_DELAY ticks, and unloads the code if `dn_Task` is NULL. `Tick` moves
both delays on; the handler may be kept from running for `MaxLag` ticks, fewer
than the two delays differ. Programs and unmount wait for the start-up to end,
as `cwtest.bat:14-15` does; with `hurry` in `Faults` TLC finds the race that
`handler.c:78-83` describes.

An operation with undefined result is recorded in `misuse` and the model stops
there. Releases out of order and the use of a freed device node never happen
(`NoMisuse`). Stolen messages and dead ports do happen, and `NoMisuse` says who
may cause them: a program that had the port before `unmount` took the device out
of the list (`kept`), or anybody once the handler is orphaned. `UnmountEnds` has
the same exemptions: ACTION_DIE sent to an orphaned handler is never answered,
and `unmount` waits at `unmount.c:109` for ever.

### SlipCodec

One behaviour is the way of one packet: `phase` is the function at work,
`prevbuf` and `curbuf` are the variables of `send_tftp_packet()` and
`extract_tftp_packet()`, `live` counts allocated buffers. The encoder and
decoder loops take one step per byte. SLIP tells four bytes from all others,
hence five values. Headers are arbitrary bytes of the right length. The line is
closed to a loop, so that the decoder is given what the encoder has made; that
is a device of the model, no program of the repository does it (`serecho.c` puts
`ECHO: ` in front of what it has received). Behind the received bytes the read
buffer is uninitialized, so reading there yields any byte.

### Listing

Programs lock the whole queue or one file, examine it, call ExNext until it
fails and unlock, again and again. `copy` asks for a lock of a URL and is
refused, which leaks a `LinkedLock` each time. `Memory` is the set of addresses
AllocVec() may return, so addresses are reused and run out.
`do_locate_object()` replies before it adds the lock to the list; the client's
next packet is read only after that, so one action is sound.

## 3. Runs

Passing runs:

| Run | Environment and bounds | Shows |
|---|---|---|
| `Patient` | `FairSpec` with `queue`, 1 client, 3 files of 0 or 3 bytes in blocks of 2, block numbers modulo 3, unmounting, memory failures except in `do_write()` | `NoUndefined`, `OneSender`, `TimeoutOwner`, `StopsCleanly`, `ImplementsQueue`, `TimeoutHitsSender`, `TransfersEnd`, `PacketsReturned` |
| `Blocks` | 1 impatient client, 2 files of up to 3 bytes in at most 2 buffers, writes of 0 and 3 bytes, block numbers modulo 3, failing writes, serial errors, undecodable answers | `TypeOK`, `MessagesOnce`, `TimerGuardsIO`, `BufferPresent`, `FinishedAllAcked`, `DataInOrder`, `NoBlockNumberReused` |
| `Upload` | 2 clients, closing in quiet, 2 files of up to 5 bytes in up to 3 writes of 1 and 4, blocks of 2, a line that loses anything, other packets | `FinishedStored`, `ServerInStep`, `Delivered` |
| `MiniTftp` | a file of 0 to 7 bytes in blocks of 2, block numbers modulo 5, every call failing, packets lost, repeated and reordered | `SuccessIsReal`, `AllReleased`, `Completes` |
| `Lifecycle` | 2 programs, 2 unmount commands, delays of 3 and 5 ticks, 1 tick of lag, every step of the start-up and unmount's allocations failing, critical errors | `NoMisuse`, `AllReleased`, `UnloadedAfterReturn`, `UnmountEnds` |
| `Slip` | packets of up to 3 bytes, headers of 1, buffers of 8 | `WritesInBounds`, `FrameDelimited`, `PrefixIntact`, `BuffersReleased` |
| `Listing` | 2 programs, 3 files, 2 names, 3 addresses | `TypeOK`, `ListingComplete`, `LockHeld` |

Why the bounds are enough. A write of 3 bytes with blocks of 2 has a full and a
short block; in `Blocks` a write of nothing makes an empty buffer before or
behind it, so that a file has two buffers and needs three blocks, which exhausts
the block numbers below 3. Three files in `Patient` are one being sent and two
that wait behind it: enough for the wrong one to be taken first, and for a
second one to be started while `g_busy` is set (the mutants of `ImplementsQueue`
and `OneSender` do just that). One client closes them one after the other, as
the second `copy` of `cwtest.bat` is run by the same shell; several clients
would only open them in another order. In `Blocks` it closes them at any time.
In `Upload` the writes of 1 and 4 give empty files, whole blocks only, a short
last block, buffers of several blocks and short blocks in the middle; block
numbers do not wrap there (`Blocks` has that). In `MiniTftp` a file has up to
four blocks, the last of them short or empty, and the number of blocks stays
below the modulus, as `NoWrapAssumption` demands: `blknum` wraps otherwise, and
a repeated ACK of one round before is accepted. In `Lifecycle` Delay(150) and
Delay(250) are 3 and 5 ticks of 50; two programs and two commands are enough for
one to come behind the other, and for a program that kept the port to meet one
that looks it up. In `Slip` a packet of 3 with 2 bytes of header needs up to 11
bytes of the 8 available, as 544 bytes escaped (1089) exceed 1024 in the code,
so that the overflow, the exact fit and the free end of the buffer all occur (a
packet of more than some 480 bytes to escape is refused, although `netio.c:362`
calls the buffer large enough). Deadlock is not checked except in `Listing`: an
idle or ended handler, an extracted packet, and a minitftp or an unmount that
has returned, or waits for an answer that was lost, are proper ends. `Listing`
never stops and is checked for it.

Fairness (`FairSpec`): exec runs a process with a message in its port, and
timer.device always replies. Of the server, the serial line and the clients
nothing is assumed, save with `queue` that the exchange during which a file is
closed (`joined`) is completed, as the timer does not expire in it. Every other
exchange, and so `TransfersEnd`, rests on the timeout alone, for the file on the
line and for those behind it. Without that assumption it is false: a misdirected
timeout (`WrongTimeout`) leaves a file in `S_WRQ_SENT` for ever. `Upload` adds
that the devices complete their requests and the server answers what it
receives, which `Delivered` needs and which a loss, recorded per file, excuses.
`MiniTftp` lets the process and the server run; any failure or loss is recorded
in `faulty`, and `Completes` claims nothing then, as `recvfrom()` has no
timeout. In `Lifecycle` time passes and processes that are ready run; no program
has to send anything.

Violation runs, each a disagreement between the code and its own comments:

| Run | What happens |
|---|---|
| `InternalPacket` | a client closes its file while `outpkt` is queued: it is overwritten and linked twice |
| `WrongTimeout` | closing another file redirects `ftx`; a timeout then fails that file |
| `UnmountBusy` | ACTION_DIE aborts the serial request only; the running timer request is freed |
| `Undecodable` | after an undecodable answer the previous packet's opcode is used; the loop ends with `dn_Task` set, so DOS goes on sending to a dead port |
| `UploadEnd` | a file that is empty or a multiple of the block size is reported as completely transferred while the server waits for its last, short block, which `minitftp` does send |

Each property of a passing run has a mutant, an operator defined before the
definition it replaces, that stands for a plausible slip in that code.

## 4. Proofs

All theorems hold for every value of the constants that satisfies the
`ASSUME`s, that is for any number of clients, files and block numbers, any
block and buffer size and, unless a hypothesis is given, any `Env`, `Line` or
`Faults`.

| Theorem | States | Hypothesis |
|---|---|---|
| `HandlerProofs!MessagesAreUnique` | `Spec => []MessagesOnce` | |
| `HandlerProofs!TimerIsPaired` | `Spec => []TimerGuardsIO` | |
| `HandlerProofs!TypesAreKept` | `Spec => []TypeOK` | |
| `HandlerProofs!BuffersArePresent` | `Spec => []BufferPresent` | |
| `TransferProofs!FinishedFilesAreAcked` | `Spec => []FinishedAllAcked` | |
| `TransferProofs!BlocksAreInOrder` | `Spec => []DataInOrder` | |
| `TransferProofs!BlockNumbersAreUnique` | `Spec => []NoBlockNumberReused` | |
| `PatientProofs!NothingUndefined` | `Spec => []NoUndefined` | `PatientEnv` |
| `PatientProofs!OneFileIsSent` | `Spec => []OneSender` | `PatientEnv` |
| `PatientProofs!TimeoutFindsItsFile` | `Spec => []TimeoutOwner` | `PatientEnv` |
| `PatientProofs!StopIsClean` | `Spec => []StopsCleanly` | `PatientEnv` |
| `PatientProofs!TimeoutsHitSenders` | `Spec => TimeoutHitsSender`, an action property | `PatientEnv` |
| `PatientProofs!HandlerIsQueue` | `Spec => ImplementsQueue`, the refinement | `PatientEnv` |
| `UploadProofs!FinishedFilesAreStored` | `UploadSpec => []FinishedStored` | `PunctualEnv` |
| `UploadProofs!ServerKeepsStep` | `UploadSpec => []ServerInStep` | `PunctualEnv` |
| `UploadProofs!UploadIsHandler` | `UploadSpec => Spec` | `PunctualEnv` |
| `MiniTftpProofs!EverythingIsReleased` | `Spec => []AllReleased` | |
| `MiniTftpProofs!SuccessMeansStored` | `Spec => []SuccessIsReal` | |
| `LifecycleProofs!EverythingIsReleased` | `Spec => []AllReleased` | |
| `LifecycleProofs!NothingIsMisused` | `Spec => []NoMisuse` | `NoHurry` |
| `LifecycleProofs!CodeIsUnloadedLast` | `Spec => []UnloadedAfterReturn` | `NoHurry` |
| `SlipProofs!WritesStayInBounds` | `Spec => []WritesInBounds` | |
| `SlipProofs!FramesAreDelimited` | `Spec => []FrameDelimited` | |
| `SlipProofs!BuffersAreReleased` | `Spec => []BuffersReleased` | |
| `SlipProofs!PacketsComeBack` | `Spec => []PrefixIntact` | |
| `ListingProofs!TypesAreKept` | `Spec => []TypeOK` | |
| `ListingProofs!LocksAreHeld` | `Spec => []LockHeld` | |
| `ListingProofs!ListingsAreComplete` | `Spec => []ListingComplete` | |

The hypotheses exclude what the violation runs and the notes in section 2 show
to break the property. The passing runs satisfy them.

- `PatientEnv`: no impatient clients, no failing `do_write()`, no serial errors,
  no undecodable answers. Closing files while another is on the line (`queue`),
  unmounting in quiet, unknown packets, failing sends and receives, writes of
  nothing and any answer of the server are allowed.
- `PunctualEnv`: in addition an answer arrives before its timeout or not at
  all, and `recv_tftp_packet()` does not fail. `queue` is still allowed.
  Otherwise an answer is left on the line for the next file, which takes it for
  its own.
- `NoHurry`: programs use the handler only after its start-up, as
  `cwtest.bat:14-15` does. Critical errors, failures and programs that keep the
  port are allowed.

`UploadIsHandler` is what carries the theorems about `Handler` over to the
composition: with the line and the server the handler takes no step it could
not take in `Handler`, so `FileQueue` is implemented there as well, under the
hypothesis of `HandlerIsQueue`.

The `ASSUME`s are properties of the constants in the code: sizes are positive;
a block number has a maximum; `HANDLER_DELAY + MaxLag < UNMOUNT_DELAY`; a file
that minitftp sends has fewer blocks than there are block numbers
(`NoWrapAssumption`); `NULL` is no name (`NameAssumption`).

The arguments, by the inductive invariant each needs:

*Messages.* `MsgInv` is the types of the variables involved, `MessagesOnce`
and `TimerGuardsIO`. They need each other: that a started request has no
reply in the port follows from the request having been idle, that
`netio_stop_timer()` removes a reply from the port keeps the timer paired.
Lemmas say what `Append`, `Tail` and `Unlink` do to a port without
duplicates; one lemma per action follows.

*Buffers.* `FileInv` is `TypeOK` and, as long as nothing undefined was
executed, `PacketsOK`: which packet is queued determines what the buffer list
of its file looks like. An internal packet to continue or finish a buffer
implies that there is one; while IO is in progress the file in `iopkt1`, if it
is in `S_DATA_SENT`, has one; a queued FILE_FINISHED or FILE_FAILED belongs to
a file that is not being sent, so freeing its buffers disturbs no other.
`BufferPresent` alone is not inductive because it says nothing of the packets
two steps ahead.

*Bytes of a file* (`TransferProofs`). `RecordOK` says of every file that its
buffers form a `Chain`: the first starts where the acknowledged bytes end, each
ends where the next starts, the last where the client has stopped writing. The
chain is broken for a while: `do_read_return()` counts the acknowledged bytes,
`fb_curpos` follows only when CONTINUE_BUFFER or BUFFER_FINISHED is handled. So
`HeadOK` depends on the packet in flight for the file, its `Mark`.
`FinishedAllAcked` is the chain with no buffers left, `NoBlockNumberReused` the
bound on `ftx_blknum` in every state on the way there. Impatient clients and
every failure are included.

*Clients that wait* (`PatientProofs`). `PatientOK` has four parts. `AloneOK`: a
transfer is moved along by one thing at a time, a request under way, the
internal packet queued, the one still owed, or a client that ends something; the
one exception is a file that joins the queue while both devices are at work
(`Joining`), of which nothing comes but one ACTION_SEND_NEXT_FILE. `RequestsOK`:
both requests are used together. `SenderOK`: `g_busy`, `iopkt1`, `outpkt` agree
on the file being sent, and `ftx` with them unless another file has joined since
the last frame; the timer does not expire then. `CleanOK`: an open file has not
failed. None is inductive alone: that `outpkt` may be sent (`NoUndefined`) rests
on `AloneOK`, which is kept because an ACTION_SEND_NEXT_FILE that meets a
transfer finds `g_busy` set and sends nothing, which is `SenderOK`. Every action
is then shown to be a `FileStep`: a step of `FileQueue` or none, that hits only
a sending file with a timeout.

*Handler, line and server* (`UploadProofs`). Every step of `Upload` is one of
`Handler` or leaves its variables alone, so `PatientInv` is kept. `LineOK` follows
one exchange: while it lasts there is one message on the line at most, the
frame of the file being sent or the answer to it; a frame not yet seen meets a
server that expects this very block (`Unseen`), and an answer the handler will
accept means that the block is stored (`AnswerOK`); between two exchanges the
server expects the next block; a timeout finds the line empty. `DisksOK` says
how much of each file is stored in each state. A short block in the middle of
a file ends the server's session, so `Expects` must allow for a server without
one.

*minitftp.* After the write request has been answered (`During`) the
server holds what a number of blocks make (`StoredUpTo`), every packet in the
network, repeated or late, is one of the blocks sent or an ACK of a block that
is stored, and `blknum` is at most one ahead. Distinct blocks having distinct
numbers is where `NoWrapAssumption` is needed. `AllReleased` follows from what is
held at each `pc`.

*Start-up, end and unmount* (`LifecycleProofs`). `HeldOK`: what is held at each
step of `entry()`, and in the clean-up that it is what is left of the label's
list. `QueueOK`: at most one unmount command has found the device, a message in
the port is that of a program that waits or the one ACTION_DIE, and once the
device is out of the list nobody comes to know the port who did not before
(`kept`); that, and not the order in the port, is what unmount.c:76-95 achieves.
`DelayOK` compares the two clocks: while both wait, the handler's remaining
delay and what is left of its lag are less than what unmount has left. `NodeOK`:
until start-up is over nobody has the port; code and node are gone only after
`entry()` has returned.

*SLIP.* `SlipInv` adds to the types and `WritesInBounds` that what the encoder
has written so far contains no END (`Encoded`). `WritesInBounds` needs the
loop's limit of one less than the buffer, and buffers of at least 2 bytes.
`BuffersReleased` counts the buffers held in each phase (`Owned`). For
`PrefixIntact` encoder and decoder are related by a function from the positions
of the packet to those of the frame; that such a function exists for what has
been done so far (`Way`) is the invariant, and each pass of a loop extends it.
No induction over the packet is needed.

*Listing.* `LocksOK`: the list has no address twice, and allocated ones only.
`HeldOK`: a program that has a lock has one in the list that was made for the
file it asked for, and shares it with nobody. `ListOK`: what a program
has listed so far are the files up to `fib_DiskKey`, in order.

The strengthened invariants were checked with TLC before they were proved.

Only model-checked: liveness under fairness (`TransfersEnd`, `PacketsReturned`,
`Delivered`, `Completes`, `UnmountEnds`), which is out of the prover's reach.
Every other property of a passing run is proved. The properties of the
violation runs are false. Deadlock (`Listing` never stops) is left to TLC as well.

## 5. Not modelled

- the text in a FileInfoBlock: its length byte, `strlen() % 108 - 1`
  (`dos.c:284`), is 255 for a name of 108 characters, where the comment says at
  most 106; that takes no model to see;
- header contents and `calc_checksum()`, whose input hardly varies; frames
  shorter than their headers (`netio.c:347`), for which the code makes no
  provision;
- the memory of a frame freed while its write is in progress (`netio.c:493`);
- what the decoder makes of the bytes behind an escaped frame (`netio.c:187`):
  `SlipCodec` has it read any byte there and reject the frame if that is an
  ESC; no property claims that a frame is accepted;
- `unmount list`, which prints the list of devices;
- `slip.c`, an earlier stand-alone version of the encoder that sends one fixed
  packet; `serecho.c` and `serecho.py`, a pair of programs that try out the
  pattern of requests and timer that `netio.c` uses; `logtest.c`, `cwcrt0.c` and
  logging, which keep no state.

## 6. Plan

1. *done* `Handler`: transfers, messages, timeouts, failures; messages, types
   and buffers proved.
2. *done* `SlipCodec`, `Listing`; bounds and framing proved.
3. *done* `FileQueue` and the refinement, checked by TLC.
4. *done* `TftpServer`, `Upload`, `MiniTftp`: what has arrived at the server.
5. *done* `Lifecycle`: start-up, its failures, unmount, the two delays.
6. *done* Proofs of every safety property of the passing runs and of the
   refinement, see section 4.
7. Weaker hypotheses where the code allows them: which of the properties of
   `PatientProofs` survive a failing `do_write()` (`write` in `Env`), and what the
   server still holds of a finished file when `recv_tftp_packet()` fails.
8. `Delivered` for files closed while another is on the line: `Upload` with `queue`,
   where a loss has to be excluded in the exchange that is joined.
