# A TLA+ model of edcl_server

edcl_server drives the SD card, LEDs, keyboard and screen of a RISC-V board
from a program on a PC.  The PC reaches the board's memory through the EDCL unit
of its Ethernet controller; a small processor on the board, the *minion*,
performs register operations it finds in that memory.  This directory holds TLA+
modules of the parts that do this, configurations for TLC, and proofs for TLAPS.

    tlc -workers 2 -config queue_ack.cfg MCCommandQueue
    tlapm CommandQueueProofs.tla

`PROJECT.json` lists the runs, which definition models which lines, a faulty
variant of the code for every property (operators named `..._bug`), the findings
and the hazards.

## The system

    selftest  : shell -> FatFs -> disk layer -> SD transactions -> command queue
                (minion_lib.c) -> client -> UDP on this machine -> server
    tester    : server (serve.c) -> command queue or EDCL transport -> UDP -> board
    selftest2 : shell -> ... -> command queue (queue.c) -> EDCL transport -> UDP -> board

| Component | State | Operations | Talks to | What is hard |
|---|---|---|---|---|
| Command queue, `queue.c` (and its copy in `minion_lib.c`) | `edcl_trans`, `edcl_cnt`; shared memory: slots and a doorbell | `queue_flush`, `queue_write`, `queue_read`, `queue_read_array`, `queue_block_read1` | minion, by shared memory; transport or client, by call | host and minion interleave exchange by exchange; a doorbell that may be stale; slot arithmetic at the limit; results nobody checks |
| EDCL transport, `edcl.cpp`, `udp.cpp` | `seq_cnt_`, the socket | `EdclService_read`, `EdclService_write` | the board's EDCL unit, by datagrams | lost, repeated and late answers; restart with an unknown counter; a blocking `recvfrom` |
| SD transactions, `minion_helper.c` | `card_status`, `minion_iobuf`, emulated SDHCI registers | `sd_read_sector`, `sd_transaction_v` | controller registers, through the queue | phases that time out while they are polled; attempts within attempts; a FIFO with old words |
| Card initialisation, `minion_helper.c`, `selftest.c` | `rca`, bus width; the card's own state | `init_sd`, `old_init2` | the card, command by command | nobody looks at what a command returns; retries that take no response in; a card left anywhere by an earlier script |
| Disk layer, `diskio.c` | `Stat`, `CardType` | `disk_initialize/status/read/write/ioctl` | FatFs above, SD transactions below | failures in the middle of several sectors; a card that comes and goes |
| FatFs, `ff.c` | `FatFs[0]`, `Fsid`, the volume's window, `FIL`, `DIR` | `f_mount`, `f_open`, `f_read`, `f_lseek`, `f_close`, `f_opendir`, `f_readdir`, `f_closedir` | disk layer | a sector that was not read looks like one that was; entries across two sectors; damaged chains; handles older than the mount |
| Console, `uart.c`, `mygets` of `selftest.c` | terminal, keyboard FIFO, `linbuf` | `uart_recv`, `mygets` | queue | polling two sources; a value that is not initialised |
| Self-test shell, `selftest.c` | `mounted`, the line | one-letter commands | everything above | commands in an order nobody tried, while cards are exchanged |
| Client and server, `client.c`, `serve.c` | a socket each | requests `r`, `w`, `R`, `W` | each other, by datagrams | several clients; answers nobody waits for; full sockets |
| ELF loader, `stub_main.c`, C library, MD5, Linux headers, SPI | | | | unused or third-party |

What makes each part correct:

- *Queue.* The caller may think of a bus that performs its operations one at a
  time in order and gives back what the devices gave.  For this host and minion
  must never work on the slots at the same time, and the queue must never run
  into the doorbell.
- *Transport.* A transfer moves each byte once, from the first to the last, and
  reports as many as it moved.  After it the two counters agree.
- *SD transactions.* A read gives the sector asked for or fails; either way the
  controller is stopped.
- *Card initialisation.* A script leaves the card selected, whatever was lost on
  the way, as long as the card heard CMD0 and the host the card's address.
- *Disk layer.* Sectors land at their place in the buffer; a failure is reported.
- *FatFs.* Files are found and read as they lie on the card, directories listed
  entry by entry; whatever is on the card no call is endless and none asks for a
  sector outside the volume.
- *Console.* A line is what was typed at the terminal.
- *Shell.* A file's bytes come from the card that was mounted; whatever was done
  before, mounting finds the card in the slot.
- *Client and server.* Each program sees a memory with posted writes.

## Modules

| Module | What it is | Source |
|---|---|---|
| `RegisterBus` | what the queue promises | |
| `CommandQueue` | the queue and the minion | `queue.c`, exchanges from `edcl.cpp` |
| `MCCommandQueue` | the refinement of `RegisterBus`, a bound | |
| `CommandQueueProofs` | theorems about `CommandQueue`: bounds, turns, what is performed and returned; the proof that it implements `RegisterBus` | |
| `RemoteMemory` | what the transport promises | |
| `EdclTransport` | transport, network, EDCL unit | `edcl.cpp`, `udp.cpp`, `edcl_types.h` |
| `MCEdclTransport` | the refinement of `RemoteMemory` | |
| `EdclTransportProofs` | theorems about `EdclTransport`; the proof that it implements `RemoteMemory` | |
| `SectorReader` | what `sd_read_sector` promises | |
| `SdTransaction` | reading a sector, and the controller | `minion_helper.c` |
| `MCSdTransaction` | the refinement of `SectorReader` | |
| `SdTransactionProofs` | theorems about `SdTransaction`, the refinement among them | |
| `CardInit` | the scripts that bring the card up, and the card | `minion_helper.c`, `selftest.c` |
| `DiskIo` | the disk layer, over sectors that are read or not | `diskio.c`, `diskio.h` |
| `DiskIoProofs` | theorems about `DiskIo` | |
| `FatFormat` | which files lie on a card: the format, not the code | |
| `FatVolume` | FatFs as the program uses it, sector by sector | `ff.c`, `selftest.c` |
| `MCFatVolume` | six cards | |
| `FatVolumeProofs` | theorems about `FatVolume`: types, sectors, the length of a call | |
| `FatReadProofs` | theorems about what its calls give: bytes, names, listings | |
| `Console` | terminal, keyboard, a line | `uart.c`, `selftest.c` |
| `Shell` | `Console`, `CardInit` and `DiskIo` under the commands | `selftest.c`, `ff.c` |
| `MCShell` | its cards are alike | |
| `ShellProofs` | theorems about `Shell`, `Console`, `CardInit` and the disk layer in them | |
| `BufferedMemory` | what client and server promise | |
| `ClientServer` | clients, server and sockets | `client.c`, `serve.c`, `minion_lib.c` |
| `MCClientServer` | the refinement of `BufferedMemory` | |
| `ClientServerProofs` | theorems about `ClientServer`; the proof that it implements `BufferedMemory` | |

The layers meet at their promises: `SdTransaction` assumes of the registers what
`RegisterBus` says, `DiskIo` of `sd_read_sector` what `SectorReader` says, and
`CommandQueue` of an exchange what `RemoteMemory` says of a transfer of one
datagram.  `FatVolume` assumes of `disk_read` what the run of `DiskIo` shows: it
says `RES_OK` also of a sector that was not read.  `Shell` takes the actions of
`Console`, `CardInit` and `DiskIo` by `INSTANCE` and puts its commands over them.

### State and actions

*CommandQueue.*  `edcl_trans` and `edcl_cnt` are the statics of queue.c; `tmp`,
`flushed` (what `queue_flush` returned), `pos` (how far a transfer is), `tmpbuf`
and `result` are its locals.  `pc` says which exchange is next.  A call begins
with `QueueFlush`, `QueueWrite`, `QueueRead`, `QueueReadArray` or
`QueueBlockRead1`, which do all there is to do before the first exchange; each
further action is one exchange of at most `ChunkSlots` slots together with the
local code up to the next one, because the minion can run between exchanges and
nowhere else.  `ok` tells whether the exchange succeeds; one that fails may or may
not have reached the board, and the code goes on as it does.  `tmp.ptr` and
`tmp.mode` of `queue_flush` are not initialised and any value is tried.
`todo` and `got` are history variables: operations no device has seen yet, and
the values devices gave for the call in progress.

The minion's firmware is not in the repository.  It is modelled from what the
queue relies on: it starts when the doorbell is up and slot 0 holds a pointer,
performs the slots in order to the first that is no operation, clears slot 0's
pointer, and ends a block read with the count in slot 0's mode.  Whether it takes
the doorbell down when it starts (`Acks`) cannot be known; both are checked.

*EdclTransport.*  `done` is `rd_bytes` or `wr_bytes`.  `SendData` and `Answered`
are the two halves of the loop in `EdclService_read` and `EdclService_write`.
`RecvError` is a `recvfrom` that a signal interrupts.  `HostRestart` opens a
socket with another port and starts from number 0.  The board answers a request
that has the number it expects and refuses others with that number.

*SdTransaction.*  `Setup` is `sd_transaction_finish` to the drain of the FIFO;
`Start`, `CmdPoll`, `CmdCheck`, `DataPoll`, `Retry` and `Finish` are
`sd_transaction_finish2`; `AfterLen` and `AfterRead` continue `sd_read_sector1`
and `sd_read_sector`.  `CmdEnds` and `DataEnds` are the controller.

*CardInit.*  `init_sd` and `old_init2` are sequences of entries: commands and
changes of the bus width.  A step is one entry or one attempt of a command
(`heard` and `answered` say what got through); `Again` and `LastAttempt` are the
conditions of the loops around ACMD41 and around the attempts.  The card is the part of
the SD protocol the scripts rely on: which command is legal in which state, and
what it answers.  Any of `Rcas` may be the address it publishes.

*DiskIo.*  `Stat & STA_NOINIT` is `noinit`.  A step of `disk_read` is one sector.

*FatVolume.*  A step is one sector asked of the disk layer with the code up to the
next one; `pc` names the function that asks.  `CheckFs` and `FsInfo` are
`find_volume` and `check_fs`; `Follow` and `Find` are `follow_path` and `dir_find`;
`Entry` is `dir_read` under `f_readdir`; `GetFat` is `get_fat` on behalf of the
function that called it; `Read`, `Data`, `Seek` and `Fill` are the loops of
`f_read` and `f_lseek`.  A sector comes, is *missed* (the buffer stays as it is and
the disk layer says `RES_OK`), or is an *error*.  A buffer is named by the card and the
sector that were last read into it, so that the model knows whose bytes are taken
for a boot record, a FAT or a directory.  `FatFormat` says independently of the
code which file a path names and which bytes are in it; the properties compare the two.
It follows chains of clusters and places of entries by number, so it says what lies in
a damaged volume too; `dirs` is not empty where the volume is known to be sound
(`IsSound`), and TLC evaluates that it is (`SoundAssumption`).

*Console.*  A step is one look at the terminal or the keyboard in `uart_recv` with
the part of `mygets` that follows.  `junk` is what the uninitialised bytes of `ch` held.

*Shell.*  `spc` says where `minion_dispatch` is.  `fs_type` and `win` are the file
system object: the card it describes, and the card its window was read from.  One
sector stands for those `find_volume` reads and one `disk_read` for those of a
file, as `FatVolume` has all of them.

*ClientServer.*  `ClientTakes` is one `read` of the loop in `client_read` and
`simple_read`; a write sends and returns.  `client_main` sends three writes and a
read and is the longest run of calls between two reads of a program that has
just started; `Burst` bounds it in general.

## Runs

| Run | Question | Instance |
|---|---|---|
| `queue_ack` | is the queue a register bus, with block reads and a minion that takes the doorbell down, and does every call return? | queue of 4 slots, 2 registers of 2 values, arrays of 2, blocks of up to 2 of which 0, 1 or 2 are wanted, exchanges of 1 slot |
| `queue_faults` | which bounds survive failed exchanges and restarts, with a minion that looks at the level of the doorbell only? | queue of 5 slots, 1 failure or restart at any step, no block reads |
| `edcl_safe` | counters, bytes and return of the call under loss, repetition, failed socket calls, restarts | 2 bytes, payload 1, 3 numbers, any two of these faults |
| `edcl_promise` | is the ACK that is taken the right one, and a transfer moved once and in order? | 3 bytes, payload 2, 2 repeated requests |
| `sd_read` | does a read give the sector, or fail, or print that words were missing; does it stop the controller, and return? | 2 sectors, polls cut off after 2 |
| `fat_read` | are files found and read, directories listed, is every call finite and inside the volume? | 6 cards, sectors of 4 bytes, 2 mounts, a sector missed or in error or the card exchanged once, at any step |
| `shell` | does mounting find the card, do a file's bytes come from the mounted card, does a line survive keys? | 2 cards, 2 addresses, lines of 2, a card that answers busy once, 2 commands or responses lost in a script, sectors missed and restarts without a bound |
| `server_shared` | what do two clients that restart see, and do their reads return? | 2 calls between reads, sockets of 3 datagrams |
| `edcl_send_error`, `console_return`, `disk_read_error`, `disk_no_card` | disagreements of the code with its own texts, below | |

*Why the bounds are enough.*  The queue's behaviour at its limit needs a queue
that a few writes fill, so 4 or 5 slots (3 operations and the terminator) replace
256.  Exchanges of 2 slots in `queue_faults`, as in the code, make a copy of the queue
take several, the last one shorter; exchanges of 1 slot in `queue_ack` also cut the
data of a block of two in two.
Two values tell one read's value from another's; two registers tell operations
apart.  The proofs cover all sizes.  `HistoryBound` in `queue_faults` cuts runs in
which the minion started too early and leaves operations undone for ever.
`queue_faults` has one register, as a second one adds nothing to turns and bounds
and many states.
Sequence numbers are taken modulo 3 so that they wrap within a few transfers.
`MaxFaults = 2` in `edcl_safe` lets every pair of faults happen, a repeated
request twice included.  A transfer of three bytes and a payload of two has a full and a short
request.  The cards of `fat_read` are the smallest that have what can go wrong in
each FAT type: FAT12 with an entry across two sectors and a full root directory;
FAT16 behind another partition, with a file that ends inside a sector and a directory over two clusters whose entries
use up the indices (`IndexLimit` is 8 there, 65536 in the code); FAT32 with a root
of two clusters out of order and a file that ends with its cluster; the same with
a circular directory and chains that leave the volume or end in a free cluster;
a boot record without a root; and a file of 11 sectors in a cluster of 16.  A cluster has
1 to 128 sectors, any power of two (`ClusterSizes`), in model and proofs as in the code.  The bytes of a sector that is not one of the FAT may
be taken for any of `Values` (a free cluster, a good one, one beyond all), and
those of one that is not a directory's for any of `Strays` (an end, a file); `Bad` is
99 there and 0xFFFFFFFF in the code.  Two mounts and one exchange make every handle
and buffer outlive the volume they belong to.  In `shell` two losses are one less than
`Attempts`, the most `InitSelects` speaks of; two cards, which are alike
(`SYMMETRY`), are enough for a wrong one; lines are of one letter and a return.
Two clients and two calls between reads are the least with an
interleaving.

*Deadlock* is not checked in `fat_read`, where the cards and mounts are used up; in
`shell` and `console_return`, where a line that is too long ends the program; in `edcl_safe`, because a lost datagram leaves the host
in `recvfrom` for ever; in `sd_read`, because the loop that waits for data may wait for a phase nobody started; and in
`server_shared`, because a dropped request leaves its client waiting.

*Fairness.*  Host loops never block on anything but an answer, so weak fairness
of the host's next step is what the scheduler gives.  The minion, the EDCL unit,
the controller and the server are loops that do nothing else.  Fairness of
`NoReceiver` says only that a datagram for a closed port does not block the
others.  What the data-done bit reads when no data phase was started is not
written down; the variable `idleDone` is either.  After a command that timed out
the code waits for that bit, and with a bit that reads 0 it would never leave its
loop, so `ReadReturns` of `SdTransaction` is stated for a bit that reads 1.

### What the runs show

The queue's promise rests on three details: the pointer kept in slot 0 so that
the poll can end only with the minion's own answer, the terminator, and the
doorbell that `queue_flush` takes down.  `queue_block_read1` does not, so with a
minion that watches the level of the bell the queue after a block read is not
safe; that is why `NoConcurrentAccess` is stated for a minion that takes the bell
down or for programs that read no block.

The transport does not compare an answer's number with the request's.  That is
harmless as long as each answer comes once and no call gave up waiting:
the number in a late NAK is corrected by the next one.  Under these conditions
(`Clean`) everything holds, with repeated requests and restarts; without them the
code takes wrong answers and nothing is claimed.

In `sd_read` a block with the wrong number of words is reported on the terminal and
returned as read; `SectorReader` promises no more than that.

`init_sd` looks at no result, and still leaves the card selected when any two
commands or responses are lost, but for two: CMD0, without which a card stays
where an earlier script left it, and the answer to CMD3, which the second and the third
attempt do not take in (`InitSelects`).

Because `disk_read` reports no failure, FatFs cannot know that its window is old.
In `fat_read` what it reads after a missed sector may be anything, and only
`AsksInsideVolume` and `NoEndlessCall` are claimed of it; in `shell` a mount whose boot
sector was missed can take the record of the card before for the new card's, which
`MountFindsCard` and `ReadsOwnVolume` therefore except.

### Findings

1. `edcl_send_error`: `UdpService_sendData` returns 1 when `sendto` fails
   (`udp.cpp:146`), its callers look for -1 (`edcl.cpp:64`, `:134`) and wait for
   an answer instead of reporting "Data sending error".
2. `console_return`: `uart_getchar` reads one byte into an `int` that is not
   initialised (`uart.c:49-52`), so whether a carriage return is seen as one, and
   ends the line as the comment at `uart.c:131` says, depends on the stack.
3. `disk_read_error`: `disk_read` returns `RES_OK` whatever `sd_read_sector`
   returns (`diskio.c:145`, `:151`).
4. `disk_no_card`: `disk_initialize` ignores `init_sd`, which fails for an empty
   slot, and clears `STA_NOINIT` (`diskio.c:94-101`).

## Proofs

In `CommandQueueProofs`, for every size of queue, exchange, register set, array and
block, under `QueueAssumption` (at least 4 slots, arrays of at most `EdclMax - 2` reads, blocks
that fit below the doorbell):

| Theorem | Statement |
|---|---|
| `TypeCorrect` | `Spec => []TypeOK` |
| `DoorbellSafe` | `Spec => []QueueBelowDoorbell` |
| `MutualExclusion` | `Spec => []NoConcurrentAccess`, if `Acks` or no block is read |
| `BellDown` | `Spec => []BellLeftOnlyByBlockRead` |
| `InOrder` | `Spec => []InOrderExactlyOnce`, if `Acks` or no block is read |
| `NothingOwed` | `Spec => []AllPerformedAtReturn`, under the same condition |
| `ReadsReturn` | `Spec => ReadsReturnDeviceValues`, under the same condition |
| `QueueRefines` | `Spec => ImplementsRegisterBus`, under the same condition and if `MaxFaults = 0` |

`TypeOK` is not inductive: whether a slot number stays below `EdclMax` depends on
where the host is and on how long the queue is then.  `TypeInv` adds `Bounds`,
which says so for each value of `pc`: an idle host has room for an operation and
the terminator, a flush in progress has a terminated queue, and after it
`flushed` is long enough for the slots the caller reads back.  Each action has a
lemma that it preserves `TypeInv`.

`NoConcurrentAccess` needs to know why the minion does not start while the host
writes, and why the host does not stop polling while the minion runs.  `TurnsInv`
says it: the doorbell is up only from the ring to the end of the poll, a running
minion has slot 0's pointer still to clear, and a minion that takes the doorbell
down finds it down.  It uses `DoorbellSafe`, since a queue copied over the
doorbell would ring it.  `BellDown` has an invariant of its own that is true of
any minion, because a minion never puts the doorbell up.

What the devices see depends on three copies of the queue: the slots of
`edcl_trans`, the slots in the shared memory, and what the minion has done of
them.  `OrderInv` ties them to the history variables: `HostQueue` says
what lies in `edcl_trans` (slot 0 kept for the handshake once there was a flush,
then writes, then the reads of the call, then the terminator), `Order` says how
much of it has been copied and performed.  While the host copies, `todo` is the
slice of `edcl_trans` from the caller's first slot to the terminator and the first `pos`
slots of the shared memory are its copy; while the minion runs, `todo` is the
slice from its position, the slots from there on are still a copy, and `got` is
what lies in the slots of the call's reads before it; after that `todo` is empty
and `got` is what the host finds when it copies those slots back.  A block read has its own
part (`BlockOrder`): the words the FIFO gave lie in slots 1, 2, ..., and those copied so
far are the first of them, so what `queue_block_read1` returns is too
(`ReadsReturn`).  None of this would be inductive without `TurnsInv`: a minion
that runs while the host copies may read a slot twice or not at all.  The steps
are lemmas on slices of the queue (a slice's tail, its extension by one slot,
slices of two queues that agree) and one lemma for each action.

`QueueRefines` maps `pending` to `todo`.  The start of a call issues its
operations, a step of the minion performs the head of them, the last step of a
call completes it, and every other exchange is a stutter.  It adds no invariant,
only what each step does to the visible part of the state.  `TypeInv`, `TurnsInv` and
`OrderInv` were model-checked before they were proved.

For every memory, payload, range of numbers and every bound on faults, under
`TransportAssumption` (in `EdclTransportProofs`):

| Theorem | Statement |
|---|---|
| `EdclTypeOK` | `Spec => []TypeOK` |
| `EdclCountersAgree` | `Spec => []CountersAgree` |
| `EdclAckAnswersRequest` | `Spec => []AckAnswersRequest` |
| `EdclReadFitsBuffer` | `Spec => []ReadFitsBuffer` |
| `EdclReturnedBytesAreThere` | `Spec => []ReturnedBytesAreThere` |
| `EdclRefines` | `Spec => ImplementsRemoteMemory`, if `NoLoss` |

These are about what `edcl_read` takes on trust, and follow from one invariant,
`IInv`: the types, where transfers lie (`Shape`), and, while no answer was repeated
and no receive failed (`Clean`), `Good`.  The argument: requests of earlier runs are ahead of this
run's (`InOrder`).  While the board does not expect the host's number, every request of
this run carries that number; while it does, the requests that carry it
are the last and ask for what the call is at (`RequestsAgree`).  So the board
accepts one of them at most, there is at most one ACK on its way, and a NAK
before it carries the host's own number and changes nothing (`TheAnswers`).
`AckTrue` and `MovedRight` carry the bytes along.  There is a lemma for each
action, and one for the types and one for `Good` where both change.

`EdclRefines` maps what has been moved to `done`, and to `done + ReqLen` from the
board's ACK until the host takes it.  The board's acceptance of a request is then
the step `Move`, the start of a call is `Begin`, and every other step is none:
taking the ACK counts what has been counted before.  `NoLoss` rules out lost datagrams,
repeated answers, failed receives and restarts; repeated requests and
failed sends are allowed in any number, and the two sides may start from any
numbers.  A lost ACK makes the claim false: the board has moved the bytes and will
not move them again, and the call never ends.

For every set of sectors and limit of the polls, under `SdAssumption` (in
`SdTransactionProofs`), and for every card and number of sectors, under
`DiskAssumption` (in `DiskIoProofs`):

| Theorem | Statement |
|---|---|
| `SdTypeOK` | `Spec => []TypeOK` |
| `SdStopped` | `Spec => []StoppedBetweenCalls` |
| `SdRefines` | `Spec => ImplementsSectorReader` |
| `DiskTypeOK` | `Spec => []TypeOK` |
| `DiskSectorsInPlace` | `Spec => []SectorsInPlace` |

`SdRefines` is a refinement: initial states map to initial states, and each step
to a step of `SectorReader` or to none.  The invariant behind it says that during a call the
controller and the FIFO hold nothing of another sector (`ThisSector`), since the
setup drains the FIFO after the controller was stopped, and that an attempt which has not failed ends with
the block or has reported it (`GoodSoFar`).  `SectorsInPlace` needs that `sector`, `count` and the buffer
move together (`InStep`) and that an initialised drive is addressed by blocks
(`ByBlocks`).  The theorem is of `DiskIo` alone, with any writes and controls between the reads;
`SectorsArePlaced` below states the same of the disk layer in the composition.

For every set of cards, addresses and characters, every length of line and count
of sectors and every bound on losses, under `ShellAssumption` and the assumptions
of the parts (in `ShellProofs`):

| Theorem | Statement |
|---|---|
| `ShellTypeOK` | `Spec => []TypeOK` |
| `LineIsTyped` | `Spec => []LineIsWhatTerminalSent` |
| `SectorsArePlaced` | `Spec => []SectorsInPlace` |
| `CardIsSelected` | `Spec => []InitSelects`, if `Busy <= Polls` |
| `MountIsRight` | `Spec => MountFindsCard`, if `Busy <= Polls` |
| `VolumeIsOwn` | `Spec => ReadsOwnVolume` |

`ShellInv` is the conjunction of an invariant for each part and two that tie the
parts together.  `CardInv` has the card's types.  `ConInv` says that what the terminal
has not handed out is the tail of what was typed, and that `linbuf` holds the rest
of it: the characters taken lie at increasing places of `typed`, each of which
was handed out.  `DiskInv` is the invariant of `DiskIoProofs` with `card.in` for
`card`; its lemmas are taken by `INSTANCE`, so that each action of the disk layer is
proved once.  `Kinds` and `Where` say that what console, card and disk layer are doing
is what the shell is waiting for: while a line is read no script and no sector is
under way, and a part that has ended leaves the shell to go on.  `Owner` says that
a card that was just put in is idle and answers no read, and that only the commands
which initialise it wake it; `ReadsOwnVolume` follows.

`Progress` says for each entry of `init_sd` in what state the card is.
A command that no attempt got through has cost as many losses as there were attempts, so with
fewer losses than `Attempts` one of them was heard.  The loop around ACMD41 could be left too
early on a response of an earlier script; to keep that one takes two losses, and a
third to hide the card's own answer.  The hypothesis `Busy <= Polls` says that the
card is powered up before that loop gives up; a card that takes longer is left
uninitialised by the code too.  `ShellInv` and `Progress` were model-checked on
the instance of `shell` before they were proved.

For any clients, cells, values, sizes of sockets, calls between reads and numbers of
restarts, under `ServerAssumption` (in `ClientServerProofs`):

| Theorem | Statement |
|---|---|
| `ServerTypeOK` | `Spec => []TypeOK` |
| `AnswersBounded` | `Spec => []AnswersDoNotPileUp` |
| `ServerRefines` | `Spec => ImplementsBufferedMemory` |

`IInv` adds to the claim about the number of answers (`Pending`) that the requests of an earlier run
of a program carry a smaller run number (`Sockets`), and that the read a
program waits for is the last of its requests in the server's socket, whichever run sent
them, and its answer the last datagram in the program's own (`Reading`).  The second
part is why a read is answered after all earlier writes, and why what `client_read`
throws away before the data is never data.  No theorem asks how large the sockets are:
a dropped write was never posted, and a dropped read or answer gives no wrong
value, but no value at all; that is `ReadReturns`, which only TLC checks.

The refinement maps the posted writes to those in the server's socket (`WritesOf`),
and the answer to the data in the program's (`DataFor`).  Sending a write is `Write` if there was
room and no step otherwise; serving one is `TakeEffect`, serving the read of a run that
goes on is `Sample`, serving anything else is no step.  `WritesOf` is a sequence of the
positions of the writes, so most of the proof is about positions: the k-th smallest
member of a set of numbers (`Nth`), what it becomes when the largest number is added
and when all move down by one, and how many there are.

For every set of cards, paths, lengths and offsets, every size of sector and limit of a
directory's index and every bound on faults and mounts, under `FormatAssumption`,
`CardsAssumption`, `SoundAssumption` and `VolumeAssumption` (the first three theorems in
`FatVolumeProofs`, the others in `FatReadProofs`):

| Theorem | Statement |
|---|---|
| `VolumeTypeOK` | `Spec => []TypeOK` |
| `NeverAsksOutside` | `Spec => []AsksInsideVolume` |
| `EveryCallIsFinite` | `Spec => []NoEndlessCall` |
| `ReadsTheFile` | `Spec => []ReadGivesFile` |
| `ListsTheDirectory` | `Spec => []ListsEachOnce` |
| `FindsThePath` | `Spec => []FindsWhatIsThere` |

`CardsAssumption` says of a card only that its numbers are unsigned and that a FAT entry
is not `Bad`, which its 28 bits cannot say: its FAT may be
circular or point anywhere, its directory entries too, and its boot record may be any.
`SoundAssumption` says only what a card with `dirs` is; cards without are as good, and
only the two clauses of `FindsWhatIsThere` that promise success speak of those with.
Numbers are not cut to 32 bits, so a boot record whose sums of sectors exceed 2^32 (which
`find_volume` adds without looking) is outside the theorems.

`IInv` has a part for each thing that keeps the sectors in the volume.  `VolumeOK`: the
tests of `find_volume` leave a volume whose FAT has a place for every cluster before the
data begins, and whose root directory does too (`Geometry`).  A step
from the mount to the end of a call sees one volume, because `fs.id` is `Fsid` except
while FSInfo is read.  `Directories`: the sector of a directory that is being read
is a function of its cluster and its index (`At`), so what `dir_next` adds to `sect`
and to `index` stays together; a `DIR` that is idle is held to it only while
`validate` would let it pass, since a mount in between may have changed what its
numbers mean.  `Within`: what `f_read` and `f_lseek` have to go lies in the file.
The cluster of a `FIL` is not held to anything here: `clust2sect` and `get_fat` test it
on each use, also after a wrong value was taken from a sector that was missed.

`Counted` gives each step of a call a budget: three steps for each index a directory walk
has passed (an entry and two sectors of a FAT12 entry), 3 * `IndexLimit` for each name
that was followed, four steps for each byte that was read and three for each byte `f_lseek` has
skipped.  Each step of the walk raises the index or lowers what is left by at
least one, and that is all that bounds a circular chain.

None of this says whose bytes a call returns.  `FatReadProofs` adds an invariant that
ties what `ff.c` holds to the card of the last mount, as long as no sector was missed;
it is inductive over the states of `IInv`.

- `MountOK`: the fields of the volume are those of that card (`Describes`), and the
  window holds the sector that `winsect` says.  A card that was exchanged does not
  answer before it is initialised, and the next mount begins with a window that is
  not valid; so a buffer is never that of the card before.  While
  `find_volume` goes through the partition table, the partition of a sound volume is
  still ahead, unless a sector failed.
- `OpenOK`: which handle a step may touch, and that no `FIL` has the number of a mount
  still to come, so one that `validate` lets pass was opened in this mount.
- `SearchOK`: `follow_path` is in the directory to which the names before it lead, the
  sector and cluster of its `DIR` are those of its index (`Stands`: where the
  directory keeps that entry, not only inside the volume), and no entry before is the
  one it looks for.  With the end of the directory this gives that the name is not
  there, and with a match that it is the first.
- `ListOK`: the names shown are those of the files and directories before the index
  (`ListedTo`).  The place of a name in the listing is a cardinality, so these lemmas
  count the members of a set before and after an entry is added.
- `FileOK`: the `FIL` is that of the file; `Positioned` says for each step where it is
  (between calls its cluster is that of the byte *before* the pointer, which is why a
  read at the end of a cluster must follow the chain, and in `f_lseek` the pointer is
  ahead of the cluster until `Fill`); its buffer is the sector of the pointer
  (`InPlace`); what `f_read` has given is the file's from where it began (`Given`).
- `FatOK`: the first half of a FAT12 entry is that of the entry `get_fat` is asked for.

`Truth` is the conjunction of the last four with the three properties, and has one lemma
for each step of the code (`FindTruth`, `DataTruth`, `FillTruth`, ...).  A step in which
a sector is missed needs none (`MissedThen`).  The bytes are arithmetic: byte `p` of a file lies in
sector `p \div SS`, and that one in cluster `p \div (csize * SS)`, so the lemmas on
division say how the quotients move when `f_read` or `f_lseek` goes on by sectors or by
clusters.  That a sound volume always opens needs that its chains have no
value below 2 before they end and that its boot record passes the tests of
`find_volume`.  `Chain` and `Places` are recursive functions; the lemmas `Least`,
`Induction` and `Iterate` derive from the well-foundedness of `<` that such a
function exists and is what its definition says, at each number (`ChainDef`).

The parts of `IInv` and of the second invariant were model-checked with the cards of
`fat_read` before they were proved.

Only model-checked is liveness (`CallReturns` of the queue and of the transport,
`ReadReturns` of `SdTransaction` and `ClientServer`): this version of TLAPS has no
rules for `ENABLED`, and so none for fairness.  Every invariant, every action property and every
refinement that a passing run checks is proved, under the conditions in the tables.

## Not modelled, and why

- `edcl_bootstrap` and `stub_main.c`: no program that the Makefiles build uses
  them, and what the mode means is up to the firmware.
- `sd_transaction_v` and the commands s, c, C and t over it: they give the controller what the
  user types.  The write of a block: `disk_write` ends in a stub, so nothing gets
  there.  `sdhci_read` and `sdhci_write`: registers that hold what was put there.
- The commands that print or pass a number on, and `prepare` (P): it reads two
  files as f does, checks a sum, and writes to memory that exists on the board
  only.  That its file fits the 16 MB buffer is up to the user (the one hazard
  without a property).
- `minion_console_putchar`: its only call is commented out.
- What `ff.c` has for writing (`f_write`, `f_unlink`, `f_mkdir`, `create_chain`, ...),
  `f_chdir`, `f_stat`, `f_getfree`, labels: nothing calls them.  `create_name`: how
  a name is put in 8.3 form and compared is data.
- `load_elf`: nothing calls it.
- A card with two volumes: a card of the model has one, in whichever partition, so that
  an unreadable partition makes `find_volume` mount another (`ff.c:2292`) cannot show.
- A minion that watches the level of the doorbell, for programs that read blocks.
- Datagrams that overtake each other: the board is on the same segment.
- Two programs with a queue each at once: the protocol has no means against it.
- `log_edcl_*` and `queue_flush_cond`: called by `serve.c`, not in the repository.
  The rule for `tester` links no queue either, so how the server's `R` and `W`
  requests and its `r` and `w` requests share the link is not modelled.
- `string/`, `bits/`, MD5, `mini-printf.c`, the Linux headers, SPI, `encoding.h`: third-party or
  unused.  They are most of the lines of the repository: what is modelled here is
  nearly all of the program's own code that is built and called.

## Plan

1. *Wider.*  A composition of `SdTransaction` with a queue of operations in place
   of direct register access; of `FatVolume` with `DiskIo`; `prepare` with its buffer.
2. *Deeper.*  The safety part is proved throughout.  An abstract file system (a path
   names a sequence of bytes) of which `FatVolume` on a sound volume is an
   implementation would say in one formula what its three properties say now.
