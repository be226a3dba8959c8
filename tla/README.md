# post_test_tool: a TLA+ model

post_test_tool is the power-on and aging test of a Tilera board: shell scripts
that run small C programs, each of which exercises one device and reports
success or failure.  This directory models the parts of it whose correctness
depends on order, concurrency, loss and limits, checks the models with TLC, and
proves the safety properties for every size with TLAPS.

Paths below are relative to `src/post_test_tool/`.

## 1. Inventory

| Part | State | Operations | Talks to |
|---|---|---|---|
| packet pool, `clib-src/mpipe_mutual/pool_manager.c` | ring of free packet buffers: positions, count | `init_pool`, `get_buf`, `free_buf` | called by the worker that owns it, without a lock |
| session queue, `manager_queue.c` | ring of packets sent and not yet read back | `push_session_buf`, `pop_session_buf` | the same worker |
| packet generator, `packet_generator.c` | per worker: pool, queue, counters; shared: `finish_counter`, `exit_noti_flag` | fill once, then batches: send all, read all back and compare | the network chip through `mpipe.c` |
| mPIPE access, `mpipe.c` | `mpipe_common_t`: links, one notification ring, group and set of buckets per worker, one egress queue, one stack of buffers, rules | `init_mpipe_config`, `init_mpipe_resource`, then `mpipe_send_packet` | chip (external) |
| process, `mpipe_mutual.c`, `packet_generator.c` | threads, barrier, lock, exit status | start threads, sum counters each second, verdict, SIGINT handler | the scripts read the status and the word SUCCESSED |
| configuration, `mpipe_mutual.c`, `config.c` | `config_t` from malloc | scan for `--config`, read the file, go through the options | everything above; each worker gets a copy |
| headers and checksums, `packet_generator.c`, `checksum.c` | the addresses and ports of a worker's copy of `config_t` | `generator_udp_packet`, `pop_iplayer_udp`, `ip_xsum` | fills the packets that the data path sends |
| packet printing, `parse.c` | none | prints a packet | nobody calls it |
| `clib-src/mutual_aging` | two boards: handshake, then one sends and one counts | main in mode 1 and 0, `mpsock_*` | the other board, over a cable |
| `clib-src/uart_tile` | counts and buffers reused by every pass | send, receive, compare | serial line |
| `clib-src/rom_write` | counts and buffers reused by every pass | write, read, compare | I2C device |
| `clib-src/gpio_loop` | list of errors per pass, masks from `move_left` | set pins, read, compare | GPIO |
| `basic_script` | a file of successes and failures, the led | run every test in turn | exit statuses of the programs |
| `box_script` | one console file shared by nine scripts, a lock file | run tests at once, rewrite a line each | each other, the launcher `board-test.tile` |

The hard behaviours, and what makes each part correct:

* **Rings.**  Both rings keep one slot empty, wrap two positions separately and
  keep an unsigned count beside them.  Correct: no packet is lost, duplicated
  or shared, and none of the error paths (whose `break` would leak a packet or
  a hardware buffer) can be taken.
* **Comparison by position.**  A frame is compared with the packet at the head
  of the queue; nothing in it says which packet it is.  Correct: no error
  without a disturbance, no disturbance without an error.
* **Timeouts.**  The receive loop gives a packet up while its frame may still
  be on the wire.
* **Start.**  Options and file are read in an order of their own, into memory
  malloc left dirty; the chip's resources are laid out by hand.  Correct: the
  settings are what the user gave, the buffers lie in the memory mapped, the
  frames of a worker come back to its ring.
* **Sweeping addresses.**  Every packet has the next address and port of a
  range, in unsigned arithmetic, and checksums.  Correct: every address comes
  once before any comes again, and a receiver accepts the packet.
* **Shared hardware.**  Workers share the egress queue and the buffers.
  Correct: buffers are conserved and sufficient, a worker sees its own frames.
* **Start and end of the process.**  Barrier, lock, a counter thread that reads
  what others write, a signal handler on any thread.  Correct: the verdict is
  the truth about all workers, and comes.
* **Two boards.**  Handshake and acknowledgement may be lost, either board may
  run out of time at any point.  Correct: nobody waits for ever, data goes only
  to one who listens, and a packet is counted once.
* **Files shared by scripts.**  A lock file that is tested and then created,
  and a file that is rewritten as a whole.  Correct: a line tells the truth
  about its script, a failure reaches the led, nobody waits for ever.

`PROJECT.json` lists the components with their status, and every hazard with
its line and the properties that cover it.

## 2. Modules

| Module | What it is |
|---|---|
| `PoolManager`, `ManagerQueue` | the two rings as records with the fields of the C structs, one operator per C function |
| `PacketGenerator` | the workers' data path, the chip and the link |
| `LoopbackOrder` | abstract specification: what a worker promises about the order of its packets |
| `PacketGeneratorProperties` | type invariant, inductive invariant of the rings, safety, action and liveness properties, refinement mapping |
| `MCPacketGenerator` | sets of values for TLC |
| `MutualOptions` | how `config_t` gets its values: file and options |
| `MpipeInit` | the initialisation of the chip, extends `MutualOptions` |
| `PacketHeaders` | the headers of a packet and their checksums, extends `MutualOptions` |
| `MutualStart` | composes the three: from the arguments to the packets of every worker, with its properties |
| `MCMutualStart` | argument lists, files and a chip for TLC |
| `MutualProcess` | the life of a mpipe_mutual process, with its properties |
| `MutualAging` | the two boards of mutual_aging, with their properties |
| `PostTest` | do_post_test.sh, which runs the tests one after the other, with its properties and those of the programs |
| `UartTile`, `RomWrite`, `GpioLoop` | the device programs, instantiated by `PostTest` |
| `MCPostTest` | lists of tests for TLC |
| `BoxConsole` | the launcher and the scripts of box_script, their console and lock file, with their properties |
| `SequenceCounts` | lemmas: counting the members of a queue, the part of it that is of a kind, queues in a row |
| `PacketGeneratorProofs` | lemmas on the ring operators for every ring size and on what each step does; theorems about the rings of `PacketGenerator`, its types, the packets and their order (the refinement) |
| `PacketGeneratorCounts` | theorems about frames, buffers, misses and verdicts |
| `MutualProcessProofs`, `MutualAgingProofs`, `BoxConsoleProofs`, `PostTestProofs` | theorems about these four |
| `MutualStartProofs` | theorems about `MutualStart`, one part of the invariant for each module it is composed of; lemmas on pages, buckets, ranges and checksums |

`MutualStart` ends where `MutualProcess` (threads, barrier, verdict) and
`PacketGenerator` (data path) begin.  What these take for granted is checked of
it: that frames addressed to a worker are delivered to its ring
(`FramesReachOwnRing`) and how many buffers there are (`BuffersInMemory`), and
both are proved.

A name with a suffix after an underscore (`PoolWrap_Late`) is a mutant: a slip
that one of the properties must notice when it takes the place of the
definition without the suffix.  No specification uses one.

### PacketGenerator

State and code: `pc` is the place of each worker in `make_all_packet` and
`generator_packet`; `i` the counter of the loop it is in; `pool`, `queue`,
`count` are the fields of `generator_t`; `packet` and `idesc` its locals.
`stack`, `egress`, `wire` and `iqueue` are the chip's.  `base` and `fault` are
history: the counters at the start and what happened to each worker's frames.

* `MakePacket`, `MakeDone`: one `get_buf`, fill, `free_buf` of `make_all_packet`.
* `StartBatch`, `Finish`: the head of the `while`, with `exit_noti_flag`.
* `SendTake`, `SendPut`, `SendDone`: the send loop.  It is cut at the one place
  where it waits, for room in the egress queue.
* `RecvGet`, `Judge`, `RecvTimeout`, `RecvDone`: the receive loop.  A frame is
  taken, then judged; or the timeout passes.
* `Transmit`, `Arrive`, `ArriveDamaged`, `ArriveResized`, `Lose`: the chip and
  the link (external).
* `TimeUp`, `Sigint`, `SigintExit`: the clock and the user.

The error path of every ring operation is in the action that calls it.  A frame
is what the properties tell apart: its last destination octet, its content, and
whether it has the length that was sent.  Headers and checksums are in
`PacketHeaders`.
Time is two events, the timeout of a receive and the end of the interval.

Each worker's steps on its own rings touch nothing that another thread reads,
so it does not matter that an action holds several C statements; what is shared
(stack, egress queue, flags) is touched once per action.

### MutualOptions, MpipeInit, PacketHeaders, MutualStart

`pc` says which part of `main` runs; `config` is the `config_t`, a function
from its fields; `rest` is what of the file is not read yet.

* `Scan`, `Open`: the first loop of `main`, and `fopen`.
* `ReadLine`, `GiveUp`, `EndOfFile`: the loop of `read_config_file`, its return
  at an empty value (which its caller ignores), and its end, where `dmac` is set.
* `Option`, `OptionsDone`, `print_config_file`: the second loop of `main`; the
  settings are printed, which follows pointers that may not be set.
* `CopyConfig`, `Crash`: `init_mpipe_config`, which copies both link names into
  blocks of the length of one of them.
* `CheckCpus` ... `Commit`: the calls of `init_mpipe_resource` in their order.
  `Die` is the failure of any of them, for a reason the model knows (`Refused`)
  or another (`MayFail`).  Nobody looks at the result of opening the send link
  (`OpenSender`), nor of the three calls for a worker's group, rule and address
  (`AddRule`): each of them may fail by itself, and the program goes on.  The
  history variable `refused`, a field of `chip`, remembers that one of the three
  did.
* `CreateWorker`, `MakePacket`: `init_generator_set`, and `generator_udp_packet`
  with all it calls, for one packet of one worker; the workers run at once.
  `Overwrite`: a packet shorter than its headers, whose payload is filled with a
  counter that starts below zero.

A line of the file is the setting it names, its value and whether a newline ends
it; the scanner of names, numbers and addresses is left out, but not what it
does to the variables it fills: what `sscanf` did not convert is what the stack
held (`First`, `Counter`).  An address of ip is a number below `Uint32`, a MAC
address its last octet.  No number is negative, only the last line of a file
has no newline (`InputAssumption`), and no file is named like an option that
takes a value (`NamesAssumption`: after `--sender --config --recver x` the first
loop would open a file called `--recver`, which the second loop knows to be an
option).  The chip hands out rings, groups and buckets above
those that other programs hold, so that each counts from a base of its own.
Headers are the words of 16 bits that the checksums add up; a payload is the
sum of its words and its odd last byte.

### MutualProcess

One `pc` for each thread; the workers' work is reduced to incrementing one
counter: `error` is the sum of a worker's three error counters, which the
verdict adds up; the counters of correct packets decide nothing.
`pass_or_exit` compares each of the three with the limit, so that a sum alone
does not always tell whether it ends the process: it may when the sum has come
to the limit (`MayReachLimit`), and need not as long as three counters below the
limit add up to the sum (`MayStayBelow`).
`++finish_counter` is a read and a write under `finish_lock`.
The sums over the counters take one step per worker, so they see the counters
move.  `Sigint(t)` starts `print_counter_info` on thread `t`, which does nothing
else from then on.  Before `generator_set` exists the handler crashes; between
its allocation and the assignment of `numbers` it may also find 0 there.
Threads read and write shared words one at a time (aligned words, a barrier and
a mutex between the phases); reorderings of a weaker memory are not modelled.

### MutualAging

Two boards, each with the program in one mode and its own chip.  Opening the
link and initialising the context are a step each, that succeeds or ends the
program.  A receive ends with a frame, or with -1: because nothing came for a
second, or because the second was over just as a frame was taken; then
`mpsock_recv_data` forgets the frame, and its buffer.  The sixty seconds are an
event that may happen at any time; the clock is looked at where the code does.

### BoxConsole

`pc` is the place of each script: at the wait for the lock file (`wait`),
between the wait and `touch`, then `append` for the first line or `open`,
`backup`, `rename` for the three steps of `sed -ie`, then `unlock`.  `todo` is
the line it is about to write.  The five scripts that run a test again and
again differ in names only (`Testers`); mem_cpu.sh and the two mpipe scripts
watch the output of a program (`Monitors`), may write a line with "error" and
go on ("warn"), and end at a failure.  mem_cpu.sh also ends early with a line
that has no "error" in it ("miss"), and kills the led.  The console file is a
line per script and the launcher's own lines; while `sed` has given it another
name it is absent.  A power cut resets everything but the lock file: each start
has a console file of its own, named by the time.

`sleep 20` after the first line is taken to be longer than all scripts need for
their first lines (`Sleep`); nothing else depends on time.  Two scripts collide
when both find no lock file before either creates it; `collided`, a history
variable, remembers it until the next power cut, and the properties that depend
on mutual exclusion say what holds without it.

### PostTest, UartTile, RomWrite, GpioLoop

`PostTest` walks through the list of tests; a step of `UartTile`, `RomWrite` or
`GpioLoop` is a step of the program that runs, until its `pc` is "exited" and
the shell reads its `status`.  One `pc`, `pass` and `status` do for all
programs, because only one runs at a time.  `received`, `reads`, `wrong` and
`stuck` are history.  A device may be missing, refuse a call, answer late,
short, with other data or not at all (`Faults`).

What survives from one pass to the next is kept as in the code: `recv_count`
and `read_count` are set only by calls that succeed, `read_buffer` also by a
read that is too short.  The memory they come from is not initialised
and may hold any number (`Garbage`), also the one that the program waits for;
`uart_found` and `rom_found` are history and keep what it held.  After a failed
`fv_i2c_init` rom_write goes on with a descriptor that was never set, and the
calls on it may succeed or fail (`MayGoWrong`).  In `uart_tile` the receive buffer
is overwritten with the right bytes before the comparison, so that contents
play no part.  `gpio_loop` looks at the output pin only; words are sets of bits
and `move_left` is computed on its two halves.  `post_test_times -1`, with
which the shell never ends, is not modelled.

## 3. Runs

| Run | Question | Instance |
|---|---|---|
| `worker_single` | rings, verdicts, the error limit, order of packets, with every kind of fault of the link, dirty counters and an ingress ring smaller than a batch | 1 worker, 2 packets, 2 contents, 3 batches, ring of 1, error limit 3 |
| `worker_pair` | shared egress queue and buffers, progress, address arithmetic | 2 workers, 2 packets, 1 batch, octet 255 so that the rank wraps, egress queue of 1, losses, SIGINT |
| `process_life` | barrier, finish counter, both verdicts, the end of the process | 2 workers, 1 error each, counters that start at 0 or 1, limit 2, 1 SIGINT, failing threads |
| `process_status` | violated: status 0 after a failed test | 2 workers, no signal, nothing fails |
| `process_stop` | violated: the handler of SIGINT, on one thread, exits while a worker is in the middle of a batch | 2 workers, 1 SIGINT |
| `aging` | what is in the rings, who transmits to whom, where data and buffers are, the end of the handshake and of the receiver | rings of 2, 3 handshake rounds, 3 data packets, 1 late receive per board, all faults |
| `box_scripts` | whose result a line shows, that a failure stays in the console and reaches the led, that launcher and scripts get on | 1 tester, mem_cpu.sh, 2 rounds, collisions, 1 power cut |
| `box_collide` | violated: two scripts write the console at once, here at the lock for their first lines (`usb_disk.sh:17`, `:21`), which is the same as that for the results | the same without a power cut |
| `post_test` | what a success has seen, counts and led, and that the tests end | i2c, gpio_loop, uart_tile and one more test, 2 rounds, 2 passes each, all faults, counts that start at 64 or 100, which are the right ones of uart_tile and rom_write |
| `post_rom` | violated: rom_write succeeds although a read failed | 1 round, 2 passes, a device that is there and may answer short |
| `start` | settings, delivery of frames, layout of the memory, sweep and ip checksums of the packets | about 200 argument lists, 8 files, a chip with 4 rings of which 1 is held, all failures, one dirty header |
| `start_udp` | violated: a packet with a wrong udp checksum | the settings as shipped, with both links, nothing fails |

Why the bounds are enough.  A ring of `Once + 1` slots wraps during the second
batch, so two packets and three batches bring both positions to every slot and
back.  Two contents make every wrong pairing of frame and packet visible.  Two
workers are enough for contention for the egress queue, for a lost increment
and for every order of finishing; facts that a third worker could change
(buffers, rings) are proved or are sums over workers.  In `MutualAging` a ring
of two holds a late handshake packet and a data packet at once.  In
`BoxConsole` two scripts are what a collision takes, one of each kind; two
rounds (which is also `post_test_times` of `config/box-test.Poseidon`) let a
copy of the file hold a line that its script has rewritten since.  In
`MutualStart` the argument lists (`MCArgvs`) hold every option, twice the same
option, an option in the place of a value, and `--config` before and after
others; the files hold ranges that wrap around, empty, missing and unreadable
values, a last line without its newline, six buckets, two protocols, and a
third worker, whose address wraps; only options with values come at odd
places, which is what `SettingsMeant` reads them by.  `Uint32` is 2^20, so that
TLC's own 32 bits do not overflow in the sums, and the ranges wrap there.  In
`PostTest` two passes are what a stale count takes, and two rounds let a
failure come before and after successes.

The header that `start` finds in fresh memory is dirty everywhere but in the
field of the checksum, since `HeadersRight` says nothing of an ip header that is
not clear there.  `process_life` has one SIGINT; two take TLC too long for a run
of every day, and what it says of the handler's sums is proved for any number.

`MaxBatches`, `MaxErrors`, `MaxSignals`, `MaxHands`, `MaxLate`, `MaxData` and
`MaxCuts` are the bounds on counters (`MutualStart` has none: its loops are
bounded by what they read); `MaxLate` stands for a real bound, since
a late receive takes a second and the handshake sixty.

Fairness.  Every thread is bound to a cpu of its own (`tmc_cpus_set_my_cpu`),
so each has weak fairness; the chip moves frames, clocks run, `sleep` returns.
No fairness is assumed of faults or signals.  The lock of `finish_counter` is
strongly fair for a worker that waits for it: it is held for one increment and
each worker takes it once.  The scripts' lock file needs weak fairness only,
since each script takes it a limited number of times.

### What the violated runs show

Each is one line of `findings` in `PROJECT.json`, with the sentence it
contradicts: the exit statuses of mpipe_mutual are inverted with respect to the
scripts, neither the handler of SIGINT nor the error limit waits for those who are still
sending, the lock file does not keep
the scripts apart, so that the line of a failed test, which is written once,
can be undone by another script's copy of the file; rom_write passes over a
read that fails, on a device that it could open; and the udp checksum is off by six, because the pseudo header
starts from 0x17 where the protocol is 17 (nothing notices: the loopback
compares the packets as they are).

Other things met while modelling are part of the models, without a run of their
own: the final totals are added to sums that were not reset (`Report`, hence
the factor 2 in `FinalVerdictRight`); the error counters are never initialised
(`Garbage`); a counter thread that cannot be created leaves everyone at the
barrier (`Hung`); `--errornum` is compared with `>=` (`ErrorLimit`);
mutual_aging looks at the clock again after a finished handshake (`Decide`); a
missing memory node is shown without the word the launcher looks for
(`Sleep`); a lock file left by a power cut stops everything (`left`); uart_tile
cannot notice damage, nor a loss once a block has come back, nor a dead line
if malloc left 64 in its count (`Complete`, `UartAnswered`); rom_write goes on
without its device (`Start` of `RomWrite`);
gpio_loop says "check the input" and looks at the output (`Looked`); the send
link may not be open (`OpenSender`); the ip checksum is right only in a buffer
that malloc returned clear (`HeadersRight`), and the udp checksum leaves out an
odd last byte (`UdpWords`); pktlen is limited in the file and not among the
options (`TooLong`), and a pktlen below the headers makes `pop_payload` run on
(`Overwrite`); the receive link name is copied into a block of the send name's
length (`Overrun`); `--len_check` and `--data_check` (`mpipe_mutual.c:27`,
`README:21`), and `--dstmac` (`config-and-run.sh:1`), end the program with the
usage text, since no branch knows them (`Option`); a worker's rule
that was not begun leaves its frames to the worker before (`WithDmac`); the
shipped `generator.conf`
names no links, so that without `--sender` and `--recver` the program follows
pointers that were never set (`print_config_file`), and its DSTIP has no "+n",
so that the range is as long as the stack happened to say (`Counter`).

## 4. Proofs

TLAPS proves 42 theorems (`theorems` in `PROJECT.json`), and 32 of them state a
property that a run checks on a small instance: there for the instance, here
for all values of the constants, under the ASSUMEs of the module.  They are all
the invariants and action properties of the runs that pass, and the refinement.

### Data path (`PacketGenerator`)

For every finite set of at most 256 workers (the chip has fewer cpus), every
batch size, ring size, error limit, check level, set of disturbances and
content, as long as damage changes the content (`NoiseAssumption`).  The
bound on batches is any number.

* `RingInvariant`: `Spec => []RingInv`.  "No get_buf fails" is not inductive:
  one must know how many packets are where.  `RingInv` adds the type of the
  workers' variables, that both rings are well formed (`PoolOK`, `QueueOK`:
  positions inside the ring, counts that agree with them), and `PacketsSplit`:
  at each place of the program, how the `Once` packets are split between the
  rings, as a function of the loop counter.  The step has one lemma per part
  of the program (`FillKeeps`, `SendKeeps`, `RecvKeeps`), each with one step
  per action; `OneWorker` says that a step of one worker leaves the others'
  rings alone.  `RingsNeverFailTheorem` and `RingCountsRightTheorem` follow.
  They rest on lemmas about the rings: what each ring operator does to the
  number of entries, and that it keeps the ring well formed.
* `PacketsConservedTheorem`: the two rings and the worker's hand hold every
  packet once.  The invariant `Conserved` adds `Whereabouts` to `RingInv`; the
  lemmas say what each ring operator does to the list a ring holds (`GetBufList`
  takes its head off, `FreeBufList` appends, wherever the positions wrap), and
  `ListSteps` sums up what a step of a worker does to the lists: they stay
  (`Stays`), the first packet goes round (`Rotates`), goes out (`GoesOut`) or
  comes back (`ComesBack`).
* `PacketOrderTheorem`: `Spec => PacketOrder`, the refinement of
  `LoopbackOrder`, step by step from `ListSteps`.
* `TypeCorrect`: `Spec => []TypeOK`, from `RingInv` and a second invariant
  for the chip's variables.
* `OnlyOwnFramesTheorem`.  What a ring holds follows from where frames come
  from, so `FrameInv` speaks of all queues: every frame, wherever it is, has
  the address `make_all_packet` wrote for its sender, and no two ranks have one
  address modulo 256 (this needs the 256).
* `HardwareBuffersTheorem`: the sum of five places is itself inductive; each
  step moves one buffer (`Steps` says what each step does to the queues,
  `SequenceCounts` what that does to the counts).
* `MissesAccountedTheorem`.  In the middle of a batch the equation is off by
  the packets sent and not judged yet; `MissInv` adds them (`Due`), at every
  place of the program.
* `SizesSufficeTheorem`.  `BoundInv`: without a late frame misses are at most
  the losses; with `MissInv`, a worker has at most `Once` frames under way, and
  with `HardwareBuffersConserved` an empty stack would need more.
* `EveryPacketJudgedTheorem`, `DamageNoticedTheorem`: likewise with the frames
  not judged yet (`JudgedInv`, `DamageInv`), wherever they are.
* `NoFalseAlarmTheorem`.  That a step counts no error says nothing of the next
  one; the invariant `Matched` does: as long as nothing has happened to a
  worker's frames, those that have come, those on the wire and those in the
  egress queue, in this order, are what the packets of its queue wait for, one
  by one.  All workers send through one egress queue, so `Matched` speaks of
  the part of it that is the worker's own (`Part` in `SequenceCounts`).

### Process (`MutualProcess`)

For every number of workers, signals and errors.  `NoneStartsAloneTheorem`: the
barrier opens when so many have arrived that it must have been all
(`AllArrived`, by cardinalities).  `FinishCountedTheorem`: a worker between its
read and its write of `finish_counter` holds the lock and has read what is
still there.  `VerdictAfterAllDone`: no verdict before the last packet.

`FinalVerdictTheorem` and `SignalVerdictTheorem` are about sums over the
workers' counters (`Sums`, a recursive function).  What it computes for every
number of workers takes induction; the library's induction theorems are out of
reach of the provers, but the least counterexample of a set of numbers does as
well (`LeastNatural`, `UpTo`): so `SumsExist` (there is such a function),
`SumsStep`, and `SumsOneMore` (one error more anywhere is one more in the sum).
The invariant `SumsInv` then follows each adder: what it has added so far lies
between what the counters were when it started and what they are now.
`TypeCorrect` needs `FinishInv`, since the loops are bounded by the workers.

### mutual_aging (`MutualAging`)

For all ring sizes and bounds, with every disturbance.  `AgingInv` has four
parts: the shapes of the variables; `TalkInv`, why only short frames meet a
handshake (the receiver sends short ones only, an acknowledgement is under way
only after `acked`, and only after it does the sender transmit); the account of
the buffers; the account of the data.  All five invariants follow.

### box_script (`BoxConsole`)

For all finite sets of scripts, any number of rounds and power cuts.  `BoxInv`
says that a copy of the file holds only lines of the scripts they name (which
gives `LinesShowOwnResults` however scripts collide), and, as long as
`collided` is false, that one script at a time is between `touch` and `rm`, and
that the file, or the copy about to take its name, holds the line each script
wrote last (`OrderInv`, which gives `FailureStaysShown`).  A count of the
launcher's own lines is needed too: a file that is there must be told from
`Absent`.

### do_post_test.sh (`PostTest`)

For every list of tests, also one that names a test twice, any number of
rounds, passes and bytes, every content of fresh memory and all faults.  Since
nothing is assumed of that memory, `FaultsSeen` says what its content does to
what a success means: a `uart_tile` that found 64 may pass without an answer, a
`rom_write` that found the right count has read at least once, and without wrong
data either way.  `Inv`
says of the launcher what has been counted: `run_time - 1` times the lines of a
test, and those before the one that is next (`CountInv`, with cardinalities);
and of the program that runs, what its variables have to do with what it saw
(`UartInv`, `RomInv`, `GpioInv`): a count of 64 only after a complete receive or
because malloc left it,
other data that was read is still there to be compared, a pin that did not
follow is among the errors.  All three invariants follow.  `LooksAtOut` computes
the mask of `move_left(52)`.

### Start (`MutualStart`)

For every list of arguments, every set of files, any 32-bit (or other) width of
unsigned numbers, whatever malloc and the stack held, every chip with fewer
than 256 cpus, every set of sizes of pages, and all failures; under the three
assumptions on inputs named in section 2.  `StartInv` has a part for each module
that `MutualStart` is composed of, and five theorems follow from it.

* `TypeCorrect`, from the types of the settings (`OptionsInv`), what has been
  compared with what there is (`SettledInv`) and what the chip has been told
  (`ChipInv`), at each stage of `init_mpipe_resource`.  `MpipeInit` cannot
  settle the types alone: they come from the file.
* `SettingsMeantTheorem`.  The three loops are followed by `SettingsInv`: which
  `--config` the first loop has chosen so far (it looks at every word,
  `Chosen`), which line has been obeyed last for each setting (`FileRead`), which
  option (`OptionsRead`, at every other word).  That both loops agree on the
  file needs an argument about parity: a `--config` in an even place is some
  option's value, the word behind it is in an odd place, hence an option, which
  is no file's name (`FileMeant`).
* `BuffersInMemoryTheorem`.  `pagesize` is a least element of a set of numbers
  (`LeastExists`), a 16th of the memory fits in it, so 16 pages hold all
  (`PagesTaken`), and the stack before the buffers is as long as its rounded
  size (`StackBytes`).
* `FramesReachOwnRingTheorem`.  `OwnRing` evaluates the classifier: the rules
  have addresses that differ modulo 256 (`OctetsDiffer`), the sets of buckets of
  two workers have no bucket in common (`BucketsDiffer`), so each lookup, of the
  first rule, of the last group of a bucket and of the last ring of a group,
  finds one entry.  All this as long as the chip has refused none of the calls
  that nobody looks at; then there was a power of two of buckets (`RulesInv`),
  and each address is in the rule begun just before (`AddressOfNewRule`).
  `DmacInv` adds that the rules are for the address that
  packets are sent to, which `read_config_file` sees to at its very end only.
* `HeadersRightTheorem`.  The settings of a worker that has made `k` packets are
  those of the process with each range at its `k`-th address (`Advanced`,
  `After`), also where the range wraps around the width (`RangeAdvances`, on
  remainders).  What `ip_xsum` computes takes induction over the sum; as in
  `MutualProcess` the least counterexample does (`RoundKeeps`, `AllLeft`): one
  round of carries takes a multiple of 65535 away (`OneRound`), so what is left
  is congruent to the sum and fits in 16 bits (`CarryLeaves`), and the words with
  the complement verify (`ChecksumVerifies`).

### Only model-checked

* Liveness under fairness, which is out of this prover's reach: `WorkersFinish`,
  `TestEnds`, `HandshakeEnds`, `ReceiverFollows`, `LauncherGetsOn`,
  `FailureReachesLed`, `ScriptsEnd`, `PostTestEnds`.

## 5. Not modelled

* `destroy_pool`, `is_full_pool`, `destroy_manager_queue`,
  `generator_tcp_packet`, `checksum_ip`, `parse.c`, and `mpsock_send`,
  `mpsock_recv`, `mpsock_get`: nothing calls them.
* How a line of `generator.conf` is taken apart into a name and a value, and
  what the programs print.
* `mpipe_loop.sh`, `runme.sh`: straight sequences of runs; what they read of a
  run is stated of `MutualProcess`.
* In `basic_script` and `box_script`: the scripts' tests that only run a
  command and look at its status or output (they succeed or fail), the
  directories and the detail logs; `post_test_times -1`, which never ends, and
  the padding of a test's name (`do_post_test.sh:58`), which does not end for a
  name of more than 21 characters: no test of the repository has one.
* An empty link name, whose last character is then cut off in front of the
  string (`config.c:282`, `:291`): link names are not empty (`Assign`).
* What a pointer that was never set points to, and a descriptor that was never
  set: the first is followed or ends the program (`print_config_file`, `Crash`),
  the calls on the second succeed or fail.
* Compiled programs and libraries (`clib`, `lib`, `*.o`), `tags`, the
  classifier; the mPIPE driver is modelled as the code uses it.
* Reorderings of a weak memory; the state of a stream that a signal handler
  interrupts in `printf`.

## 6. Plan

Done: rings and data path, the process, its start (options, chip, headers),
mutual_aging, box_script, do_post_test.sh with three device programs; proofs of
every invariant, every action property and the refinement.

What is left to state and prove: facts on which the liveness properties rest and
that are safety, such as that some thread can always step until the process
ends.
