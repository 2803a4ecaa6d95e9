# Verification of the banknote validator firmware

This directory holds TLA+ models of the firmware under
`src/uba-pro-cis/tx_main` (the program of the validator's main processor), the
TLC configurations that check them on small instances, and TLAPS proofs of
their most important properties. Paths below are relative to
`src/uba-pro-cis/tx_main/ROOT/`.

The repository also holds FPGA and HPS exercises for the DE10-Nano board, and
vendored code (ThreadX, its uITRON layer, FatFs, the USB stack, hwlib). None of
these is part of the validator's own logic and none is modelled.

## 1. The system

The firmware is a set of tasks on one core. Each has a FIFO mailbox; a sender
takes a block from a pool (16 blocks for what main sends, 16 for what all the
others send, `system/kernel_config.c:292-295`), waits if there is none, and queues it; the
receiver copies it, gives the block back and calls the handler of its mode. The
line task has the highest priority, main the lowest (`kernel_config.c:101-107`).

| part | state it keeps | operations | interacts with |
|---|---|---|---|
| main task (`task/main_task`) | `ex_main_task_mode1/2`, `ex_multi_job` (busy, alarm, reject, denomi), `ex_main_reset_flag`, `ex_2nd_note_uba`, recovery step | one handler per mode for every message | asks the device tasks, joins their answers; tells the line task |
| device tasks: APB (pusher), centering, feed, stacker, shutter | a sequence number, a waiting sequence, retry counts | home, execute, open, close, convey | answer main: START, SUCCESS, REJECT, ALARM; report STATUS_INFO unasked |
| discrimination, MGU, ICB, RFID, FRAM | a mode or sequence | initialise the sensor, validate, read a temperature, write a tag | answer main; the MGU task also writes `ex_multi_job` |
| sensor task | mode, last levels | watches the position sensors | reports to main that paper moved |
| timer task (`task/timer_task`) | table of 64 slots, tick backup | set, cancel, expire | messages from and to all tasks; tick from the interrupt |
| line task (`task/cline_task`) | `line_task_mode`, `s_id003_2nd_note`, escrow code | byte protocol with the host, results from main | main, the communication buffers |
| communication (`usb`, `task/uart_cb_task`, `task/usb_cb_task`) | ring buffers | fill in interrupts, drain in tasks | line task |
| maintenance lines, display, bezel, dip switch, watchdog, power | small | poll and report | main |

What makes it correct: a note is credited once, and only when it is in the
cash box; a note that is refused goes back; the host's reset is carried out; no
join waits for an answer that will not come; no timer is lost or early.

What makes it hard: up to four devices and the host answer in any order while
a note moves; answers of a job that was given up arrive in the next mode; a
second note is taken in while the first is still being stacked and credited
(`ex_2nd_note_uba`); a reset is often only flagged; main and the MGU task write
the same word; the tick interrupt runs between any two instructions.

## 2. Modules

| module | models | status |
|---|---|---|
| `TimerService` | what the timer task promises: armed timers and mail | abstract specification |
| `TimerTask` | `timer_task.c`, the tick interrupt, the two mailboxes | complete |
| `MCTimerTask` | TLC values | |
| `TimerTaskProofs` | proofs about `TimerTask` | 5 theorems |
| `NoteIntake` | what taking in one note promises: offered once, credit of the note ahead told once and acknowledged first, leaves as the host decided | abstract specification |
| `AcceptMode` | `mode_accept_uba.c` with the parts of `operation_sub.c` it calls, the devices by their answers, line task and host by what they send main | complete for the UBA |
| `MCAcceptMode` | TLC values | |
| `AcceptModeProofs` | proofs about `AcceptMode`: types and the second note | 3 theorems |
| `AcceptJobProofs` | proofs about `AcceptMode`: how main joins the answers of its devices | 4 theorems |
| `IntakeProofs` | `AcceptMode` implements `NoteIntake` | 1 theorem |
| `NoteCredit` | what stacking one note promises: a credit is owed only for a note in the box, offered, and given once or withdrawn for ever | abstract specification |
| `StackMain` | `mode_stack_uba.c` with the parts of `operation_sub.c` it calls: the main task's handlers alone | complete for the UBA |
| `StackMode` | composes `StackMain` with feed, stacker, the other devices, line task, host, recovery step and power up | complete from escrow to the end of MODE1_STACK |
| `MCStackMode` | TLC values | |
| `StackModeProofs` | proofs about `StackMode` | 12 theorems |
| `Recovery` | the recovery steps, what counts as stroked, and where the note may lie when the power fails: where `StackMode` and `PowerUp` meet | complete |
| `NoteRecovery` | what power up promises about the credit over any number of power failures | abstract specification |
| `PowerUpMain` | `mode_powerup.c` and `mode_initialize_uba.c`: the main task's handlers alone | complete for the UBA from the first look at the sensors |
| `PowerUp` | composes `PowerUpMain` with the devices, the line task's power-up modes, the host, the box and further power failures | complete from power up to enabled, disabled or MODE1_REJECT |
| `MCPowerUp` | TLC values | |
| `PowerUpProofs` | proofs about `PowerUp` | 5 theorems |
| `StandbyMain` | `mode_enable.c`, `mode_disable.c`, `mode_active_*.c`, `mode_adjust.c`, `mode_reject_uba.c`, `mode_reject_standby.c`, `mode_alarm_uba.c`: the main task's handlers alone | complete for the UBA, but for the alarms of CIS and RFID |
| `Standby` | composes `StandbyMain` with the devices, the timers, the line task's modes between two notes, the host, the hands and the box | complete from the end of an initialisation, or a note to be returned, to MODE1_ACCEPT or MODE1_INIT |
| `MCStandby` | TLC values | |
| `StandbyProofs` | proofs about `Standby` | 10 theorems |
| `ByteStream` | what a receive buffer promises: the bytes sent, once, in order, per port | abstract specification |
| `CdcBuffer` | `usb_cdc_buffer.c` with its callers in `hal_usb.c`: the rings of both USB ports between interrupt and task | complete |
| `MCCdcBuffer` | TLC values | |
| `CdcBufferProofs` | proofs about `CdcBuffer` | 4 theorems |

### TimerTask

`timer_id`, `timer_set_task`, `timer_cnt` are the columns of the table;
`timer_tick_backup`, `timer_elapse_time` and `ex_timer_task_tick` the counters.
`pc` is where the task is in its loop: receive, count the elapsed ticks, save
the backup, then the idle scan slot by slot (`ii`). The difference and the
backup are two reads of the tick (`timer_task.c:249-258`), so they are two
actions, and `Tick` may come between them. `_timer_set` reuses the slot of the
same owner and id, else takes a free one, else drops the request;
`_timer_cancel` matches by id alone. `since` and `due` are history variables
that count real ticks and are read by the properties only.

`TimerTask` implements `TimerService` under the mapping `armed <- Armed` (the
pairs of owner and id in the table and of requests not yet read are treated as
the table alone), `inbox <- inbox`.

### AcceptMode

The variables are main's own (`mode`, `job`, `reset`, `second`), its mailbox,
for each device task the requests it still has to answer (`work`) and how far
it is with the oldest (`stage`), the mailbox of the line task, and what main can
tell of the line task and the host (`line`, `vend`). `accept_msg_proc` reads one
message and runs the handler of the mode; each handler is one operator with the
name of its C function, and each case of its switch one disjunct. Sensor levels,
the box, inhibits and the path are choices: where the code asks them, the model
takes either branch.

The devices are modelled by what they may answer. What matters of them:

- a motor task that is asked while it is busy stops its motor, forgets the old
  job without answering it and turns to the new one (`_<task>_set_waiting_seq`);
- a stacker that is pulling drops HOME (`stacker_task_uba.c:582-589`);
- the APB may say SUCCESS and then START (`apb_task_uba.c:518-530`);
- `mgu_force_read_tmp` clears the MGU's busy bit itself (`mgu_task.c:166`).
  Since main's `busy &= ..` and `busy |= ..` are not atomic and the MGU task
  preempts main, the clearing may also be lost; `Finish` without `ClearsBusy`
  is that outcome;
- any device may report an alarm nobody asked about (`Fault`).

The line task runs at the highest priority: what main told it is read before
main reads its next message, unless the line task waits for a block of the
shared pool. The sensor task answers SENSOR_ACTIVE at once, so that answer is the first
message in the mailbox.

Not in this model: the test modes (all accept, all reject, data collection), the
maintenance requests of the DLINE, and the recycler, which is not compiled in.

`AcceptMode` implements `NoteIntake` under `ahead <- second # 0`, with `phase`,
`credit` and `verdict` computed from the modes of main and line task.

### StackMain and StackMode

`StackMain` has the handlers of MODE1_STACK. Its variables are main's own
(`mode`, `job`, `reset`, `pause`, `second`), the recovery step in FRAM (`step`),
main's mailbox, what main asked of each device (`work`) and what it told the
line task (`line_mbx`). `way` and `icb` are the configuration: the next note is
taken in meanwhile ("parallel"), or not ("single": UBA mode or a hot CIS), or
the feed looks for a string afterwards ("security"). The three `_main_*_sub`
helpers are written once, as in the code: `SetInitAfter`, `AlarmAfter`,
`RejectSub`.

`StackMode` adds those who work beside main:

- the feed takes the note from escrow through the APB and pauses when something
  follows it; it writes APB_OUT;
- the stacker pushes, comes home, tries again; its sequence numbers are grouped
  by what may happen next, with the two counters of its retries and the cause
  that the last failure left. It writes BILL_IN_BOX, at the top of the stroke or
  when a stuck motor's pulse counter equals the limit;
- APB, shutter, ICB and the backward feed answer SUCCESS or ALARM;
- the line task takes PAUSE, VEND, REJECT, ALARM, asks for the second note,
  offers the credit when the host polls and clears the step on its
  acknowledgement; the host may reset at any time;
- `Faults` are alarms of sensors or the box nobody asked about.

The place of the note, `note`, is not known to the program: `past` is a note
that was pushed far enough for STACKER_FULL without the step being written. The
power may fail in every state; `PowerUp` is what the validator concludes from
step, sensors and place, and the recovery properties compare it with the place
and the credit. What follows a power failure is `PowerUp`; `LeavesRecovery` says
in which combinations of place and step it may start, and each of the fifteen
combinations of `Left` is reached here.

`StackMode` implements `NoteCredit` with `boxed` the place of the note and
`credit` computed from the line task's mode and what is on its way to it.

Not in this model: the LD and test modes, the DLINE, the cheat report of the
line task, the interrupt mode of the communication (`comm_mode` 2), the host's
WAIT command, and messages main ignores here (START of the APB, EXIT_OUT).

### PowerUpMain, PowerUp and Recovery

`PowerUpMain` has the handlers of MODE1_POWERUP and MODE1_INIT. Main looks at the
sensors and tells the line task where it sees a note (`bill_remain`), searches
when asked, and after a reset of the host brings every device home, and either
strokes what may lie before the plate into the box (`INIT_STACKER`) or asks the
line task what to do with a note it sees (`INIT_WAIT_REMAIN`): stack it by force,
or return it. Its variables are main's own (`mode`, `reset`, `pause`, `tries`),
the step in FRAM, main's mailbox, the requests devices work on (`work`, one per
task: a device that is asked drops what it worked on), and the world that the
sensors show (`note`, `paper`, `box`, `off`, `home`). `off` is the set of devices
that are not at their position, `FirstOff` the one that is brought there first.

`PowerUp` adds:

- the devices, by what they may answer; the stacker pushes the note from the
  chamber into the box before its answer, and the power may fail in between;
- the line task: `_id003_initial_msg_proc` with its wait for INITIAL and SEARCH,
  `power_recover_003`, the answers to RESET, STACK_REQ and REJECT_REQ. `line`
  holds its mode, which kind of initialisation it is in (POWERUP_INITIAL,
  INITIAL, AUTO_RECOVERY), `s_id003_powerup_stat`, `ex_error_003_gli` and
  whether the error is STACKER_FULL;
- the host: the reset that starts the initialisation, resets out of turn, polls
  and the acknowledgement;
- the world: paper put in, the returned note taken, the box taken out or put
  back, faults of the sensors, and a further power failure in every state, which
  keeps the FRAM, the paper and the mechanics and nothing else.

It starts with every place, step and position of the plate that `Left` allows.
The states of `POWERUP_STAT` that lead to the same behaviour are one: what is
credited is `RECOVER`. `counted` is 1 when the step says that the ICB may have
been told, which is the worst case for `CountedOnce`.

`PowerUp` implements `NoteRecovery` with `boxed` the place of the note and
`credit` computed from the line task's mode, the acknowledgement and the step.

Assumed and left out: the host sets the recovery option after each reset, when
it uses it; paper that is returned is taken at once; in an alarm the ICB is
told first and main waits for it, which is one step here; the modes before the
first look at the sensors (FRAM, dip switches), the automatic recovery from
alarms, the WAIT command, the cheat report, test and data collection modes. Two
branches of STACK_REQ (APB or shutter not in position) and one of REJECT_REQ
(shutter) cannot be reached, since the modes are entered with both in position,
and are not modelled.

### StandbyMain and Standby

`StandbyMain` has what main does while no note is worked on. It waits in
MODE1_ENABLE or MODE1_DISABLE; what left its position is brought back in
MODE1_ACTIVE_ENABLE or MODE1_ACTIVE_DISABLE, a command of the line task meanwhile
only changes the one into the other; paper in the acceptor is rejected, the note
waited for at the entrance in MODE1_REJECT_STANDBY; anything wrong leads to
MODE1_ALARM. `mode1` and `mode2` are main's mode, `back` the alarm it goes to
when the sensor task has answered, `reset`, `enabling`, `job` and `backup` its
flags: of `ex_multi_job` only the alarm that was recorded can matter here.
`_main_set_enable` and `_main_set_disable` are `Idle`, `_main_alarm_sub` is
`AlarmSub`, with the request that the alarm answers and the mode its code leads
to; `FAIL` stands for the six alarms of devices whose handlers are alike.

A code of a message has the bits of its sender. `alarm_msg_proc` and its
handlers test `TMSG_TCODE_CLINE` with `&`, so that messages of other tasks, whose
bits include these, are answered as requests of the line task (`Clines`).

`Standby` adds those who work beside main: `work` is the set of requests that
devices and timers still have to answer, `line` the mode of the line task. Each
device answers SUCCESS or ALARM; a device that stalls while its motor stops tells
STATUS_INFO instead, drops the request, and nothing answers it (`Stalls`:
the default branch of `_<device>_set_alarm`). `paper` is the innermost sensor
that sees paper, `off` the positions that are lost, `box` whether the cash box is
in. `inhibit` is what the host wants; `Inhibits`, `Permits`, `Resets` and the
polls are its commands. The sensor task reports a change unless it adjusts.

Where main and the line task go on from different modes is the question here.
Both answer in the mode they are in and ignore what they do not expect, so that a
message which crosses another may be the last one. `Agree` says that they come to
rest in modes that fit together; the exceptions are dead ends of the code, and
each is a definition with a name:

- `Crossed`: main tells of a note while the host inhibits or permits. The line
  task ignores ENABLE_RSP in DISABLE, and main waits in WAIT_REQ or
  WAIT_REJECT_REQ until the host changes its mind again or resets;
- `Overtaken`: the line task asks main to take the note, but main reads an
  inhibit and a permit first that were told before, and waits for a note again.
  There it ignores ACCEPT_REQ (the default branch of `enable_wait_bill_in`,
  `mode_enable.c:474`), and the line task, in ACCEPT, answers every poll with
  ACCEPTING (`id003.c:3006`). Of what the host may send only a reset ends it: an
  inhibit makes the line task wait for the answer in REJECT_WAIT_ACCEPT_RSP. It takes three blocks of the pool and four events, more than the run has: the
  proof of `Agree` came upon it, and TLC found the trace with those bounds;
- `Unheard`: an alarm is told as the answer to a request the line task has gone
  on from, as the open box that `active_enable_wait_req` tells as ENABLE while
  the line task is in ACCEPT. Main and the line task then tell each other about
  it for ever, or not at all;
- `Overwritten`: `enable_wait_reject_req` sets WAIT_REJECT_REQ over the alarm
  that `_main_set_disable` has just entered;
- `Stale`: `ex_recive_enable_cmd_003` outlives an initialisation;
- `Lapsed`: the timer of the note that was taken is up while the note is back for
  a moment, and no second one runs;
- `Forgotten`: a pusher that has closed does not look at the reset flag.

Not in this model: the WAIT command, the cheat report (SET_STATUS ALARM), the
DLINE, test and collection modes, a second note, MODE1_ACTIVE_ALARM,
`ex_main_reject_flag` (`RejectAwaited` shows that it is never set).

### CdcBuffer

`start` and `end` are the indices of each port's ring, `mem` the memory, `pc`,
`look` and `avail` the reader between its looks, `dst` what it read. The
interrupt (`_UsbRecvData`) stores and moves `end`. The dline task asks how much
there is (`UsbGetAvailableChar`) with the interrupt on, in two steps, since `end`
is read for the comparison and again for the count (`Compare`, `Count`); a
compiler that keeps the first value is the case in which nothing comes between
them. It then reads with the interrupt off (`UsbGetRecvData`). A byte is the pair
of its port and its number, so that a lost, repeated or foreign byte shows.

Shared memory. Both ports get `USB_CDC_BUF_BASE` (`include/memorymap.h:31`,
`usb/usb_cdc_buffer.c:19`), and both are compiled in (`USB_REAR_USE`,
`include/debug.h:75`). The bytes of one port survive only while nothing comes in
at the other: the guard `OneSpeaks` says that the host of one port speaks only
when what the other sent was read. Nothing in the code enforces it; it is how the
two connectors are used.

How much the host may send before it waits for an answer, `Outstanding`, is at
most the size of the ring: the protocols of the dline answer each command, and a
command is shorter than the ring. Beyond it the ring overwrites what was not
read, since a full ring counts as empty.

`CdcBuffer` implements `ByteStream` with its history variables `written` and
`read`.

## 3. Runs

| run | specification | shows |
|---|---|---|
| `timer` | safety | `TypeOK`; `NeverDropped`: the table never overflows; `NotEarly`; `Implements` the timer service |
| `timer_live` | with fairness | `Expires`: an armed timer comes to an end |
| `usb_ring` | safety | `TypeOK`; `FillLevel`: the two indices say what is unread; `NeverTooMuch`: the count taken with the interrupt on is never too high; `Implements` the byte stream |
| `accept` | with fairness | `TypeOK`; `Answered`: every busy bit has an answer coming; `FirstNoteSettled`; `OfferedClean`; `PathClear`; `Implements` the note intake; `Settles`: an intake ends, waits for the host, or rests in one of five named dead ends |
| `stack` | with fairness | `TypeOK`; `Recoverable`: step, place and credit agree for power up; `LeavesRecovery`: the power fails only in states power up starts from; `HandsOver`: what MODE1_ACCEPT inherits for the second note; `ResetEndsNote`; `PulledClean`; `Implements` the note credit; `Finishes`: the stack mode is left |
| `powerup` | with fairness | `TypeOK`; `CountedOnce`: the ICB counts a note at most once over all failures; `Implements` the note recovery; `ResetGoesFirst`; `Recovers`: a recorded stroke ends in a credit, or in one of the named excuses; `Settles`: power up comes to an end, or rests in one of two named dead ends |
| `standby` | with fairness | `TypeOK`: no message in a mode without a handler; `RejectAwaited`; `TakenWithLeave`: a note is taken only with the leave of the host; `OneMoves`; `Ready`: nothing that happened while a device moved was missed; `Agree`: main and line task fit together at rest, or rest in one of seven named dead ends; `ResetGoesFirst`; `Settles`; `BoxRecovers`: a box that is back ends its alarm; `ResetEnds`: a reset leads to an initialisation or an error |
| `accept_credit`, `stack_reset`, `stack_lock`, `stack_second`, `powerup_vend` | | what a comment says and the code does not do, see section 6 |

Bounds. The timer runs use two clients, three pairs of owner and id, three (two)
slots, a tick that wraps at 2 (3), one request in the mailbox and two ticks per
pass: enough for a full table, a slot that is reused, a wrap between the two
reads, and an expiry that meets a set or a cancel. The accept runs follow one
note, the first or the second, with one accepted and one other denomination,
and a pool of 3 messages (2 where a comment is refuted): no join has more than three tasks, and with fewer
blocks senders wait, which the code allows too. `Fault` happens only when main's
mailbox is empty, since main reads what waits first, and at most one message
that paper moved is under way.

The stack run has all three ways, with and without ICB, a pool of 3, one retry
of the push and of the return (2 each in the code) and two pauses: the first
failure, the retry and the retry that runs out all occur, and a pause that meets
a second one. The runs that refute a comment need only the parallel way.

The power-up run has all starts, with and without ICB, a pool of 2, one forced
stacking (3 in the code), and any two of the events that nobody expects: power
failures, box changes, faults, pauses, resets out of turn, papers. So a second
failure during the recovery, a box that is out and comes back, a reset that meets
a pause or another reset, and paper that meets any of these occur. The host uses
the recovery option: without it no credit is offered.

The standby run has the option of a pushed-out note on and off, a pool of 2, every
position kept, the plate at home or all positions lost at first, and any two of
the events that nobody expects: papers, box changes, adjustments, stalled devices,
retries, commands of the host. So a command that crosses a note, a reset that
meets a stalled device, and a box that is out while the sensors are adjusted
occur; a sequence of three such events does not. That is not enough for every
dead end (`Overtaken` needs four events and three blocks); what holds for any
number of events is what section 4 proves.

The ring run has two ports, 3 bytes of ring (so 4 places, and an index that
rests on the last), reads of at most 2 bytes, and 6 bytes sent per port, which is
once and a half around.

`CHECK_DEADLOCK FALSE` in the accept, stack, power-up, standby and ring configurations: the
models stop when the mode is left, in the dead ends, and when all bytes were sent.

Fairness. The timer task runs (its priority is above all that could starve it)
and clients read their mail. In accept mode main and the line task run, a device
finishes what it started because every motor sequence has a timeout that ends in
an alarm, and the host polls and acknowledges, as ID003 demands. The host need
not decide about a note in escrow, nor reset, and no device need fail. In stack
mode the same; a pause of the feed ends by itself (`FEED_APB_PAUSE_TIMEOUT`), so
the feed is fair in everything but the pause, and each device on its own. At
power up devices, line task and host likewise; the host resets in the power-up
modes, as ID003 demands, and need not reset out of turn; the note that was
returned is taken in the end. Nothing else of the world is fair: the box need
not come back. In standby main, line task, devices and timers likewise, and the
host polls; the box is put back and paper is taken in the end. These two are
strongly fair, because the report needs a block of the pool, which is small here.

## 4. Proofs

All proofs hold for every value of the constants under the named assumptions.

`TimerTaskProofs` (assumptions: the table has a slot for each pair of owner and
id some code arms; no id that is cancelled is shared by two owners; the pool
outlasts the waiting requests). `IInv` adds to the types that no two slots hold
the same owner and id (`Unique`), that a slot in use holds a pair some code arms
(`InUse`), that the mailbox holds such requests (`Queued`), that the modular
distance of the tick from its backup does not exceed the real ticks (`Distance`)
and that the count of a slot covers what is still to wait, the ticks not yet
charged and the charge being made (`Covered`). From it follow `TypeCorrect`,
`SetIsNeverLost` (by counting the slots in use), `NeverEarly` and, step by step,
`ImplementsService`.

`AcceptModeProofs` (assumptions: accepted denominations are denominations, the
pool has at least one block). `IInv` is `TypeOK` with two parts. `AckedBefore`:
1ST_NOTE_DONE is in the mailbox only after the acknowledgement, `second` is 2
only after that message, and no step leads to the identification while it is 1.
`OneCredit`: there is one credit; it moves from the stacker's request to its
answer, to the VEND, to the line task, so that after the acknowledgement no
further VEND can reset it. Each handler is shown to have an `Effect` (types,
what it asks, what it tells), the actions of devices, line task and host follow.
From `IInv` follow `TypeCorrect` and `SecondNoteWaits`.

`AcceptJobProofs` and `IntakeProofs` (the same assumptions) are about the joins. That a
busy bit is owed an answer is not inductive: a motor that is asked anew forgets the old
request, so one must know that main never asks one that owes it something; main ignores
a success of the feed in one mode, so that success must come after a START; a stacker
that pulls drops HOME; and a refusal of the host clears nothing while a device still
returns a note. `JInv` says what keeps these apart:

- `Answering`: a busy bit is owed one of the answers that clear it in this very mode;
- `Moving`: a motor on the way of the note, the validation and the stacker of a first
  note owe at most one answer, and their bit stands for it (`Bound`);
- `StartFirst` and `HomeOnce`: the feed says START before SUCCESS while main waits for
  the START, and the centering says it once, so that the stacker is asked HOME once;
- `Backward` and `Onward`: the turn to give the note back is in one place only, a
  message of the line task, the ICB, or centering and shutter; STACK and REJECT are not
  both under way; and either means that the line task waits for the note;
- `Clear`: nothing refused a note that is offered, and what the validation recorded
  while the others still worked is its denomination or its refusal;
- `Accord`: what main told the line task, and what is still in its mailbox, fits the
  mode, and a VEND lies there only behind a note ahead.

Each of the eleven handlers is shown to be `Joined` (`HandlerJoins`): a bit is kept with
its request or set with a new one, a motor is asked only when it owes nothing, and a
note is offered or let out by the answer main waited for last. From `JInv` follow
`NoBitIsForgotten`, and with what the handlers do `OfferIsClean`, `PathIsClear` and,
step by step, the refinement of `NoteIntake`, `IntakeKept`.

`CdcBufferProofs` (assumptions: a ring of at least one byte, and a host that has
at most that many bytes outstanding). `IInv` adds to the types that `FillLevel`
holds, that no port has more than `Outstanding` unread (`Waits`), that at most
one port has anything unread (`Alone`), that every unread byte lies where the
reader will look for it (`Held`), and what the first look of the reader says of
the second (`Compared`). The work is in the arithmetic of the two wraps: a write
and a read are each split at the last place. From it follow `TypeCorrect`,
`FillLevelHolds`, `CountIsSafe` and `ImplementsStream`.

`StackModeProofs` (assumptions: a pool of at least one block, natural limits of
the retries and the pauses). None of the properties is inductive: what main
does with an answer depends on which requests are under way, on the place of
the note, and on what was told before. `IInv` adds to the types

- `OneAnswer`: a request is answered once, and its device is busy from the request
  until the answer is read, so that `ex_multi_job.busy` joins the devices;
- `Joined`: which devices may be busy in which mode; only WAIT_STACK_TOP waits for
  two;
- `Placed`: what mode, busy bits and the messages under way say of the place of
  the note: who may still write BILL_IN_BOX, that the ICB is asked only when the
  note is in the box, that a SUCCESS of the stroke means the same when it is read;
- `StepGiven`: the step fits the place (`Left`), and it is cleared only with the
  credit given, or by a line task that gave the note up;
- `CreditTold`: the line task learns of the credit only when the note is in the box
  and nothing but the pull is left to do; from then on no device writes the step, so
  that the acknowledgement may clear it; and what MODE1_ACCEPT inherits;
- `ResetKnown`: the flag or the message of a reset means that the line task has
  forgotten the note, and the request of the second note finds main waiting for it.

Each of the eleven handlers is shown to be `Handled`, which says what it may ask,
tell and write, whatever branch it takes; that the invariant is kept, and the two
action properties, follow from that. The steps of the devices and of the line
task are split in the same way, into what each kind may disturb. From `IInv` follow
`TypeCorrect`, `CreditSurvives`, `StepFitsNote`, `NextNoteSafe`, `ResetHonoured`,
`PlateSafe` and, step by step, the refinement of `NoteCredit`, `CreditOnce`.

`Finishes` (the stack mode is left) is liveness and stays with TLC, but what can make
it fail other than by fairness is a state in which main waits for something that no
task will send, and that there is none but the known ones is proved. `IInv` does not
say so: it knows who may be busy, not that the busy one still has its request. `WInv`
adds

- `Owed`: a device that `ex_multi_job.busy` counts works or its answer is in the mailbox,
  and outside the three modes that wait for the line task some device is busy;
- `Fitting`: what is under way has a case in the mode in which it will be read (`Fits`);
- `Conversing`: where main waits for the line task, that finds the word that makes it go
  on behind pauses of the feed only, or waits for the host, or has sent the request;
- `ResetHeard`: a reset that meets a note on its way in, or one to be returned, is flagged
  or in the mailbox, so that the line task that forgot the note has not left main behind.

Each handler is `Onward` whatever branch it takes, and the steps of devices, line task and
host are split as before (`WaitInvariance`). From it follow `AnswersCome`, which is `Owed`, and
`NoVainWait`: with empty mailboxes and no device at work main is in WAIT_REQ with a credit
that the host has to acknowledge, or in one of the two modes whose reset was forgotten
(the finding of `stack_reset`). `Started` adds the order in which the stacker speaks: in
WAIT_STACK_START the START of the stroke comes before its end, because the plate is brought
home before it and only an alarm ends that. With it no last answer falls into a default branch,
`EveryAnswerHasACase`.

`PowerUpProofs` (assumptions: a pool of at least one block, a natural limit of the
forced stackings). A property such as "the host is offered only a note in the
box" says nothing of how main, line task and devices got there, and any of them
can be interrupted at any time. What makes it provable is that every deviation
clears the step: an alarm, a reject, a lost note and a reset out of turn do
(`_set_id003_alarm`, `_set_id003_reject`, `id003.c`), and only a power failure
starts again with the step kept. `IInv` therefore has, beside the types,

- `Always`: what holds whoever interferes. The step says ICB_ACCEPT before the ICB
  is asked; a verdict RECOVER of the line task goes with a recorded step; a credit
  is offered with the step recorded and the note in the box, or after paper was put
  in;
- `LiveInv`, while the step is recorded and no paper was put in (`Live`): no reject,
  no alarm of the line task and no reset out of turn happened since the last power
  failure, so the line task is in the initialisation of a power up, and a note that
  main tells of and is not before the stacker is in escrow;
- `OpenInv`, while `Live` holds and the note is not in the box (`Open`): main, the
  line task and the devices are on the one way that leads there. The host's reset
  and the search are under way once (`OpenModes`, `OpenSearch`); feed and stacker
  work only after the reset, and a stroke finds the note before the plate, so that
  no stroke can succeed without putting it into the box (`OpenStrokes`); and what
  main told of the place of the note is still true when it is read (`OpenPlace`), for
  only the search moves a note away from where it was told.

Each of the 26 handlers is shown to be `Handled`; every answer of a device to be
`Displaced` by one lemma (`DeviceKeeps`), every step of the line task and the host to
be `Turned` by another (`LineKeeps`). From `IInv` follow `TypeCorrect`, `CountsOnce`,
`ResetFirst` and, step by step, the refinement of `NoteRecovery`, `CreditBoxed`.

`StandbyProofs` (assumptions: a pool of at least one block, a natural bound on the
events, a truth value for the option, and any set of positions lost at first). The
properties are about two mailboxes that are read at different times, so `IInv` says
what may still lie in them (`Has`, `One`). Beside the types it has

- `MovesOnce`: a motor that works, or its answer in the mailbox, excludes the other and
  any second one, and either means that main is in a mode that waits for it (`Moving`);
  a stalled device answers with STATUS_INFO, which counts as its answer (`Replies`);
- `ResetLast`: behind a reset of the host nothing lies that main could take for the
  go-ahead (`Late`), since the line task leaves INITIAL, ERROR and AUTO_RECOVERY (`Over`)
  only by an initialisation; a flagged reset means such a mode, and that main is where
  the flag will be looked at or forgotten (`Resetting`);
- `RejectOnce`: one refusal is told, or one request to reject is under way, never both,
  and then main waits for the request, or has ended in an alarm or an initialisation;
- `AcceptMeant`: a request to accept, and MODE1_ACCEPT, mean that the line task is with
  that note; what would take it away from there is told by an alarm only;
- `Watched`: where main waits for a note, the sensor task's report is in the mailbox, or
  box, positions and paper are as they should be; and the feed pushes a note out only
  with the option.

A handler ends in one of some twenty ways (`Stay`, `Idle`, `AlarmSub`, `RejectSub` and the
others), each shown to have an `Effect`: what the step may do to modes, mailboxes, motors
and the flag. Each of the 28 handlers is then a case distinction over them. Of the other
steps each appends one message at most, and `DeviceInv`, `LineInv` and `SeenInv` say under
which conditions that keeps `IInv`. From `IInv` follow `TypeCorrect`, `NoTwoMotors`,
`NoStrayReject`, `LeaveIsGiven` and `NothingIsMissed`, and from `Effect` with it
`ResetIsNotPutOff`.

`Agree` speaks of the end of every exchange, and needs what the two tasks know of each
other while messages are still under way. That is `AInv`, next to `IInv`; it says nothing
once main is in an alarm, in an initialisation or has taken a note (`Gone`), where other
properties take over, but for `Restarts`:

- `Owed`: where main waits for a device, a device whose answer ends the wait works
  (`Due`), or such an answer lies in the mailbox (`Says`), so that main does not rest
  there;
- `Together`: the pairs of modes. A line task that enables, disables or accepts finds main
  where it serves commands (`Serving`), or a command is on its way; one that returns a note
  finds main giving it back, or the request, or the report of the end, is under way; one
  that waits for a poll finds the note given back; and so on;
- `Queued`: what lies in a mailbox was sent in a mode that still says something of the
  sender, and in which order: no command lies behind a request to reject, nothing lies
  behind the report that the note is gone (`After`);
- `Follows`: where the line task takes notes, main does, or the last command in its
  mailbox makes it;
- `Restarts`: the reset with which the line task ends an alarm is on its way, read, or
  failed.

Every handler outside the alarms is shown to go `Onward`: to one of the modes that are
not followed further, or with the device it waits for asked and nothing told that the line
task would misread. Each step of line task, devices, host and hands keeps the five parts in
turn (`StepAgrees`), and `AtRest` finds that with empty mailboxes and no device at work only
the pairs of `Agrees` and the seven dead ends are left: `Agreement`. `AnswersAreOwed` states
`Owed` by itself, the part of `Settles` that is not liveness: a device that stalls, a
command that changes the mode and a retry do not leave main waiting for nobody.

Only model-checked: liveness (`Expires`, `Settles`, `Finishes`, `Recovers`, `BoxRecovers`,
`ResetEnds`), which is out of reach of the provers here. Of `Finishes` and of the
`Settles` of `standby` the part that is not liveness is proved, see above: main never waits
for what no task is going to send, but in the dead ends that are listed.

## 5. Properties and what would break them

Every property of a passing run has a mutant: a variant of one mapped
definition, next to it in the module and marked `Mutant`, with which TLC finds
the property violated. For `accept`: credit reported again when the stacker is
home (`Implements`), a join that forgets the reset (`OfferedClean`), a failed
APB that stays busy (`Answered`), a second note that does not wait
(`FirstNoteSettled`), a denomination that is not checked (`TypeOK`), motors
started without their busy bits (`PathClear`), a request that is not sent
(`Settles`). For `stack`: one return too many (`TypeOK`), a stroke that is not
recorded (`Recoverable`), a join that forgets the alarms (`HandsOver`) or the
reset (`PulledClean`), a credit that does not ask for the reset
(`ResetEndsNote`), a credit for every alarm of the second stroke (`Implements`),
a pull that is not requested (`Finishes`), again the unrecorded stroke
(`LeavesRecovery`). For `powerup`: forced stackings without limit (`TypeOK`), a
step that is not written before the ICB is asked (`CountedOnce`), an
acknowledged note that keeps its step (`Implements`), a feed that goes on in
spite of a reset (`ResetGoesFirst`), a boxed note that is not known to be stroked
(`Recovers`), a line task that is not told that the note was stacked (`Settles`).
For `standby`: a sender that does not wait for a block (`TypeOK`), a poll that
asks for the reject again (`RejectAwaited`), an inhibit that a taken note does not
see (`TakenWithLeave`), plate and pusher started together (`OneMoves`), sensors not
asked after a move (`Ready`), a line task that goes on silently (`Agree`), a
removed note that does not look at the reset (`ResetGoesFirst`), a timer that is
set again and again (`Settles`), a box without its timer (`BoxRecovers`), an alarm
during the initialisation that is ignored (`ResetEnds`).
For `usb_ring`: an index that runs on (`TypeOK`), a length one byte short
(`FillLevel`), a count that is unsigned (`NeverTooMuch`), an index that wraps
where the buffer is full and not where the memory ends (`Implements`).

## 6. Where comments and code disagree

- `accept_credit`: the pull of the first note answered in WAIT_REJECT_REQ is not
  handled (`mode_accept_uba.c:2224`); the first note is in the box and never
  credited.
- `stack_reset`: `feed_stack` initialises on a pending reset and then, without
  an `else`, stacks all the same (`mode_stack_uba.c:459-481`); main and the line
  task wait for each other.
- `stack_lock`: a stuck motor records a note as boxed only when the pulse counter
  equals the limit (`stacker_task_uba.c:1766`); beyond it the note is in the box
  and power up calls it lost.
- `stack_second`: power up looks for a note in the acceptor before it looks at
  the step (`id003.c:557-589`); with a second note there, the credit of the
  first is forgotten.
- `powerup_vend`: a note at the exit is returned and credited all the same, when
  paper put in meanwhile makes the line task reject: the reject clears the step
  (`id003.c:18774`) and not `s_id003_powerup_stat`, which decides (`13768`).

Also seen, without a run: `id003.c:4029` relies on main initialising after a reset
not only in stack mode. In accept mode three joins go to WAIT_REJECT_REQ without
looking at the flag (`mode_accept_uba.c:432`, `1203`, `1355`; a dead end of
`Settles`); in standby an alarm that a stalled device reports goes first, is told as the
answer to another request, and is not heard in INITIAL, and the retry of a reject and the closed pusher
do not look at the flag (`mode_reject_uba.c:374`, `526`). `mode_active_disable.c:1037` sends the feed
FORCE_REV_REQ with the comment 停止命令 (stop order); a feed that has stopped already takes it
for a new request (`feed_task_uba.c:529`) and runs backwards in a mode that waits
for a note. The comment at `id003.c:19544` says that the first
credit is acknowledged when the result of the second note arrives, but a refusal
arrives before. A second note that needs centering home first waits for the
stacker, and then for nobody (`mode_accept_uba.c:2270`, a dead end of `Settles`). An
alarm of the temperature reading can come after the note was offered, because the
MGU task clears its own busy bit (`mgu_task.c:166`). An alarm of the CIS is recorded (`mode_accept_uba.c:211`, with
the comment "set alarm inform") and reported to no one. Several alarms take back the credit of a note that is in the box
(the box opened between VEND and acknowledgement, a home fault or the ICB after
STACKER_FULL); `NoteCredit` allows that, since the code means to report the alarm.

At power up: the line task reads nothing but the answer to SEARCH, which main
does not give when the box was out for a moment before it read the request
(`id003.c:811`); only a power failure ends that. A reset of the host that crosses
an answer makes the line task take the old answer for the new initialisation; the
second half of a forced stroke (`mode_initialize_uba.c:2984`) drops the reset
altogether. Both are the dead ends of `Settles`. The stroke of the recovery itself
is not recorded, so that a second power failure before the acknowledgement finds
no note and calls it lost. An open box at power up clears the step
(`id003.c:1085`). STACKER_FULL of a forced stacking ends in an error although the
note is in the box (`id003.c:15571`). The step says that the ICB counted the note
from before it is asked.

## 7. Plan

Done so far: the timer, the accept mode, the stack mode, the recovery after a
power failure, what happens between two notes (reject, alarms, enabled and
disabled), the USB receive ring, and the theorems about all of them. Next, in this
order:

1. `SerialLink`: the UART of the host between interrupt, callback task and line
   task, with repeated commands.
2. A module that composes the modes, a note being followed from the entrance to
   the box or back to the customer.
3. `MotorTask`: the common form of the device tasks (idle, busy, force quit,
   waiting sequence, alarm, retry), instantiated for APB, shutter and centering,
   and shown to implement the devices of `AcceptMode`.
4. That nobody is waited for in vain (`AnswersCome`, `AnswersAreOwed`) for `PowerUp` too.
5. `MessagePools`: the two pools, `get_mpf` that waits for ever, and who waits
   for whom; the dead ends of a full pool.

### Not modelled

The models cover the tasks that move a note and decide about its credit, with
the services they stand on. By lines this is a small part of the repository: of
its two and a half million, nearly all are vendored (register headers and drivers
of hwlib for four chips, twice; ThreadX and its uITRON layer, the USB stack,
FatFs), generated, or exercises for the board. None of them holds logic of the
validator. Of the program itself these parts stay out:

- recognition and country data: numerical;
- register access and interrupt plumbing, apart from the tick and the receive
  interrupts: no state beyond the registers;
- the recycler and its modes: compiled only for another product (`UBA_RTQ`);
- test, data collection and download modes, the boot program and the interface
  firmware: maintenance, without a note of a customer;
- display, bezel, dip switch, watchdog, OTG, USB detection: they poll a port or
  drive a lamp and share no state with the note.
