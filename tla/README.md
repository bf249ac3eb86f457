# MPStuBS in TLA+

MPStuBS is a teaching operating system for PCs with several processors: ticket
and spin locks, the prologue/epilogue model of interrupt handling, a preemptive
scheduler for all CPUs, and drivers for timer, keyboard, screen, local APIC and
IO-APIC.  This directory holds TLA+ modules that model its concurrent core, its
start and its drivers, TLC configurations that check them on small instances, and
proofs, checked by TLAPS, that its safety properties hold for any number of CPUs,
threads, gates and bits, and for any tables of the firmware.

All paths below are relative to the source tree of the system.

## 1. The system

| Component | Source | State | Operations | Hard because |
|---|---|---|---|---|
| Ticket lock | `machine/ticketlock.h` | `_ticketnumber`, `_turn` | `lock`, `unlock` | several CPUs, wrapping counters, `_turn++` is not atomic |
| Spinlock, gate flag | `machine/spinlock.h`, `guard/gate.h` | `_lock`, `queue_flag` | `set_queued`, `set_dequeued` | a gate is one object for all CPUs |
| Guard | `guard/guard.cc`, `guardian.cc`, `secure.h` | `queues[cpu]`, `flag[cpu]`, `s_lock` | `enter`, `leave`, `relay` | interrupts between any two statements, several CPUs, stacks that change CPU inside `leave` |
| Scheduler, dispatcher, threads | `thread/` | `jobs`, `life[cpu]`, `kill_flag`, saved registers | `ready`, `schedule`, `resume`, `exit`, `kill`, `dispatch`, `go` | preemption by epilogues, threads on other CPUs |
| Assassin, timer epilogue | `thread/assassin.cc`, `device/watch.cc` | pending IPIs, the timer of a CPU | epilogues that switch threads | IPIs that come late, twice or not at all |
| System start | `main.cc`, `boot/`, `machine/apicsystem.cc` | `callout_cpu_number`, `onlineCPUs`, the barrier `i` | `bootCPU`, `setupThisProcessor`, `main`, `main_ap` | time-outs, a fixed number of CPUs |
| Plugbox, panic | `machine/plugbox.cc`, `device/panic.cc` | 256 gate pointers | `assign`, `report` | exceptions are handled like interrupts |
| Timer interval | `device/watch.cc`, `machine/lapic.cc`, `utils/math.h` | `_ticks`, `_divide`, the timer registers of each CPU | `windup`, `interval`, `activate`, `div64` | 8, 32 and 64 bit arithmetic; one timer that is measured, stopped and started |
| Linked queue | `object/queue.h` | `head`, `tail` into the last element | `enqueue`, `dequeue`, `remove`, `insert_*` | intrusive links, a tail that points to a field |
| Keyboard | `device/keyboard.cc`, `machine/keyctrl.cc`, `keydecoder.cc` | controller buffer, decoder state | `epilogue`, `key_hit`, `send_byte` | one byte per interrupt, prefix codes |
| Bounded buffer | `object/bbuffer.h` | ring of elements | `produce`, `consume` | interrupt and kernel side; used by no driver at this commit |
| Output | `object/o_stream.cc`, `strbuf.cc`, `device/cgastr.cc`, `machine/cgascr.cc` | `buffer`, `pos`, `base`, cursor, screen | `operator<<`, manipulators, `flush`, `print`, `setpos` | a buffer shared with interrupts, windows next to each other |
| Interrupt controllers | `machine/lapic.cc`, `ioapic.cc` | device registers | `ackIRQ`, `sendIPI`, `setTimer`, `config`, `allow` | in-service state, pending IPIs |
| System description | `machine/acpi.cc`, `apicsystem.cc` | two configurations: CPUs, slots of the IO-APIC | `detectSystemType`, `getIOAPICSlot` | tables that are missing, broken, copied, or disagree |

`meeting/`, `thread/idlethread.cc`, `syscall/guarded_keyboard.h`,
`syscall/guarded_semaphore.h`, `syscall/guarded_bell.h`, `machine/serial.cc` and
`device/console.cc` are declarations without an implementation at this commit.

How the parts interact: an interrupt enters `guardian()`, which asks the plugbox
for the gate and calls `Guard::relay()`.  `relay()` runs the prologue with
interrupts disabled and then either enters the epilogue level (E1/2) itself, or,
if its CPU is on E1/2 already, puts the gate into the queue of the CPU.  A thread
reaches E1/2 with a `Secure` object, whose constructor calls `enter()` and whose
destructor calls `leave()`; `leave()` first processes the queue of its CPU.
Everything of the scheduler runs on E1/2: called by a thread, by the epilogue of
the timer (`resume()`), or by that of the assassin (`resume()` if the active
thread is to die), whose interrupt `kill()` sends to the CPU of the victim.  A
switch of threads happens in the middle of a system call or an epilogue, and the
new thread goes on in its own `leave()`, on the CPU that switched to it.

What makes the components correct:

* locks: mutual exclusion, first come first served, no lost wake-up;
* guard: one CPU on E1/2 at a time; no epilogue is lost or left behind; the flag
  tells the level of the CPU although threads migrate; a gate is queued once;
  every interrupt is acknowledged once;
* queues: the links represent a list at all times, whatever order elements are
  entered, removed and entered elsewhere;
* start: an application processor (AP) gets its own stack and number, the CPUs
  that are up are counted, nobody schedules before the threads are registered;
* detection: the CPUs are those of the better table, and a device is found at the
  slot that it is wired to, so that its interrupt reaches its driver;
* timer: divisions are right, a timer ticks only on a CPU that schedules, and at
  the interval that was asked for;
* output: characters appear in order and inside the window, in however many
  pieces the buffer is shown, and interrupts do not make it overflow;
* keyboard: every byte raises an interrupt whose epilogue reads it, no modifier
  stays set when its keys are up, the LEDs show the locks of the decoder;
* scheduler: a thread is at one place (ready list, one CPU, or gone); nobody runs
  on a stack that is in use; no thread is forgotten; a killed thread stops and
  stays stopped; ready threads run.

## 2. The modules

| Module | Models | Kind |
|---|---|---|
| `FifoLock` | what a fair lock promises | abstract specification |
| `TicketLock` | `machine/ticketlock.h` | refines `FifoLock` |
| `GateFlag` | an atomic queue flag | abstract specification |
| `Gate` | `guard/gate.h` on `machine/spinlock.h` | refines `GateFlag` |
| `Guard` | `guard/guard.cc`, `guardian.cc`, the EOI of the local APIC | component; also the abstract specification of what E1/2 allows its users |
| `Kernel` | `thread/`, `syscall/guarded_scheduler.h`, the epilogues of `device/watch.cc` and `thread/assassin.cc`, the calls of `main.cc` | composes the scheduler with `Guard`, refines `Guard` |
| `SequenceQueue` | what a queue promises | abstract specification |
| `LinkedQueue` | `object/queue.h` | refines `SequenceQueue` |
| `Boot` | `bootCPU`, `setupThisProcessor`, the loop and the barrier of `main.cc` | component |
| `Keyboard` | `machine/keyctrl.cc`, `machine/keydecoder.cc`, `device/keyboard.cc`, and the keyboard as they use it | component |
| `Locks` | the two locks of `guard.cc`, one taken while the other is held or awaited | composes `TicketLock` and `Gate` |
| `Division` | `utils/math.h` | algorithm, step by step |
| `Timer` | `device/watch.cc`, the timer of `machine/lapic.cc` | component, on `Division` |
| `Detect` | `APICSystem::detectSystemType()` with `machine/acpi.cc` | component |
| `Routing` | `machine/ioapic.cc`, `plugbox.cc`, the order of `boot/startup.cc` and `main.cc`, `guardian()` | composes `Detect` with the devices |
| `Terminal` | what a window of the screen promises | abstract specification |
| `Stream` | `object/o_stream.cc`, `strbuf.cc`, `device/cgastr.cc`, `machine/cgascr.cc` | refines `Terminal` |
| `LocksProofs`, `KernelProofs` (of `Guard` and `Kernel`), `LinkedQueueProofs`, `BootProofs`, `KeyboardProofs`, `TimerProofs`, `StreamProofs`, `RoutingProofs` (of `Detect` and `Routing`) | | theorems and proofs |
| `MC*` | | instances for TLC |

**TicketLock.** `TakeTicket` is the fetch-and-add, `Acquire` the exit of the
spinning loop, `ReadTurn` and `WriteTurn` the load and the store that `_turn++`
compiles to.  The counters wrap at `Width`, which stands for 2^32; the assumption
is that there are fewer CPUs than that.

**Gate.** A call is the sequence test-and-set, read of the flag (only
`set_queued`), write of the flag, release, return.  Callers have interrupts
disabled, so that a call is not nested on its own CPU.  `status` is the local
variable of `set_queued`.  `GateFlag` does all of it in one step, when the flag
is written.

**Locks.** `Guard::leave()` takes gates out of the queue while its CPU holds
`s_lock`, and `relay()` queues gates on a CPU that holds `s_lock` or waits for it.
Both calls spin with interrupts disabled, so that a CPU in the middle of a call
(`gate_pc`) does nothing about `s_lock`.  `Locks` puts the variables of both
modules together; `BeginCall` says when `guard.cc` makes which call.

**Guard.** A *context* is a flow of control with a stack: a thread or the boot
code of a CPU.  `running[c]` is the context on CPU `c`; `pc`, `stack` and `item`
belong to the context, so they move with the stack when a thread goes on on
another CPU.  The labels are

| label | where |
|---|---|
| `E0` | application code |
| `requested` | `relay()` between `enable_int()` and `enter()` (guard.cc 75-77) |
| `entered` | `enter()` after the flag is set, before the ticket is drawn |
| `spin` | waiting in `s_lock.lock()` |
| `body` | a system call or an epilogue |
| `leave` | the head of the loop of `leave()`, interrupts may be enabled |
| `dequeued` | a gate is dequeued, `set_dequeued()` is to come |
| `dead` | `CPU::die()` |

`stack[x]` holds the gates whose `relay()` has called `enter()` directly and has
not returned: handlers nest, since `relay()` enables interrupts before `enter()`
sets the flag.  A handler that runs with interrupts disabled belongs to the CPU
(`irq`, `handler`).  `Body`, `Switch` and `Die` leave open what the kernel does.
`Switch` goes to a context that no CPU runs; `SwitchTo` is the switch alone, which
looks at nothing.

Steps that are merged, and why nobody can tell: in `leave()` the last look at
the queue, the clearing of the flag, `unlock()` and the `sti` happen with
interrupts disabled, and of these only the release of the lock is visible to
other CPUs; the `sti` of `relay()` and the return from the interrupt are one
step, since an interrupt between them only deepens the stack of a handler that
has nothing left to do; `s_lock` is the queue of `FifoLock`, which `TicketLock`
is shown to implement; the flag of a gate changes in one step, which `Gate` is
shown to implement.  Acknowledging sends an EOI that retires the interrupt of the
highest priority in service (`AfterEOI`, the external part of the model).

**Kernel.** `Resume`, `Exit`, `Schedule`, `Kill`, `Ready` and `Spare` (the
epilogue of the assassin that finds nothing to do) are the methods of the
scheduler up to `setActive()`; `SwitchToNext` is `toc_switch` or `toc_go`.  Like the
code, it uses `SwitchTo` without looking whether another CPU still runs the thread;
that none does is part of what `ImplementsGuard` shows.
Between the two, interrupts are enabled and may queue epilogues.  Interrupts
cannot come from `active()`, which returns with interrupts disabled, up to
`setActive()`, so that one step is enough.  The calls of threads are an arbitrary
sequence over `Calls`; the boot code registers the threads (`BootCall`) and calls
`schedule()` once all are registered, which is what the barrier of `main.cc`
makes sure of.  An IPI is a pending bit of the target CPU, as in the local APIC.
`exit()` with an empty ready list is undefined behaviour, and the CPU halts in
the model; resume of a boot context after `toc_go` does not happen, it is left
for good.

**LinkedQueue.** A pointer to a pointer is named by the owner of the field that
it points to: `tail[q] = q` is `tail == &head`, `tail[q] = e` is
`tail == &e->next`.  `next` is one function for the links of all elements and the
heads of all queues, because the queues of the guard share their elements.
`remove()` is modelled turn by turn of its loop (`Remove`, `Advance`, then `Unlink`
or `NotFound`), so that operations on other queues come between; the operations
without a loop are one step.  Nobody else works on a queue while an operation on
it runs, which the guard has to care for.  `contents` is a history of what was
entered and taken out; no action looks at its order.  An element is only
entered when it is in no queue, which is what the flag of a gate and the states
of a thread are for.

**Boot.** CPU 0 goes through the loop of `main()` and, in `bootCPU()`, through
`NameStack`, `Reset`, up to two `SendStartup`, `Delivered` or `NotDelivered`, and
`GotCallin` or `NoCallin`.  An AP accepts its STARTUP IPI, takes the stack that
`ap_stack` names at that time, waits for a call (`SeeCall`), reads the number from
the mailbox again (`ReadNumber`), registers, and empties the mailbox.  All CPUs
then meet in the barrier, whose `i++` is a load and a store under a lock.  A
time-out is a nondeterministic choice: polling may end whenever the answer is not
there.  A CPU is named by its position in the tables, for its stack and its local
APIC alike; `BarrierSize` is the constant 4 of `main.cc`, and `Count` the number of
CPUs that are found.  `wait_all` is the loop `while (i != 4)`: a CPU that looks too
late may never see the value, and stays there.  `Register` leaves out the logical ID
of the local APIC (`apicsystem.cc` 773), which nothing reads at this commit.

**Keyboard.** The device is external: keys that are pressed and released send
their codes (`Press`, `Release`, `HitPause`), the controller loads one byte into
its output buffer when that is empty and raises the interrupt (`Load`), and the
keyboard answers each byte that it is sent (`Take`).  It is assumed that an answer
comes behind the codes that were sent before it and never between the bytes of one
code.  The driver is a constructor (`Drain`, `SendByte`, `Sent`), the unmasking in
`main()` (`Allow`), the interrupt (`Interrupt`) and the epilogue (`BeginEpilogue`,
`KeyHit`, and `SendByte` for an LED).  `Guard` enters by its contract: `relay()`
either is on its way to E1/2 (`direct`) or has marked the gate (`queued`), and
epilogues exclude each other.  `todo` holds the bytes that the constructor or
`set_led()` is still going to send.  `Decode` is `decode()` with its prefixes, its
seven modifiers and three locks, the codes that NumLock changes, and
`Ctrl` + `Del`; ASCII codes are left out, and so are the shift codes that a real
keyboard adds around some keys of the cursor block.  A mouse only fills the
output buffer with a byte that `key_hit()` throws away; its interrupt is masked.

**Division, Timer.** `Shift` and `Subtract` are one turn of the two loops of
`div64()`, on words of `Width` bits; `Call` and `Return` are its callers.  `Bit` is
a table of the powers of two, so that the proofs need no exponentiation.  `Timer`
goes through `main()` from `windup()` to the start of the CPUs: `timer_ticks()` is
`StartTimer`, `StopTimer` (the counter before and after the run of the PIT, with
some `Jitter` from polling) and a division; `Halve` and `Assign` are the loop of
`windup()` and what comes after it; `interval()` measures again.  `setTimer()` does
three writes, which are steps of their own (`WriteRegister`), since the other CPUs
call `activate()` in `schedule()` at the same time.  The divider is the 8-bit
`_divide`, in the model and in the instance alike; ticks and counters are smaller.

**Detect, Routing.** A machine is what the firmware left in memory: floating
pointers in the areas that are searched, root pointers of ACPI, and the tables, as
sequences of typed records.  Of a checksum, the sum is given.  Behind it are the
facts that the tables are about (`wiring`, `table`, `bsp`), which the properties
look at and no action does, except that a key press takes its wire.  The actions
are the searches, one per area, one action per kind of table entry, the map of the
slots and the choice.  What a search returns is named by its position: the first
valid structure of an area (`FoundMPFPS`), the last MADT of the first root pointer
(`FoundMADT`).  The number of a processor is how many enabled entries there are up
to its own (`Processors`).  `Routing` starts before, with the constructors, and goes on
with `IOAPIC::init()`, `config()`, `allow()` and the gates that `main()` plugs in.  A
register of the IO-APIC holds what was written; an edge at a masked slot is lost;
`Guardian` takes an interrupt through the plugbox to its gate.  What the gates do
on E1/2 is left to `Guard` and `Keyboard`.

`FirmwareAssumption` is what the firmware has to do for the code.  `SoundTables`: a
structure that passes the checks of the code leads to the table of the machine, in
as many copies and areas as it likes and next to any broken ones; and if there is a
table, the search meets it.  `NothingBehind`: what follows a structure of length
zero, where the loop ends, does not matter.  `BootProcessor`: the processor that
starts has the flag in the MP table and comes first in that of ACPI.  `Wires`: the
entries for the line of a device name the slot that it is wired to.  Nothing is
assumed of disabled processors, other lines and buses, or the order and number of
the entries.  TLC evaluates the assumption for the machines of the run.

**Stream, Terminal.** A statement is a sequence of operators (`Write`,
`WriteNumber`), each of which leaves characters in `text`; the loop that makes the
digits of a number is `Divide`.  `put()` takes the characters one by one in `Load`,
`Store` and `Increment` (`buffer[pos] = c` and `pos++`, where the compiler may read
`pos` once or twice).  `Flush`, `ShowNext` (one turn of the loop of `print()`),
`Printed` and `Flushed` are `CGA_Stream::flush()`.  `Interrupt` begins the `DBG`
statement of `guardian()` between any two steps of the interrupted code, whose
locals are `saved` until `Return`; the handler takes the same steps, and it is not
interrupted.  `use_cursor` tells `kout`, which has the cursor of the hardware, from
the debugging streams.  The screen has one value per cell; colours are left out.
`Terminal` is a tape of cells without buffer, lines or copying: what is written
appears in order, one character at a time (`Output`).  `setpos()` and `reset()` are
the only steps in which the place may jump (`Place`, `Clear`), between statements: a
`print()` that left the cursor where it began would not be a step of `Terminal`.
`Window`, `Position` and `NotShown` map one to the other.  The numerals of `Terminal` are
made by position, with a table of the powers of the bases (`Power`, a
constant); those of `Stream` come from the divisions of the code.

## 3. The runs

| Run | Instance | Shows |
|---|---|---|
| `locks` | 3 CPUs, counters wrap at 4, one gate | `Mutex`, the refinements of `FifoLock` and `GateFlag`, `SomeCallReturns`, `TicketServed`, for nested locks |
| `guard` | 2 CPUs, 3 contexts, timer and panic | the invariants of E1/2 under every interleaving of interrupts; `EpilogueServed`, `KernelEntered` |
| `kernel_kill` | 2 CPUs, 3 threads, timer and assassin; threads yield, exit and kill | a thread is at one place, none is lost, the dead stay dead, and the kernel implements `Guard` |
| `kernel_live` | 2 CPUs, 3 threads, no assassin interrupt | `KilledStops`: the timer suffices; `EveryThreadRuns` |
| `linkedqueue` | 2 queues, 3 elements | `Represents`, the refinement of `SequenceQueue`, `RemoveEnds` |
| `boot` | 3 CPUs, a barrier for 3 | `OwnStackAndNumber`, `OnlineAreUp`, `BarrierHolds` with every time-out; `AllSchedule` |
| `keyboard` | both Ctrl keys, CapsLock, Del, Pause | `OneEpiloguePerByte`, `NoModifierStuck`, `LEDsMatch` |
| `timer` | 2 CPUs, 17-bit words, 4 rates, 6 intervals | `QuotientCorrect`, `ArmedByActivate`, `IntervalAsAsked`, `TimersRun` |
| `routing` | 4 sets of CPUs, 5 wirings, MP and ACPI tables that are there, missing, copied, broken or unlike | `ProcessorsAsDescribed`, `SlotsAsWired`, `KeysAreRead` |
| `stream` | a window of 5 x 2 in a screen of 7 x 4, 3 operators, 2 interrupts | `InBounds`, `OutsideUntouched`, the refinement of `Terminal` |
| `guard_shared_gate` | 2 CPUs, timer | violation of `DeferredOnThisCPU` |
| `kernel_die` | 2 CPUs, 2 threads | violation of `OthersContinue` |

The type invariants, and `TicketsInUse` and `LockInvariant` of the locks, are proved
(section 4) or were part of a run while the modules were written; they are not run
any more.  The types of `Kernel` are `KTypes` in `KernelProofs`.

*Bounds.*  Two CPUs are enough for a CPU to run into the critical section of
another, and for a gate or a thread to be wanted by both; with a third context
(or thread) a context moves to the other CPU while its own CPU goes on with a
different one.  Counters that wrap one above the number of CPUs wrap while all of
them compete, and the assumption `WidthAssumption` is at its limit.  `MaxNest`
bounds the handlers on one stack that wait for E1/2; the code has no bound (see
hazards), and a second one is the first that interrupts another.  With three
threads on two CPUs the ready list is empty, has one entry, or more.  Three
elements make a list with a first, a middle and a last one, and two queues let a
stale link point into the other queue.  With three CPUs one AP can be late while
the next one is started; `Count = 4` and `BarrierSize = 4`, the numbers of the
code, have 1.1 million states and were checked once with the same result.
With `MaxLine = 1` no key moves while more than one byte is on its way; a key of
two codes or a Pause makes the line longer, so that a prefix, the answer to an LED
command and the code of another key stand in it together.  The two Ctrl keys differ
by their prefix only, CapsLock makes the driver send from its epilogue, Del reboots,
and the LED of NumLock is on when the firmware hands over.

In `timer` the rates and intervals make the ticks of an interval zero, fit at once,
need a divider, get one twice as large as the counter requires, or make the divider
run over; words, counters and the range of the ticks are
narrower than in the code, the divider is not.  The numbers of the code are too
large to enumerate; `DivisionCorrect` is proved for every width.  In `routing` two
entries of `lapic_id` are fewer than the three CPUs that some machines have, in the
tables of ACPI, of the MP specification, or of both; a table lies in one area or two; six
slots leave two without a line, and a line is moved up, down or not at all; the
tables are in either order.  In `stream` the buffer is full after three characters,
so that an operator is flushed in the middle and a statement in pieces; the window
is two lines high and its text starts three cells before its end, so that three
operators wrap, scroll and break a tab at the end of the line; two interrupts can
hit the same character.  A tab stop is every second cell instead of every fourth.

*Deadlock.*  Every CPU may call `die()`, after which nothing happens, `Boot` ends
with all CPUs at the scheduler, and `Keyboard` with the reboot: the runs of
`Guard`, `Kernel`, `Boot` and `Keyboard` do not check deadlock.  `Timer` ends when the timers run,
`Routing` when no key is pressed (or in a table with an unknown entry), and
`Stream` when its operators are used up, so that they do not check it either.  The other runs do.

*Fairness.*  A lock that is free or whose turn has come is seen by a CPU that
polls it (weak).  A handler has interrupts disabled and ends (weak).  Code on
E1/2 and on its way there is interrupted again and again, but at least one
instruction is executed between two interrupts (`sti` is followed by `nop`),
hence strong fairness of the steps of a CPU.  The bodies of system calls are
finite.  The timer is periodic and strong fairness lets it find its CPU on E0 at
some time.  Nothing is assumed of applications and devices.  The loop of
`remove()` waits for nothing, and each CPU goes on while it starts (weak); it
takes the lock of the barrier once, so that weak fairness is enough.  So it is for
`Timer`, where the boot CPU waits for nobody and each CPU for itself, and for
`Routing`, where the boot CPU goes on and a pending interrupt is accepted as long as
it is pending.  In `Locks` a call of a gate runs with interrupts disabled (weak), while the
steps on `s_lock` come between calls again and again (strong); nobody has to ask
for a lock.  `Stream` has no liveness property.

Some properties have premises.  `NoFailure` (`OwnStackAndNumber`, `OnlineAreUp`,
`AllSchedule`): no call of `bootCPU()` has returned false.  When one has, the AP
that was late still takes what the mailbox and `ap_stack` hold by then, which may
be the stack and the number of the next AP, or -1, read again after the loop; the
code promises nothing for this case, and `main()` does not look at the result.
`BarrierHolds` has no such premise.  `HandlersEnd` (`TicketServed`): the holder of
`s_lock` needs the test-and-set lock of a gate, which is not fair: handlers that
queue the gate on the other CPUs without end may keep it from getting it.  `LoadEnds`: the loop of `leave()` goes on
as long as new interrupts arrive faster than it processes them, and the other
CPUs then wait; `KernelEntered` does not hold without it.  `NobodyDies`: a dead
CPU keeps `s_lock` (`kernel_die`).  `NoFlood` is the same as `LoadEnds` for
threads, which need the CPU to be on E0.  `Clean` (`OneEpiloguePerByte`,
`NoModifierStuck`): when `main()` unmasks the interrupt no byte is underway, and
no mouse sends.  The buffer is drained once, in the constructor; a byte that comes
between that and `main.cc` 63-70 raised its interrupt while it was masked and stays
in the buffer, so that no other byte can come and the keyboard is deaf.  The same
goes for a byte of the mouse.  `LEDsMatch` has no premise.
`SlotKnown` (`SlotsAsWired`, `KeysAreRead`), `KnownEntries` and `early`
(`KeysAreRead`) leave out what the code gets wrong, and `IntervalAsAsked` the
intervals for which the divider runs over; see the divergences below.
`ProcessorsAsDescribed` has no premise: where the code deviates from the tables, it
says what comes of it (`Counted`).  `ImplementsTerminal` speaks of output that no
interrupt has disturbed, and the statements of the debugging output are shorter than the buffer
(`count`): a longer one that is disturbed where the buffer is full is flushed by
the handler first, and `put()` then stores behind its end.

### What the violations show

* **`guard_shared_gate`.** `guard.h` 38-40 gives every CPU its own epilogue
  queue, but a gate has one `queue_flag` for all CPUs.  If the timer gate waits in
  the queue of one CPU, `relay()` on another CPU that is on its way to E1/2 finds
  it marked and drops its epilogue: this CPU loses the tick, and likewise an
  assassin IPI.  `KilledStops` shows that the timer makes up for a lost IPI.
* **`kernel_die`.** `cpu.h` 96-99 says that `die()` concerns only the CPU that
  calls it.  `schedule()` and `resume()` call it with `s_lock` held.

Other divergences are plain from the lines and need no run:

* `guardian()` does not call `trigger()` any more, so that unexpected interrupts and
  exceptions are acknowledged and ignored, although `panic.h` 16 says that the
  processor is stopped.  `keyboard.h` says that Ctrl-Alt-Del reboots;
  `keyboard.cc` 25 looks at Ctrl only.
* `exit()` dispatches a null pointer when the ready list is empty (`scheduler.cc` 17).
* A byte of the keyboard that comes between the constructor and `allow()` is never
  read, and the keyboard stays deaf (`early`).
* `apicsystem.cc` 76-80 sets `UNDETECTED` and overwrites it.  Lines
  116-123: a null pointer to the RSDT is reported and then followed.  Lines
  276-289: a line that ACPI moves to a slot below its number is taken for its legacy
  slot.  Line 406: a type that the loop does not know never ends it.  Line 258: the
  slot of an override is not compared with the size of the array.
* `apicsystem.cc` 43 and 356: the search goes on after an MP table with one processor.
  If the table is met again, in another copy or because the areas overlap, its
  processor is counted twice, and the system starts as one with two processors
  (`MetAgain`).  Line 412: nothing bounds the number of processors of an MP table,
  while `lapic_id` has `CPU_MAX` entries (line 419) and ACPI stops at that number (line
  198).  An MP table of more processors is therefore preferred (line 63), also if ACPI
  describes as many, and `getNumberOfCPUs()` is larger than `CPU_MAX`.
* `watch.h` 43-47 asks `windup()` for the smallest divider that keeps the 32-bit counter
  from overflowing, and the comment in `watch.cc` 20 speaks of 32 bits.  `watch.cc` 21
  compares with 2^31: an interval of more ticks than half of the counter holds gets
  twice the smallest divider, at half the resolution, and the longest ones, which only
  128 holds with more than 2^31 ticks, are treated as too long.
* `windup()` shifts an 8-bit divider, which is zero before it is larger than 128, so
  that it does not return false for an interval that is too long; `timer_div()` then
  has no register value.  A second `windup()` would start with the divider of the
  first, and `interval()` stops the timer of its CPU: `main()` calls both once, before
  `activate()`.
* An unsigned zero keeps the base of the stream (`o_stream.cc` 77-80), any other number
  resets it.  A tab that meets the end of a line goes on in the next one.

## 4. The proofs

| Theorem | Says |
|---|---|
| `LocksProofs!TicketInvariant`, `MutualExclusion` | the ticket lock excludes for every finite set of CPUs smaller than the width of its counters |
| `LocksProofs!TicketLockRefinement` | it serves the CPUs in the order in which they asked: it implements the steps of `FifoLock` |
| `LocksProofs!GateLock`, `GateRefinement` | the spinlock of a gate protects its flag, and the calls implement the atomic flag, for any set of CPUs |
| `LocksProofs!NestedMutualExclusion`, `NestedFifo`, `NestedGateLock`, `NestedGateRefinement` | all of this when the locks are nested as in `guard.cc` |
| `TimerProofs!DivisionTypes`, `DivisionCorrect` | `div64()` returns quotient and rest, for words of any width and all arguments |
| `TimerProofs!TimerDivides` | so it does whenever `Timer` calls it |
| `TimerProofs!TimersArmedByActivate` | no timer raises interrupts before its CPU calls `activate()`, for any CPUs, rates and intervals |
| `TimerProofs!IntervalCorrect` | the timers that run tick at the interval that was asked for, up to one step, with the smallest divider that the counter allows or twice that (`watch.cc` 21), for any rates and intervals whose products fit in a word |
| `LinkedQueueProofs!QueueTypes`, `QueuesRepresentLists` | the links represent disjoint lists, for any sets of queues and elements |
| `LinkedQueueProofs!QueueRefinement` | the operations implement those of `SequenceQueue` |
| `BootProofs!BootTypes`, `StacksAndNumbers`, `OnlineCount` | the APs get their own stacks and numbers and are counted, until a call fails, for any number of CPUs |
| `StreamProofs!OutputInBounds` | no character is stored outside of the buffer or goes on outside of the window, for any window, buffer and text |
| `StreamProofs!WindowsApart` | nothing that prints changes a cell outside of its window, for any window and screen |
| `StreamProofs!TerminalRefinement` | until an interrupt prints, each step of the stream is output of `Terminal` or changes nothing of it, and only `setpos()` and `reset()` move the place otherwise, for any window, screen, buffer, tab, text and numbers |
| `BootProofs!BarrierIsSafe` | the barrier holds if it is made for at least the CPUs that there are |
| `KernelProofs!GuardTypes`, `KernelExclusive`, `EpiloguesNotStranded`, `FlagCorrect`, `GatesQueuedOnce`, `EOIsMatch` | the safety invariants of `Guard`, for any CPUs, contexts, gates and `MaxNest` |
| `KernelProofs!KernelInvariant` | the invariant of the scheduler, for any CPUs, threads, gates and system calls |
| `KernelProofs!KernelImplementsGuard` | the scheduler does what the guard allows; above all it switches to no stack that a CPU is on |
| `KernelProofs!LifeCorrect`, `ActiveAlwaysKnown`, `ReadyOnce`, `ThreadsNotLost`, `KilledNeverDispatched` | the safety properties of the run `kernel_kill`; no step dispatches a killed thread or one that is executed |
| `KeyboardProofs!KeyboardTypes`, `KeyboardNeverDeaf`, `LEDsShowLocks` | every byte has its interrupt or epilogue, and the LEDs show the locks, for any keys, firmware LEDs and `MaxLine` |
| `KeyboardProofs!ModifiersRelease` | no modifier is set whose keys are up when all bytes are read, for the same |
| `RoutingProofs!DetectedSlots` | `getIOAPICSlot()` returns the slot that a device is wired to, for any firmware that tells the truth, and any number of lines and slots |
| `RoutingProofs!DetectedProcessors` | the system has the processors of the table that describes more, as often as the code counts them (`Counted`), for tables of any length in any areas and any `CPU_MAX` |
| `RoutingProofs!DetectionAdvances` | every step of the detection reads an entry or goes on to a later part of it, so that it stops or comes to its end |
| `RoutingProofs!NoLostKey` | a byte that came after the slot was unmasked has its interrupt pending until it is read |
| `RoutingProofs!NoPanic` | no interrupt of the IO-APIC finds the gate `Panic` once interrupts are enabled |

*Ticket lock.*  `Mutex` is not inductive.  `TicketsInUse` is: the distance from
`turn` to `ticketnumber` is the number of CPUs with a ticket, every outstanding
ticket lies below that distance and belongs to one CPU, and a CPU in the critical
section (or in the middle of `unlock()`) has the ticket that is served.  Since
there are fewer CPUs than counter values, a new ticket is different from all
outstanding ones, also after a wrap.

*Locks.*  Every step of `LSpec` is a step of `TicketLock` or of `Gate` that leaves the
variables of the other alone, so that the composition implements both, and the
theorems about each of them apply.

*Division.*  While `den` is shifted up it is `qbit` times the divisor, so that
no bit is lost before the highest one is set; while it is shifted down, the rest is
less than twice what was subtracted last, `quot` is a multiple of the next two
`qbit`, and the dividend is `quot * divisor + num`.  The powers of two enter by
`BitAssumption` only.  A zero divisor never leaves the first loop.

*Timer.*  The invariant says for every CPU what the last `setTimer()` has left to
write and what of it is in the registers: a call that does not mask the interrupt
finds the count at 0, and the count of a call that is not `activate()` is 0 unless
the boot CPU measures, which it does with its interrupt masked.  That the registers
of the timer are written one after the other is what makes more than the last call
matter.

For the interval, `FlowAt` follows the number of ticks through `main()`.  While
`windup()` measures, `_divide` is 1, and the ticks are what `div64()` makes of the
frequency and the interval.  At every loop head that number, times `_divide`, is the
wanted one but for what is rounded down (`Fits`, and `Halved`: rounding down twice is
rounding down once), as long as the loop ends with a divider; which one it is follows from where the loop
stopped.  `interval()` leaves both
alone.  This needs `WordAssumption`, that the products fit in a word: in the
code they are products of 32 bits in 64.

*Guard.*  The inductive invariant `IInv` adds to the properties: the contexts of
different CPUs are different; a context that no CPU runs will go on in `leave()`;
the CPUs that requested `s_lock` are exactly the ones at a label between `spin`
and the release, each once, and the one inside is the first; interrupts are
disabled while a handler runs or a gate is being dequeued.  The mark of a gate is
then tied to the one place where the gate is.  One lemma says what each kind of
step leaves alone; the steps that touch queues are proved by what `Append` and
`Tail` do to the set of their elements.

*Kernel.*  `KInv` adds four parts to the invariant of the guard.  `CallsFit`: who
makes which call; the boot code calls `ready()` for the thread that is registered
next, and `schedule()` only when all are.  `Registration`: as long as one is not,
no thread is executed or killed, so that it is in no list.  `Dispatch`: `life` is
the thread that a CPU executes, or is about to execute between `setActive()` and the
switch; only one CPU, which is inside E1/2, is in between, the thread it is about to
execute was taken out of the ready list, is alive and on no other stack, and the ready
list holds each thread once and none that is executed.  `LeavesNobody`: the
thread that is about to be left is ready again, killed, or has called `exit()`.
`BootQuiet`: the timer and the assassin do not interrupt a CPU that has no thread
yet, for which `resume()` and `kill()` would follow a null pointer.  From these,
that `SwitchTo` goes to a stack that no CPU is on follows although the code does
not look, so that every step of the kernel is one of the guard, and the theorems about
`Guard` hold of it.  `NoSecondLife` follows step by step.  The proof assumes that
every thread is registered once (`Order`), that the threads are told from the boot
code, and that the names of gates and calls differ.

*Linked queue.*  `Represents` is inductive together with the types.  It says for
every position of a list what the field before it holds, so that an operation is
checked at the position where it cuts or splices; that no two positions hold the
same element tells the assignments to different fields apart.  For `remove()` it
adds where the loop is: `prev` is the field before `current`, and what lies before
is not the item.  The loop therefore ends at the item if the list has it
and at the end if not (`LoopFinds`), and each operation maps to the one of
`SequenceQueue` on `contents`.

*Boot.*  The APs are ordered by the loop of `main()`: as long as no call failed,
those before `called` are in `main_ap()`, those after it are off, and only `called`
itself is underway (`InOrder`), where the mailbox and `ap_stack` can be told from
the label of CPU 0.  For the barrier, `i` is the number of the CPUs that have
written it, and the one between `ReadCounter` and `WriteCounter` holds the lock and
a copy that is still right.  The assumption `BarrierSize >= Count` is needed only
for CPU 0: with a smaller number the others may meet without it.

*Keyboard.*  The interrupt is masked until `Allow`, and nothing is underway by
then; after it every byte that is loaded adds one to the interrupts and epilogues
and every epilogue takes its byte away, so that there is never more than one.  The
LEDs are followed through a command and its data: what remains to be sent, what
the input buffer holds and what the keyboard waits for together end with the LEDs
of `led_ctrl_byte`, which are the locks of `modi`.

The modifiers are not inductive by themselves either, since the decoder lags behind
the keys.  `HeldInv` reads what is still underway, the output buffer and `line`, as
the decoder will (`Decodes`: there are the prefixes and modifiers between the
bytes): from its present state it ends without a prefix, with a set of modifiers
that are all pressed.  A key that goes up or down appends a code that keeps this
true, whatever the prefix before it; the driver takes the first byte away. A
Pause and the answers to LED commands change nothing.

*Stream.*  How much is in the buffer is three invariants.  For `kout` (`KoutFits`)
`pos` is below the end whenever a character is stored, since `put()` flushes when it is
not.  For the debugging output (`DebugFits`) the copy of `pos` may be old, because a
handler has emptied the buffer in between; what holds is that `pos` and the copy
alike, with the characters that are to be put yet, are no more than the characters
of the statement, which is shorter than the buffer.  While a handler prints
(`HandlerFits`) the same is true of what it saved, and it leaves the buffer empty.
That the locals of `print()` stay in the window is a lemma about one turn of its
loop (`IterationInside`), which also says that the turn changes no cell outside.

For the refinement the window is read as a tape (`PageOf`): a cell has one line and one
column, so that `show()` changes one cell (`ShowPage`), and moving up the lines
drops the first `width` cells (`ScrollPage`).  A turn of the loop is then one step of the
tape for each character, at the last column and the last line too
(`IterationShows`).  What is not shown are the characters of the buffer that
`print()` has not reached, then those of the text: `put()` moves the border, a turn
takes the first one away, and every other step leaves them alone.  `TerminalInv` has
what this needs as long as no interrupt has printed: the copy of `pos` is `pos`, and
a tab that has begun is the next character.  For numbers it says which digits have been
found (`Digits`): the last ones of the numeral, by position.  A number is below the
power of two that bounds the word and a base is at least 2, so that there are never
more digits than bits (`DigitsGrow`; `buff` has room for 32), and when nothing is left
there are as many as the numeral has.  The powers enter by `PowerAssumption` only.

*Detection.*  Both properties speak of the end, so that the invariant has to say what
each configuration is worth in the middle.  `rest` is the rest of a table, hence
`Read` entries of it have been read, and a loop is followed by their number:
`MPSProcessors(n)`, `MPSSlots(n)`, `ACPIProcessors(n)` and `ACPILines(n)` are what the
configurations hold after the first `n` entries, so that no induction over tables is
needed beyond the one over steps.  That a processor does not overwrite another one
(`StoreNext`) is that numbers go up with entries (`CountUp`, from the cardinality of
the set of enabled entries).

Between the areas of the search (`Before`) the table has not been met, or it has no
processors, or it has one and has been met once: with several, or with one that was met
twice, the search stops.  A second reading (`MPSAgain`) counts on from one and stores the
processor again behind its place, so that what the first has stored remains.  The slots
do not depend on this (`SlotsRead`), since reading a table twice stores the same; they
need that nobody looks at them if no processor was counted,
because then ACPI is chosen.  For ACPI, a line is at no slot but its own
(`ACPILines`), and it is there once its override has been read; the identity that
`generateIRQMap()` fills in adds a slot for a line without an override, and the last
slot is the right one unless the wire goes below the number (`MapGenerated`).

*Keys.*  From `IOAPIC::init()` on `main()` has the slot of the configuration, which is
not changed any more (`SlotAsked`), no other slot is unmasked, and this one has the
vector of the keyboard before (`Redirected`).  With `DetectedSlots` that slot is the
wire of the keyboard, so that the edge of every byte after `allow()` becomes a pending
vector (`ByteIsPending`), and the plugbox has the driver for it before interrupts are
enabled (`Handled`).  `KeysAreRead` says what follows from this and from
`DetectionAdvances` by fairness, which TLC checks.

Only model-checked: the liveness properties (`SomeCallReturns`, `TicketServed`,
`EpilogueServed`, `KernelEntered`, `KilledStops`, `EveryThreadRuns`, `RemoveEnds`,
`AllSchedule`, `TimersRun`, `KeysAreRead`), since fairness and `ENABLED` are out of the
prover's reach.  All invariants, action properties and refinements that the passing runs check
are proved.

## 5. Plan

All of the plan is done.  What could follow is what would come into use with later
versions of the system: the bounded buffer, the semaphore and the waiting rooms.

## 6. Not modelled

* The bounded buffer (`object/bbuffer.h`) is instantiated nowhere, so that nothing
  says which of its sides runs where.
* Descriptor tables, the assembly before the first constructor and the CPU's names
  are constants that nothing changes later.
* `forbid()` and `status()` of the IO-APIC, the XSDT, external APICs in `bootCPU()`
  and the ASCII codes of keys have no user, or none that a property is about.
* Colours of the screen, and the choice of a debugging stream by the number of the
  CPU: each CPU has a window of its own, and `OutsideUntouched` keeps it there.
* The serial console, semaphore, bell, idle thread and guarded keyboard have no
  implementation at this commit (section 1); `test-stream/` is a program for the host.
