# TLA+ models of the Broadcom drivers of the Netgear D7000

The repository is the kernel package of a DSL router: Linux 3.4-rt with
Broadcom's board support for the BCM63138 (two Cortex-A9 cores, SMP, little
endian) and its network processor, the Runner. The models cover Broadcom's own
drivers (`bcmdrivers/`, `shared/opensource/`) and its multicast snooping in the
kernel's bridge, not the vendored kernel itself. They
follow the configuration of that chip: BPM buffers, ENET impl5, WFD impl1, no
WFD receive acceleration. Paths below are relative to the root of the source
tree; `LED` is `bcmdrivers/opensource/char/board/bcm963xx/impl1/bcm63xx_led.c`.

## 1. Inventory

| Part | State | Operations | What is hard | Correct when |
|---|---|---|---|---|
| Board LEDs (`bcm63xx_led.c`) | state and countdown per LED, `gTimerOn`, `gTimerOnRequests`, `gLedRunningCounter` | `boardLedCtrl` from any context, `ledTimerExpire` in the timer softirq | callers race the handler, which takes the lock once per LED | the timer is queued once, no blinking LED loses it, lights show states |
| CPU receive ring (`shared/opensource/rdp/rdp_cpu_ring.c`, `rdp_cpu_ring_inline.h`) | descriptors with ownership bit, head, buffer cache | create, delete, flush, read with refill, admin status | shared with the Runner; failures half way; pool runs dry | FIFO, buffers conserved, both sides agree where packets are |
| Wi-Fi forwarding (`net/wfd/impl1/wfd_dev.c`, `runner_wfd_inline.h`) | work bits, interrupt mask and status, rings, thread | interrupt handler, receive thread, two bulk readers, bind, unbind | wakeups lost between the last look at the ring and the enabled interrupt | packets are attended to, buffers conserved |
| Push buttons (`board.c` 5857-6305) | events, `active`, time stamps, poll timer, thread | press interrupt, poll, thread | level interrupt, event bits that merge, unlocked update | every press and release handled, times make sense |
| Push button hooks (`pushbutton.c`) | arrays of hooks, index of the next hold hook | register, deregister, press, hold, release | arrays change while the index is in use | right hooks, once, in order |
| External timers (`char/timer/impl1`) | timer table, mask register, interrupt handlers | allocate, free, start, set period | freed while running; 32-bit period | a freed timer can be used again |
| Ethernet, Runner back end (`net/enet/impl5`) | two queues, interrupt masks, `rx_work_avail`, list of free skbs, two locks | interrupt handler, receive thread, `bcm63xx_rx`, `bcmeapi_free_skb` | unlocked flags on two cores, second look after enabling, locks held over bulks of packets | no stall, no skb lost or used twice |
| Bridge IGMP snooping (`net/bridge/br_igmp.c`, `br_netlink_mcpd.c`, `br_mcast.c`) | group entries with reporters and flows, packets waiting for the daemon `mcpd`, one timer | join, leave, refresh, timeout, device events, VLAN changes, admission | one timer for everything, messages of `mcpd` lost or late, parts that fail | no flow without entry, reporters age, packets leave |
| xDSL data path (`net/xtmrt/impl5`) | queues on CPU rings | flush, receive | flush without waiting for the reader | |
| BDMF objects, BLOG, GBPM, nbuff | pools, reference counts | | life cycle, limits | |
| spudd, flash, SPI, board parameters, host tools | | | device registers, third-party code | not modelled |

Interaction: the Runner writes packets into rings whose buffers come from the
GBPM pool in bulks (all or none, `bdmf_system.h`); WFD, Ethernet and xDSL read
them and pass them on; whoever frees a packet returns its buffer to the pool.
Buttons call hooks, hooks set LEDs. The bridge passes IGMP packets to `mcpd` over
netlink and enters in its table, and in the accelerator, what `mcpd` answers. `PROJECT.json` lists the hazards at their
lines.

## 2. Modules

| Module | Models |
|---|---|
| `BoardLed` | the LED driver |
| `BoardLed_proofs` | theorems about `BoardLed` |
| `PacketFifo` | abstract specification: what a receive queue promises its reader |
| `CpuRing` (`MCCpuRing`) | the CPU ring with its buffers; implements `PacketFifo` |
| `CpuRing_proofs` | theorems about `CpuRing`, the refinement of `PacketFifo` among them |
| `WfdRx` | reception of one bound WFD object |
| `WfdRx_proofs` | theorems about `WfdRx` |
| `BoardButton` | interrupt handler, poll and thread of one button |
| `BoardButton_proofs` | theorems about `BoardButton` |
| `PushButton` | hooks of one button |
| `PushButton_proofs` | theorems about `PushButton` |
| `IgmpSnoop` (`MCIgmpSnoop`) | IGMP snooping of one bridge |
| `IgmpSnoop_proofs` | theorems about `IgmpSnoop` |
| `EnetRx` | reception of the Ethernet driver |
| `EnetRx_proofs` | theorems about `EnetRx` |
| `Extrema_proofs` | least and greatest elements of sets of numbers, for the proofs |

Operators named `Mut...` are variants of the definition that follows them, each
with a plausible mistake; they are used to see that a property notices it. They
are not part of any specification.

**BoardLed.** `boardLedCtrl` holds `brcm_ledlock` throughout and is one step.
`ledTimerExpire` is a step per LED (`ExpireLed`) and one for the final decision
(`ExpireEnd`), as it takes the lock that often; `pc` says where it is. `pending`
counts how often the timer is in the timer wheel, so that queueing it twice
(a BUG_ON of `add_timer`) is visible. An LED is its two lights; one without a
GPIO stays dark. `CounterSpan` stands for 2^32: only the counter modulo 2 and 10
matters, and 16 is congruent to 2^32 modulo 10 and even, so the wrap is the real
one.

**CpuRing.** Each way create can end once it has begun is an action (`Create`): the ring
is ready; the ring is ready but its shell commands cannot be registered
(`CreateRingNoShell`, which returns 1 with the ring in place); the pool runs out
after some bulks, and what was drawn for the descriptors is given back by the same
operator as in delete (`FreedBuffers`); no memory for the cache; none for the
descriptors. A read is two steps,
before and after the refill, so that the Runner (and with `FlushRaces` a flush)
can come in between. A flush is one step; when it returns early because the Runner
cannot be stopped, it has changed nothing. Buffers are identities, so that one in two places shows.
The Runner, the pool and the stack are external and do what the code expects of
them: the Runner fills the descriptors it owns in ring order and drops packets
when it owns none. `base` and `buff_cache` are NULL, live or freed; following
another than a live base sets `fault`, after which nothing happens. The ring is
read only while it exists and not while it is deleted: the owners see to that,
the code does not check it.

**WfdRx.** The handler is four steps (mask, clear the status, set the work bit,
wake), the thread one per access to shared state. The ring is the number of
packets in it, buffers are counted. Interrupt coalescing delays the status; the
status is latched while masked. `eFwdHookType`, a parameter of `wfd_bind`,
chooses the reader. The initial state is the one `wfd_bind` leaves.

**BoardButton.** The interrupt is level triggered and nothing masks it, so it
is taken again while the button is down (`IrqTaken`). The thread's
`events &= ~BTN_EV_HOLD`, done without the lock, is a load and a store; with
`RmwRaces` another core may write between them. Times are kept as the four
comparisons the code depends on.

**PushButton.** An array of hooks is the sequence of its used entries. Hooks
are chosen in one step, under the lock, and called one by one after it. Holds and
the release come with any times, also ones that go back: `board.c` computes them
from stamps that later interrupts overwrite, and the differences are unsigned.
`held` is the longest time seen since the press.

**IgmpSnoop.** What is done under `br->mcl_lock` is one step. The messages of
`mcpd` are handled one after the other (netlink), each holding the lock once or
twice: after the first part `mcpd` is `"wipe"`, and packets, the timer and device
events come before the second. A device event is two steps for the same reason;
events come one at a time (network device notifications do, under
RTNL; a change of VLAN rules that overlaps one is left out). A `Key` is what add and remove compare; its entries are the root and a copy for each
further VLAN rule (`br_mcast_vlan_process`), whose matching and activation is a
nondeterministic choice. A blog is a member of `flows`. Times are what is left of
them in steps of `TIMER_CHECK_TIMEOUT` (2 s); below `-Check` they are not followed,
as the timer is due at once either way. A timer that has fired is `firing` until
its handler gets the lock, and may be set anew in the meantime. A packet is its
address, and an address is used again once its packet is freed; `asked` are the
questions on their way, whose answers may be late; a question may be lost. A question
is an address and an age, the number of packets that have left a slot at that
address since it was asked: one of age 0 is about the packet that waits there now
(so two questions about one address are told apart; mcpd's answer carries the
address only). The allocation of a reporter may fail any number of times. What
`mcpd` decides is not followed: yes and no both empty the slot.
`netdev_path_is_leaf` is taken to hold, and the snoop handler's checks of names
and devices to have passed.

**EnetRx.** Each access to an interrupt mask or status, to `rx_work_avail` and to
the head of the free list is a step. Both queues' interrupts are routed to one
core, so there is one handler at a time; it runs beside the thread, whichever core
that is on. `bcm63xx_rx` runs with bottom halves disabled: on its core other code
comes in only where it calls out, into BLOG (`finit`, both locks held) and the
stack (`receive`, none held); there and on the other core skbs are freed, possibly
under `blog_lock`. Steps that only the holder of both locks can see are merged, and
the locals of `bcm63xx_rx` are reset when it returns. Interrupt coalescing is left
out: it only delays the status, and a status that is latched with the packet gives
the handler more chances to come in between. An skb from the slab is no member of
the list and is not followed. The initial state is that after `bcmeapi_open_dev`.

## 3. Runs

| Run | States | Shows |
|---|---|---|
| `BoardLed` | 47 668 | the seven invariants, an LED left blinking goes on and off for ever, the timer rests once nothing blinks |
| `CpuRing` | 9 698 | conservation of buffers, `RingSync`, refinement of `PacketFifo`, failed creates without buffers leave no ring |
| `CpuRingFailedCreate` | violation | a create that fails for want of memory leaves a ring that exists |
| `WfdRx` | 11 732 | no lost wakeup, mask and work bit handed over, buffers accounted, packets attended to |
| `BoardButton` | 2 564 | polled exactly while active, releases noticed, presses handled |
| `BoardButtonTorn` | violation | an unlocked update erases a release |
| `BoardButtonStamp` | violation | hold and release times older than the press |
| `PushButton` | 1 192 880 | order of the arrays, choice of release hooks, each hold hook once |
| `IgmpTable` | 92 480 | flows belong to entries, copies have the reporters of their root, silent reporters leave the table |
| `IgmpPending` | 358 854 | the timer covers every deadline, packets and slots agree, no packet waits without admission control, every slot becomes free |
| `IgmpLateAnswer` | violation | a late answer decides on another packet that waits with its own question |
| `EnetRx` | 967 242 | no lost wakeup, every skb in one place, packets attended to |

Bounds. `BoardLed`: two LEDs, one with and one without a red light, so that a
caller can change an LED the handler has passed, has yet to reach, or is alone
with; `MaxRequests` = 2 outstanding requests, since the code only tests for
more than none; one LED uses the WPS states, as the comment "only used by WLAN"
says. `CpuRing`: rings of one to three descriptors (full, empty and wrapped
positions all differ at three), bulks of two, five buffers, so that the pool runs
dry both at create and at refill; four packets, more than the ring holds.
Buffers are interchangeable (symmetry; the run's one temporal property is a
safety property that does not name them). `WfdRx`: ring of three, rounds of two,
so that a round ends with packets left; seven buffers in bulks of two, so that
refills fail. `BoardButton` is finite as it is. `PushButton`: arrays of three
and times 0 to 2, so that arrays are full, have equal timeouts and are only
partly due; one hook, registered at several times, as entries are told apart by
hook and time alone. `IgmpTable`: one group from the WAN, with a copy, and two
reporters whose times differ, and a membership of two steps, so that one reporter
expires while the other stays; no packets, whose slots share only the timer with
the table. `IgmpPending`: two slots and three packets, so that slots are full and
addresses come back; one group with one reporter, so that both kinds of deadline
compete for the timer. `MaxAge` caps the age of a question: 1 tells a live question
from an old one; `IgmpLateAnswer` has 2. `EnetRx`: two cores as on the chip, queues of one packet
(the code only asks for none or some, and a packet may arrive again at once), rounds
of two packets, so that a round ends with and without the queues being empty, and
two skbs, so that the list is empty, and two can be freed at once.

Restrictions of passing runs. `CpuRing` runs without failing `kmalloc` and
`dma_alloc_coherent` (`MemFails`): with them `ExistingRingIsLive` fails, and a
NULL base is followed, which stops the model (a deadlock TLC would report). It
also runs without flushes during a read (`FlushRaces`): the reader would advance the
head the flush has just reset, and the host waits one descriptor past the packets. `BoardButton` treats the unlocked update as whole (`RmwRaces`).
`PushButton` lets hold hooks change only while the button is up
(`HoldChangesWhileDown`), press and release hooks at any time. `WfdRx` accounts
buffers for the FKB reader only. `RootBehindCopies` excepts tables in which the
allocation of a reporter has failed: `br_mc_fdb_update` then refreshes some entries of
a key and not others. Ageing (`TimerCovers`, `MembershipExpires`) excepts the time
between switching snooping on, which does not set the timer, and the next operation
that does.

Fairness. A due timer's softirq runs and its loop ends (`BoardLed`,
`BoardButton`); a raised, unmasked interrupt is taken and its handler finishes;
a runnable kernel thread gets to run (`wait_event` loops without other blocking
calls); callers of `bcmeapi_free_skb` finish; time passes, and a due
`igmp_timer` is run. Spinlocks need no strong fairness: who frees skbs is
limited by the skbs received, so the thread cannot be overtaken for ever. Nothing
is assumed of callers, users, the Runner, the wireless driver or
`mcpd`: they may stop at any time.

## 4. What the violations show

* `CpuRingFailedCreate`: `rdp_cpu_ring.c`:302 returns an error with
  `num_of_entries` set.
* `BoardButtonTorn`: `board.c`:5934 updates `events` without the lock it "must be
  protected by".
* `BoardButtonStamp`: `board.c`:5924, 5935, 5941 use time stamps that later
  interrupts overwrite; differences may be negative and wrap around above every
  timeout.
* `IgmpLateAnswer`: `br_igmp.c`:841 finds the packet of an answer by its address. In
  TLC's trace a packet waits, `br_igmp_wipe_pending_skbs` (line 880) frees it, a new
  packet at its address waits with a question of its own, and the answer about the
  first empties the slot of the second. The timeout (line 208) and the end of a
  device (lines 904, 923) free slots in the same way.

Seen while modelling, in the models, and shown by no run:

* `LED`:524-527 sets the session-overlap state without resetting
  `gLedRunningCounter`; after WPS-in-progress the first burst is shorter than the
  "5 times" of the comments.
* `runner_wfd_inline.h`:779 gives the descriptor the new buffer and forgets
  the old one (`BulkNoSkb`).
* `pushbutton.c`:415 passes over a release hook whose timeout is greater than the time
  held, so one whose timeout equals it is called; `pushbutton.h`:57-58 says it "will only
  be called if the button was held down more than the specified time".
  `MostRecentReleased` is stated with the comparison of the code and would fail with
  that of the header (`MutHeldLonger`).
* `pushbutton.c`:280 moves the index down also for an entry not yet called
  (`HoldChangesWhileDown` set to TRUE shows it).
* `rdp_cpu_ring.c`:310 cleans up through a NULL base (`fault`, only with `MemFails`;
  `ExistingRingIsLive` does not see it, since the delete leaves no entries).
* `rdp_cpu_ring.c`:359-361 returns 1 with a ring that is complete
  (`CreateRingNoShell`).
* `br_igmp.c`:687: a packet that finds no slot is neither kept nor freed.

## 5. Proofs

Every safety property that a passing run checks is also a theorem, for all values
of the constants (`tlapm`, no unproved step); the inductive invariants below also
hold on the instances of the runs. The assumptions are the `ASSUME`s of the modules
(TLC evaluates them in every run) and four hypotheses in the statements themselves:

| Hypothesis | Theorems | Why |
|---|---|---|
| `OneWpsLed`: `WpsLeds` has at most one member | `WpsInProgressPhaseHolds` | all LEDs share `gLedRunningCounter`; the comment says "only used by WLAN" |
| `~MemFails` | `ExistingRingIsLiveHolds` | false otherwise: the run `CpuRingFailedCreate` |
| `~FlushRaces` | `RingSyncHolds`, `RingImplementsFifo` | false otherwise: a flush between the halves of a read resets the head the read then advances |
| `~HoldChangesWhileDown` | `HeldIdxInRangeHolds`, `HoldHooksOnceHolds` | false otherwise: deregistering moves `btnHeldIdx` to -1, registering shifts entries under it |

`BoardLed_proofs`, for any number of LEDs, any layout of GPIOs, any set of
requested states and any bound on requests:

* `TypeCorrect`. The countdown is the delicate conjunct: it is decremented only
  when it is not zero and reloaded with at most `kOverLapPause`.
* `TimerOnceHolds`, `BlinkersServedHolds`, `NoStrandedRequestHolds`. None is
  inductive alone: that a blinking LED keeps the timer needs that a handler runs
  only with `gTimerOn` set (`TimerOnce`), and `ExpireEnd` may let the timer rest
  only because every LED it passed has left a request (`BlinkersServed` with
  `pc = kLedEnd`). Their conjunction with `TypeOK` is `TimerInv`.
* `SteadyShownHolds`: the handler toggles only LEDs it finds blinking under the
  lock.
* `OverLapPauseDarkHolds`: a countdown above the fast one comes with `setLed` off,
  and the light is toggled only at countdown zero.
* `WpsInProgressPhaseHolds`. `PhaseInv` adds that WPS states are found only on WPS
  LEDs, so that nobody else moves the counter; the wrap keeps light and counter in
  step because `CounterSpan` is even (`CounterAlternates`).

`BoardButton_proofs`, for whole and torn updates: `TypeCorrect` and
`PolledWhileActiveHolds` (`active <=> timer \/ polling`, inductive with the
types: an interrupt may requeue the timer while `btnPoll` waits for the lock, and
`btnPoll` then deletes or requeues it).

`CpuRing_proofs`, for any pool and any sizes of ring and bulk:

* `TypeCorrect` and `BuffersConserved`, with failing allocations and flushes between
  the halves of a read. The inductive invariant `IInv` is `BufferConservation` with the types
  and `RingInv`: without a ring there is no buffer in descriptors or cache (so create
  loses none by overwriting them); descriptors past the ring are empty (so delete,
  which walks only the ring, frees them all); a read in progress still finds its
  buffer in its descriptor, a flush notwithstanding. `NoBuffersReturned` says that a
  create that runs out of buffers returns to the pool what it drew from it. A flush is one step: its loop of
  unlocked updates of `word2` is not split further.
* `ExistingRingIsLiveHolds`.
* `RingSyncHolds`. `SyncInv` says for a number k that the host owns exactly the k
  descriptors from `head` on and the Runner writes k behind it, that a ring which
  the Runner does not know yet has head 0 and nothing for the host, and that a read
  in progress is of the descriptor at the head. The argument is modular: a packet
  makes k one more (`HostGains`), a descriptor given back moves the head and makes
  it one less (`HostReturns`), and the last descriptor wraps.
* `RingImplementsFifo`: the refinement mapping takes the queue of `PacketFifo` to
  the packets in the k descriptors from the head (`Front`). That k is the number of
  descriptors the host owns (`HostCount`) ties the mapping to `SyncInv`; then every
  action is a step of `PacketFifo` or leaves its variables alone (`Fifo...` lemmas),
  an arrival being an `Append` (`FrontAppend`) and a read a `Tail` (`FrontTail`).

`WfdRx_proofs`, for every size of ring, round, pool and bulk and both readers:
`TypeCorrect` and `FkbBuffersAccountedHolds` by `BufferInv` (the packets of a round
and the budget left stay within a round; buffers in ring, cache, pool and above
never exceed the total); `MaskHandoverHolds` and `WakeupPendingHolds` by `WakeInv`:
a handler halfway has the mask closed and the work bit clear, a thread about to open
the mask finds no handler before it, and a packet that came after the thread's last
look has left a status that is latched until the mask is open.

`EnetRx_proofs`, for any number of cores, any size of queue, budget and list:

* `RxWakeupPendingHolds`. `WakeInv` adds who may have a queue masked: the owner of
  `rx_work_avail`, a handler between masking and announcing, or the thread between
  its announcement and its enabling; and that a thread asleep with work recorded
  has a handler about to wake it.
* `SkbsConservedHolds`. `LockInv` says what `bulk_rx_lock_active` of a core stands
  for: that core's thread holds both locks; whoever changes the head of the list
  without taking the lock therefore is on the core that holds it. From it follows that
  a head read is still the head when it is written, and `PlaceInv`: every skb is in
  one of the list, the stack, the thread's hands and a core's `bcmeapi_free_skb`, and
  in one only.
* `TypeCorrect`, from both.

`IgmpSnoop_proofs`, for any bridge, table, number of slots and questions, and all
timeouts:

* `PendingOwnedHolds` and `NoPendingWithoutControlHolds`, by `SlotInv`: slots and
  owners correspond; packets are freed only with their slots.
* `FlowsOfEntriesHolds`, `RootBehindCopiesHolds`: inductive with the types of the
  table. Deleting reporters (`br_igmp_mc_fdb_del_entry`, under leave, timeout and
  flush) and processing a group's rules (`Processed`, under join and the changes of rules)
  have one lemma each for what becomes of entries and flows (`...Table`) and one for
  root and copies staying alike (`...Uniform`); the operations follow from them.
* `TimerCoversHolds`: `br_igmp_set_timer` sets the timer to the least deadline, by
  `LeastElement`; every other step moves deadlines and timer alike or removes
  deadlines.
* `TypeCorrect`, from these.

`PushButton_proofs`, for any hooks, timeouts and arrays of any size:

* `OrderedByTimeoutHolds` and `TypeCorrect`, also with changes while the button is
  down: where the loop of `insertToOrderedArray` stops (`FirstAbove`), what insertion
  and deletion do to each index.
* `MostRecentReleasedHolds`: the loop of `doPushButtonRelease`. `ReleasedRounds` is a
  recursive function; that it exists is `RoundsExist`, and its loop invariant over an
  ordered array is `RoundInv` (what is chosen are the entries i to j with the
  greatest timeout so far; what follows is not due).
* `HeldIdxInRangeHolds` and the action property `HoldHooksOnceHolds`: `CalledInv`
  says that what was called since the press are the entries the index has passed,
  all of them due at the longest time seen (`held`), and that no entry it has not
  passed is, unless no hold has come yet. So a hold that comes late, again or with a
  time that goes back calls nothing twice.

`Extrema_proofs` holds the induction these rest on. The induction theorems of the
library take a predicate as a parameter, which the installed provers cannot
instantiate; a least element of a *set* of counterexamples (`LeastElement`, from the
well-foundedness of the natural numbers) serves the same purpose.

Only model-checked: the liveness properties (`KeepsBlinking`, `TimerRests`,
`PacketsAttended` of both receivers, `ReleaseNoticed`, `PressHandled`,
`MembershipExpires`, `PendingLeaves`), which are out of the prover's reach, and the
four violations.

## 6. Not modelled, and the plan

Left out for good: printing, statistics, proc files, GPIO registers, cache
maintenance, byte order (the ownership bit is kept apart from the pointer),
other chips' `#if` branches (the Ethernet driver's own CPU rings among them), the
vendored kernel and tools. Of the bridge: forwarding of multicast data (it reads
the table), the MLD twin, purge messages to `mcpd`, creating and deleting bridges
and ports. Of the Ethernet driver: transmission, switch and PHY control, opening
and closing.

Next, in this order:

1. `CpuRing`: the flush as a loop over descriptors, and what then remains of
   conservation;
2. the life cycle of a WFD object (`wfd_bind` enables the interrupt before it
   initialises the wait queue; `wfd_unbind` clears an object whose thread still
   sleeps on it; the ring is freed before the Runner is told);
3. `ExtTimer`: a freed timer that can be requested again (`ext_timer_free` clears
   the callback before it tests it), no unmasked timer without a handler, 32-bit
   periods;
4. composition of `BoardButton` with `PushButton`;
5. BLOG pool and BDMF objects;
6. further proofs: more action properties, such as that a packet of `IgmpSnoop`
   leaves its slot only by an answer, a timeout or the end of its device or of
   admission control.
