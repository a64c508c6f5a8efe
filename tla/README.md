# A TLA+ model of the hantro (loongvpu) kernel driver

This directory holds TLA+ specifications of the driver under `src/`, the
configurations that model-check them with TLC, and proofs that TLAPS checks.
The specifications are translated from the C code; line numbers below are those
of `src/hantro/hantro_vcmd.c` unless another file is named.

## 1. The driver

The driver shares the cores of a video decoder and a video encoder among the
processes that open `/dev/dri/renderD*`. In the shipped configuration
(`src/hantro/hantro.Kbuild`: PCIE, VSI_VCD, VSI_VCE, VSI_VCMD and
VSI_SUPPORT_PM on; FPGA_MEM, MMU, AXIFE, DEC400 and CACHE off) each core sits
behind a *vcmd*, a command processor in hardware. Clients write command buffers;
the driver strings them into a chain by JMP words and tells the hardware how
many of them are ready.

| component | state | operations | talks to |
|---|---|---|---|
| **command-buffer pool** (741-807, 1482-1530, 595-644) | `cmdbuf_used[]`, `cmdbuf_used_pos`, `cmdbuf_used_residual`, `global_cmdbuf_node[]`, `total_exe_time` of each open file | `reserve_cmdbuf`, `allocate_cmdbuf`, `create_cmdbuf_node`, `free_cmdbuf_mem`, the end of `release_cmdbuf` | clients (ioctl), the queue (a node lives in the list while its slot is taken) |
| **vcmd core queue** (405-569, 809-1853, 1918-1984, 1986-2548) | the list of nodes, per node `run_done`, `data_linked`, `need_remove`, `priority`, status; per core `working_state`, `sw_cmdbuf_rdy_num`; `software_triger_abort`; the semaphore; two words the hardware writes to memory | `select_vcmd`, `vcmd_link_cmdbuf`, `link_and_run_cmdbuf`, `wait_cmdbuf_ready`, `release_cmdbuf`, `hantrovcmd_isr` | the hardware (registers, JMP words, interrupts), wait queues |
| **closing a file** (1532-1585, 3417-3873) | the above, per open file its `process_manager_obj` | `hantrovcmd_release`, `vcmd_delink_rm_cmdbuf`, `release_cmdbuf_notlinked` | pool, queue, hardware |
| **power management** (4161-4300, `hantro_drv.c` 624-840) | `vcmd_reserve_cmdbuf_sem` held across the suspension, `aborted_cmdbuf_id` | `vcmd_abort`, `vcmd_pm_suspend`, `vcmd_pm_resume` | queue, hardware |
| **bidirectional list** (`bidirect_list.c`) | head, tail, next, previous | insert, remove | queue |
| **legacy decoder / encoder** (`hantrodec.c`, `hx280enc.c`) | owner of each core, semaphores, per-core interrupt flags | Reserve, Release, Wait, interrupt handler, release on close | clients, hardware |
| **fences, vgem** (`hantro_fence.c`, `vgem/`) | an idr of fences, a timer per fence, reservation objects | acquire (wait, then attach), release (signal), suspension, close | DRM core |
| **buffer objects** (`hantro_drm.c`, `hantro_dmabuf.c`) over the **reserved-memory pool** and **FPGA memory** | references, handles, names, dma-bufs, mappings; `mem_blocks[].used`, `hlina_chunks[]` | create, name, open, export, import, map, close | DRM core, clients |
| **device manager** (`devicemgr.c`) with the probes of decoder, encoder, L2 cache, DEC400, AXI front end, MMU | lists of nodes by slice and type, `dec_core_sem`, parents | `add_…`, `remove_…`, `get_…`, `probe_hantroHW`, cleanup | hardware, every legacy core |
| **DRM front end** (`hantro_drm.c` 1220-1450) | `m_global_lock` | `hantro_ioctl` around `vcmd_ioctl` | queue, pool |
| **PCI/platform driver** (`hantro_drv.c`, `hantro_pcie.c`, `hantro_vcmd.c` 2850-3415) | registrations with the kernel, the devices' cores, handlers, managers of open files | load, unload, open, close | all |
| **MMU tables, sysfs, register access** | page tables; none; none | map, unmap; read; read, write | hardware |

### What is hard here

* Submission is not atomic: `select_vcmd` puts the node in the list under the
  core's spinlock, drops it; addresses are patched into the buffer, and only
  then `link_and_run_cmdbuf` takes the spinlock again to link it. The interrupt
  handler, which relinks and restarts the queue after an error, runs in between.
* The hardware consumes the ready count and the JMP words while the driver
  writes them, and the handler learns what has completed from a word in memory
  that the *last* buffer stored; it must conclude what the buffers before it did.
* A high-priority buffer aborts the running core and waits, holding the
  semaphore, for the handler to say that it has stopped.
* Every wait can end with a signal; what has been charged, marked or inserted by
  then stays unless the error path undoes it.
* The pool's two arrays and its counter are written under three different locks.
* Ids are reused, and stale ids are compared.
* Every ioctl of the vcmd build runs under one lock and may sleep in it.
* The two PCI functions share one pair of power callbacks, each of which handles
  the cores of both; a core stopped for a suspension is restarted from an id that
  other aborts also write.
* Objects are counted by handles, dma-bufs, mappings and calls under way, which
  different threads change; most of the functions that change them take no lock.
* Fences outlive the ids by which they are signalled.
* Loading is a long row of registrations that is not undone when it breaks, and
  publishes the device in its middle; nodes are removed from lists while these
  are walked by position.

What makes each component correct: *pool*: a slot has one holder, the counter is
exact, the budget neither leaks nor is exceeded. *Queue*: buffers run once each,
in order, a high-priority one in front of the normal ones that wait or at the end;
each completion is reported after the buffer has run, and every one is reported;
who waits for one is told; hardware and driver agree on what is ready; a
core is never started twice nor left idle with work. *Close*: nothing of the
file stays in list or table, everything of the other files stays and runs.
*Power management*: what was in flight at suspend completes after resume.
*Cores*: one owner per core, the semaphore counts free cores. *Fences*: what
others wait for can still be signalled by its owner, and by nobody else.
*Objects*: freed when nobody can reach them and not before; memory in use is
disjoint. *Device tables*: ids, semaphores and lookups agree with the lists.
*Load and unload*: no handler without its core, everything returned. *Front
end*: every call returns.

`PROJECT.json` lists under "hazards" the places where each of these can go wrong.

## 2. The modules

| module | models | state ↔ code |
|---|---|---|
| `CmdbufPool` | slots and budget | `used`, `pos`, `residual`, `node`, `total` are `cmdbuf_used[]`, `cmdbuf_used_pos`, `cmdbuf_used_residual`, `global_cmdbuf_node[]`, `total_exe_time`; `pc`, `request`, `held` are a thread's progress through `reserve_cmdbuf`; `freeing` is a slot between the two locks of `release_cmdbuf` |
| `VcmdQueue` | one core's list, links, interrupts, and the hardware | `list` is `list_manager`; `linked`, `run_done`, `status`, `need_remove`, `prio` are the fields of `cmdbuf_obj`; `jmp` the JMP word; `working`, `sw_rdy`, `sw_abort` are `working_state`, `sw_cmdbuf_rdy_num`, `software_triger_abort`; `ddr_id`, `ddr_exe` the words in `vcmd_reg_mem`; `hw`, `irq` the hardware and its interrupt status register; `stage` a client's progress |
| `VcmdExit` (extends `VcmdQueue`) | a file is closed: the visit of `hantrovcmd_release` to one device | `mine` is the file's `cmdbuf_used` slots (those whose `filp` is the closed file); `exit.pc` the progress of the close; `exit.aborted`, `exit.restart` are `vcmd_aborted`, `restart_cmdbuf`; `exit.at` the node at which the walk stopped to abort |
| `VcmdRuns` (extends `VcmdQueue`) | the queue without signals and errors, with its executions counted | `runs`, a history variable: how often each buffer was executed since its slot was reserved |
| `VcmdWaits` (extends `VcmdExit`) | `wait_cmdbuf_ready` and who wakes whom, while a file is closed | `asleep` is the core's `wait_queue` (the ids slept for), `anyCall` the thread that waits for `ANY_CMDBUF_ID` on the device's `mc_wait_queue`; `way` which of the two the other file uses |
| `VcmdService` | the abstract promise of a core: an ordered queue, each buffer executed exactly once between submission and report, reported in order | none: it is what `VcmdRuns` is shown to implement |
| `DecCores` | the decoder cores of a slice without vcmd (`hantrodec.c`) | `sem` is `dec_core_sem`; `owner` each core's `dec_owner`; `dec_irq` the word's bits, each with the thread whose run set it; `hw` and `job` the core and whose run is in it; `pc` the progress of a thread or of a close; `mask` the reservation's core mask; `scan` and `awake` the condition of its wait: the core it looks at next, and whether it will be evaluated again |
| `EncCores` | the encoder cores of a slice without vcmd (`hx280enc.c`) | `pid` is `is_reserved` with `pid`; `irq_received` the flag, with the thread whose run set it; `run`, `raised`, `ready` the core and its status register; `isr` the handler between its two critical sections; `suspend_sem` the first core's `core_suspend_sem`; `want`, `got`, `scan`, `awake` a request's `core_info_tmp` and the condition of its wait; `leaked` cores that nobody's request knows of any more |
| `VcmdPM` (extends `VcmdQueue`) | suspension and resumption around the queue | `pm` is how far each PCI function's callback is, `power` the functions in D0, `aborted` is `aborted_cmdbuf_id`; `system` what the PM core does |
| `VcmdFrontEnd` | the ioctls under `m_global_lock`, reduced to what they wait for | `lock` is `m_global_lock`, `call` each thread's ioctl, `slot` and `order` the buffers and the core's list, `charge` is `total_exe_time` |
| `DriverLife` | load and unload of the vcmd build, while clients open and close | `pc`, `fn`, `core` the place in `hantro_init`, `hantro_vcmd_init`, `hantro_cleanup`; `pci`, `drm`, `fences`, `blocks` what is registered; `dev`, `hw` the `vcmd_dev`s and their cores |
| `SliceCores` | load and unload of the builds without vcmd | `list`, `node` the device manager's lists and nodes; `sem` is `dec_core_sem`; `at` the position of the walk of `probe_hantroHW`; `failed` the nodes whose probe failed |
| `GemObjects` | buffer objects and the memory behind them | `obj` the object's references and what refers to it, `mem` its memory, `used` is `mem_blocks[].used`, `reserved` is `hlina_chunks[].chunks_reserved`, `mutex` is `struct_mutex` |
| `Fences` | fences of both drivers | `fence` each fence's references and whether it is signalled, `idr` is `fence_idr`, `resv` the reservation objects, `held` the handles that clients have |
| `MC…` | instances for TLC | |
| `CmdbufPoolProofs`, `DecCoresProofs`, `EncCoresProofs`, `FencesProofs`, `GemObjectsProofs`, `DriverLifeProofs`, `SliceCoresProofs` | theorems about the module whose name they begin with | |
| `VcmdProofs` | theorems about `VcmdQueue`, its refinement of `VcmdService` (through `VcmdRuns`), `VcmdExit` and `VcmdPM` | |

One action is one critical section, or one stretch of code between two points
where another thread or the handler can be seen. In `CmdbufPool` a reservation
is `ReserveEnter` (charge), `BudgetReady` (gate), `allocate_cmdbuf`, and
`PublishNode` or one of the failures; a release is `UnpublishNode` and
`free_cmdbuf_mem`. In `VcmdQueue` a submission is `SelectTail`, or
`SelectBusy`, `AbortTrigger`, `AbortFlag`, `AbortWake`; then `PatchAddresses`; then
`LinkToRunning` or `LinkAndStart`. The handler runs under the spinlock and is
one action per branch: `IsrJmp`, `IsrReset`, `IsrAbort`, `IsrError`,
`IsrTimeout`. In `VcmdExit` the close takes the semaphore (`CloseBegin`, or
`CloseInterrupted` by a signal), walks the list in one go when nothing has to be
aborted (`CloseWalk`) or stops at the file's first linked buffer on a working
core (`CloseAbort`), polls with interrupts off while only the hardware runs, and
then finishes the walk (`CloseStopped`) or gives up after three seconds
(`CloseGivesUp`, `CloseDeclaresIdle`); `CloseSweep` is the loop over the table
for what was never submitted. In `VcmdWaits` a wait is `SleepForOne` and
`ReturnWithOne`, or `SleepForAny` and `ReturnWithAny`; the handler's wake-ups come
with its step (`InterruptWakes`), those of the close with the end of its walk
(`CloseWakes`). In `DecCores` a reservation takes its permit
(`ReserveDecoder`) and scans the cores, one critical section each (`GetDecCore`,
`NextCore`), until it finds one, sleeps and looks again (`LookAgain`) or is
interrupted; `PassCore` and `CheckCoreIrq` are the same kind of walk for the wait
without limit; a release frees the core, returns the permit (`Up`) and wakes the
queue (`WakeQueue`) in three steps. In `EncCores` the same scan takes core after
core (`TakeCore`) until it has as many as were asked for; a run is started by
`EnableCore`, which takes the semaphore a suspension waits for, or by
`StartMapped`; the handler is `IgnoreIrq` for a core that is free, otherwise
`SeeReserved` and `ReportIrq`, as it lets go the lock in between; a release
frees the cores one by one (`ReleaseCore`) and then wakes the queue.

In `VcmdPM` a callback checks and takes the semaphore (`SuspendCheck`), tells
the core to stop (`vcmd_abort`), finds it stopped (`AbortSeen`) or sleeps its
five seconds (`AbortSleep`, `AbortTimeout`), and switches its function off
(`SwitchOff`); `ResumeCore` relinks and restarts; the handler notes the aborted
id (`PMInterrupt`). In `VcmdFrontEnd` an ioctl is `Call`, `Enter` (the lock) and
one step for each place where it can sleep. In `Fences` an acquisition is a wait
(`WaitEnds`, or a failure), `idr_alloc`, and the attachment, and each of its
error paths an action; `hantro_pm_signal_all_fences` and `vgem_fence_close`
empty an idr. In `GemObjects` a call that looks an object up, and uses it later
without the lock, is two actions or more; the search of the chunk table is one
action per chunk. In `SliceCores` an action enters a row, visits a node or takes
one down; in `DriverLife` an action is one registration, with the outcomes it
can have.

Everything that `VcmdExit` does besides is an action
of `VcmdQueue`, which other files' threads, the handler and the hardware go on
taking between these steps. Definitions called `…KeepsSlot`, `…Alone`, `…Twice`, `…Only` and the like,
each introduced as a plausible slip, are not part of the model: they are the
variations the properties are tested against (`PROJECT.json`, "mutants").

### What the models assume

* In `DecCores`: a client starts, waits for and releases only the core it has
  been given, as the client library does (the driver compares the file at a
  release and nothing else); reservations name the slice's first core
  (`codec_idx` 0); writing the status register in `DecFlushRegs` clears an older
  interrupt of that core; a core that `ReleaseDecoder` aborts raises none.
  `None` in `dec_irq` is a bit that is 0; whose run set it is for the properties
  alone, no action reads it.
* In `EncCores`: a client starts and releases only cores it has been given, and
  forgets them when its wait was interrupted (`ReleaseEncoder` compares no
  owner); it waits for the lowest of its cores, the only one `CheckEncIrq` looks
  at; a process opens the device once (`hantroenc_release` frees by tgid at every
  close). `resource_shared` is 0, and `core_suspend_sem` is initialised as in the
  branch 742-766 of the probe (the one for `USE_DTB_PROBE` does not initialise it).
  `CORE_WAIT` stands for all waits: `ANYCORE_WAIT` is not modelled.
* One core per device, as in the shipped configuration, and hardware newer than
  1.0.C (the handler reads the id of the current buffer from a register).
* The hardware takes a pending JMP as soon as the ready count allows it; it
  aborts at the end of a buffer; it is silent after an error. An interrupt
  that coalesces with the next one is a buffer whose JMP does not ask for one
  (constant `Silent`).
* The kernel's own buffer stays at the head of the list, as no call releases
  it, so the list is never empty. `END` words do not occur: the submission
  refuses them.
* `select_vcmd` reads the executed count before it takes the spinlock; the model
  reads it with the test.
* In `VcmdQueue`, `VcmdExit` and `VcmdPM` a wait can end as soon as the buffer is
  reported (`Wait`); that somebody wakes the waiter is the subject of `VcmdWaits`,
  for the handler and the close without hardware errors. There one thread waits
  for any buffer of the other file, or each of its threads for a buffer of its own;
  nobody waits in the closed file any more. A core without an interrupt line, whose
  waiters call the handler themselves, is not modelled.
* The kernel memory that the close has freed and still reads (3600, 3747) keeps
  its content, and the file's manager, freed at 3848 before
  `release_cmdbuf_notlinked` writes to it, is written to no effect.
* `Carried` is what the visit to the encoder, which comes first, leaves in
  `vcmd_aborted` and `restart_cmdbuf` for the visit to the decoder: nothing if it
  did not abort, otherwise a node of the encoder or none. Both `core_id`s are 0.
* Slots are handed out in cyclic order: `CmdbufPool` shows that order, and
  `VcmdQueue` relies on it (an id is not reused at once). In `VcmdExit` a few ids
  stand for hundreds, so the search would come round too soon: `QuickReuse = FALSE`
  says that it does not reach the id in memory while an interrupt is pending that
  will name it. Section 3 says what happens otherwise.
* In `VcmdPM` user processes are frozen in user mode, so nobody is inside
  `select_vcmd` or `link_and_run_cmdbuf` during a suspension; a freeze that ends
  an interruptible wait is a signal. `Abandons = FALSE`: no other device makes the
  suspension fail after the core was switched off. With `TRUE` the resume callback
  of one function restarts the core of the other while that is still in D3, and
  `WorkingIsAlive` fails.
* In `Fences` a client forgets the handles it had before a suspension
  (`StaleHandles = FALSE`); vgem is that of kernels up to 5.18. On later ones the
  read branch adds no fence and vgem adds its own without reserving a slot.
* In `GemObjects` clients are careful: they do not drop the last reference of an
  object while another call has looked it up without keeping one, nor that of an
  imported object that is mapped.
* In `SliceCores` the tables of cores are those two of `MCSliceCores`: three decoders
  and two encoders in one slice, and a table over two slices. Nothing runs beside
  the loading thread.
* In `DriverLife` there is one slice, and no file is open when the module is
  removed (the kernel holds the module while one is).
* In `VcmdFrontEnd` there is one core and files stay open (`VcmdExit` closes them).
  Careful clients leave one slot and one unit of time for the released buffer that
  stays at the end of the list; wait for buffers they have submitted only; do not
  have more waits for any buffer than submitted buffers not yet reported; and
  release what is done. The other vcmd modules let ioctls run side by side, which
  covers what the lock allows and more.

## 3. The runs

| run | question | bounds |
|---|---|---|
| `pool` | Can slot, counter or budget be broken by any interleaving of reservations, releases and failures? | 3 free slots, 2 files, 3 threads of which 2 share a file, costs 1 and 2 under a limit of 3, one failure |
| `queue` | Without signals and errors, do driver and hardware agree, does the core implement `VcmdService`, executing each buffer exactly once, do decoder buffers complete? | 3 ids and 4 submissions, so that one id is reused; both priorities, both kinds of device, one silent buffer |
| `vcmd_pm` | Do order, status and progress survive suspensions, signals, errors and high-priority buffers? | 3 submissions of different ids, any 2 disturbances (up to 2 suspensions, 2 errors, 1 signal), both kinds of device, one silent buffer |
| `exit` | Does a close, at any point of the other files' submissions, remove exactly the file's buffers, leave those of the others in a chain that runs, and wake who waits for them? | 3 ids, each reserved by either file, both ways to wait, 4 submissions, so that an id is reused, normal priority, one signal, one time-out; first visit; a decoder (`type` is read on an abort interrupt only, which none but a close that gives up leaves); `QuickReuse = FALSE` |
| `dec_cores` | Do scans, releases, waits and closes keep one holder per core, permits that match free cores, every wake-up and every completion; do waits end? | 2 cores, 2 files, 3 threads of which 2 share a file, one of which accepts only the second core, one interrupted reservation |
| `enc_cores` | The same safety for requests that take one core after the other; is the semaphore that keeps a frame from a suspension exact? | 2 cores, 2 processes of one thread, requests for one or two cores, one signal, one failed run |
| `fences` | Can a handle, a reference or a fence that others wait for be lost on any path; do waits end? | 2 clients, 1 buffer, 3 fences, both drivers, both kinds of kernel, one suspension, 2 failures |
| `gem` | Can an object be freed while it is reached, or stay when it is not; can two share memory? | 2 objects, 2 threads; 2 handles (the second one may be an opened name), one file and one mapping of any kind at a time; a pool of one block, 5 chunks, sizes 1 and 2, one failed mapping |
| `slices` | Do ids, semaphores and lookups stay right, and does the module unload cleanly? | two tables of 11 rows, slices up to `MaxSlice` = 2, every pattern of failing probes and auxiliary cores |
| `driver` | Whatever step of the load fails: handlers, files and resources? | 2 decoder cores, 1 encoder, 3 blocks of memory, 2 files |
| `front_end` | Does every ioctl return, under the lock it sleeps with? | 2 threads, 2 files, 3 slots, budget of 2 |
| `encoder_abort` | *violation*: a high-priority submission to an encoder can wait for ever | 3 submissions |

The bounds are the smallest that let the interesting cases happen: with three
buffers there is one before, at and after the hardware's position, a high-priority
one can pass a normal one that waits while another runs, and a released tail can
be followed by a release behind it; the fourth submission reuses an id. Three
buffers also put a foreign buffer before, between or behind those of the closed
file; the close is a single one, as a second waits for the semaphore. Two
disturbances are the least that interfere: an error during a suspension, a
suspension of what a signal has left, a second suspension that meets the id which
the first has noted. Two cores and three threads on them are the least with which
a scan can miss a core that moves, and sleep. Two threads on one file are what the
budget needs to be exceeded or to block, a third on another file shares only the
slots. Three fences let an id be given back and taken by another client while a
third fence is on the buffer. Two handles are an object shared by name or by file,
or two objects; five chunks let a search meet a range in front of which there is
not enough room, and go on behind it or, when it is freed meanwhile, in its place.
Three slots, and a budget of two, under the lock are the one that is kept, the one
in use and the one that is asked for. In `slices` a removal can hit the first, the
middle or the last of three decoders, with or without an auxiliary core in front
of it.

**Properties.** Pool: `ResidualExact`, `SlotLifecycle`, `AllocatorTerminates`,
`BudgetCovers`. Queue: `ChainIsQueue` (ready count, executed count, JMP words and
list describe the same buffers, whatever the handler looks up is in the table,
and between submissions nothing waits on a core that stands), `IdleMeansStopped`,
`OneReleasedNode`, the action property `JmpReportsAll`, the refinement
`ServiceSpec` and the liveness property `Completes`. Power management:
`ReportedInOrder`, `WorkingIsAlive`, `ResumedQueueRuns`, and the action property
`DoneNeverRunsAgain`. Close: `NothingOfTheFileLeft`, `OthersKeepRunning` (the chain
and its count are exact after buffers have been cut out), `OthersOkMeansRan`,
`SleepersAreWoken` (who sleeps has a wake-up to come). Decoder cores: `OneHolder`,
`PermitsMatchCores`, `NoMissedWake`, `CompletionKept`, `CoreWaitEnds` (liveness). Encoder cores:
`HandoverSafe` (the conjunction of the same three), `SuspendPermit`. Fences:
`HandleIsMine`, `RefsExact`, `WaitedForIsReachable`, `WaitsEnd` (liveness).
Objects: `NoUseAfterFree`, `UnreachedIsFreed`, `MemoryExact`. Device tables:
`IdsStayTrue`, `PermitsCoverCores`, `CleanUnload`. Load and unload:
`HandlerHasItsCore`, `UnloadReturnsAll`, `LateFilesEntered`. Front end:
`ChargesHeld`, `IoctlsEnd` (liveness).

Each module also states the types of its variables (`TypeOK`, `…TypeOK`); the
runs leave that to the reader of a change, who can add it to the cfg, and check
what could be wrong in the code.

**Fairness.** `FairSpec` of `VcmdQueue` is about `CalmNext`, the steps that need
neither signals nor errors (`queue` and `encoder_abort` allow none; `vcmd_pm` and
`exit` run the steps of `Disturbance`). It assumes that pending interrupts are
handled, that the hardware runs and answers an abort (weak fairness), that a
thread that is runnable between two steps of a submission or after its wait goes
on (weak fairness: the scheduler), and that a thread that asks for the semaphore
gets it (strong fairness: the kernel's semaphores queue their waiters first come
first served). `FairSpec` of `DecCores` is weak fairness only: threads that are in a call and awake run, a core that runs ends, and its
interrupt is handled. In `VcmdFrontEnd` the lock is handed on to the longest
waiter (strong fairness of `Enter`: the kernel's mutexes do that), calls that can
go on do, and the hardware executes what it is given. In `Fences` a step of a
call that can be taken is (weak), and a client that is not in a call gives back
what it holds in the end (strong), which is an assumption about clients;
`WaitsEnd` moreover assumes that nobody holds a fence while waiting for another.
Time-outs and signals are never relied on. `VcmdPM`, `EncCores`,
`GemObjects`, `SliceCores` and `DriverLife` claim no liveness; nor do `VcmdExit` and
`VcmdWaits`, where `SleepersAreWoken` says instead, in every state, who will wake a
sleeper. Nothing makes clients submit or
release.

### What does not hold

and hence is not claimed. Each item was seen in TLC's counterexamples or while the
code was translated.

*Queue.*

* After a signal in a decoder's abort wait the core is stopped with work behind it
  until the next submission, and its abort interrupt may find its buffer released
  and then resets neither links nor count.
* An error interrupt between a node's insertion by `select_vcmd` and the patching
  of its register-copy address (1762-1817) starts the buffer unpatched (2253-2256);
  it stores no id, and the next JMP interrupt reads the id of an earlier buffer and
  reports nothing (2493-2494): `JmpReportsAll` and `ChainMatchesCount` fail with
  `Faults = {"BUSERR"}`.
* With errors and quick reuse of ids a stale id in memory can mark the slot's new
  owner done, so `vcmd_pm` submits every id once. A signal suffices: a submission
  that it ends while the hardware is still stopping gives the semaphore back
  (1756-1760); if the buffer at which the hardware stops is released and its id
  reserved and submitted again before the interrupt of the abort is handled, the
  handler takes the new buffer under that id for the one that has run and reports
  it (`ReportedInOrder` with `NumIds = 3`, `MaxSubmits = 4`, `MaxSignals = 1`).
* The branches of the handler that do not find a node, and its error branches, do
  not wake `wait_abort_queue`.
* On an encoder the abort interrupt can come before `software_triger_abort` is
  set (`encoder_abort`).
* The executed count in memory (957-961) is that of the last buffer that finished,
  also when the core has been restarted since with a chain of its own. If it equals
  the new `sw_cmdbuf_rdy_num`, or is one less, `select_vcmd` takes the core for one
  that has nothing left to do and puts a high-priority buffer behind normal ones
  that have not been begun. In one trace the buffer before an abort has finished with
  count 1, the abort has started a chain of two, and the next high-priority buffer
  goes behind both. The comment (944-945) has the tail "finish but not generate
  interrupt". So `VcmdService` promises order, and
  single execution, but not that high priority goes first.

*Close.*

* A close that gives up leaves the file's buffers in the list and the core declared
  idle while it runs ("ensure hardware idle", 3645), so the properties of `VcmdExit`
  hold for `timeouts = 0`; after a signal has made the close give up on the
  semaphore (3539-3548) everything of the file stays.
* `vcmd_aborted` and `restart_cmdbuf` are set once for the whole function
  (3502-3503), not per device. With `Carried <- SecondVisit` (`MCVcmdExit`), a visit
  after one that has aborted the encoder takes every undone buffer of another file
  for one to be restarted (3740-3745) and starts a core that runs, on the encoder's
  buffer if that is still in `restart_cmdbuf` (3758).
* A close that finds its core idle, or that has nothing to restart behind an abort,
  acknowledges the abort bit alone (3661-3666): the JMP interrupt of a buffer that it
  has found executed, marked done and freed can stay pending. If the id is given out
  again before the handler runs, which then finds a node under the id that memory names
  (2486-2504), the new owner's buffer is reported done, with OK, before it has run.
  The handler usually follows at once, and the search for a slot must come round
  first; but a core without an interrupt line (`vcmd_irq` is -1) runs it only when
  somebody waits (1897, 1945). With `QuickReuse = TRUE`, `NumIds = 2` and
  `MaxSubmits = 3` `OthersOkMeansRan` fails so. The attempt to prove it has shown
  this: three ids and three submissions, the earlier bounds, reuse none.
* A close that aborts the core and restarts nothing wakes `wait_queue` only
  (3830-3831). The other files' buffers that it has marked done had their JMP
  interrupt pending, which would also wake `mc_wait_queue`; when the last id stored is
  that of a buffer the close has freed, the handler returns without a wake-up
  (2488-2491), and a thread that waits for any buffer sleeps on.
  `SleepersAreWoken` makes this one exception (`AbortedForGood`); without it TLC finds
  the case in 15 steps.
* On a second visit (`SecondVisit`) a thread can be left asleep as well: a core is
  restarted for a buffer that has run already, with a ready count of 0, and the thread
  that waits for it by its id is never woken.
* A close that finds the core stopped by a bus error, whose interrupt waits for the
  spinlock it holds, marks the failed buffer of another file done with status OK
  (3688-3692) and clears the error (3764-3766): `OthersOkMeansRan` fails with
  `Faults = {"BUSERR"}`.

*Power management.*

* `vcmd_abort` sleeps in `wait_event_timeout` (4194), uninterruptibly; the handler
  wakes interruptible sleepers only (2185), though 4187-4189 says that it will
  "wake the queue". Every suspension of a core that works takes the full five seconds.
* A suspension that fails halfway leaves its decoder stopped until the next
  submission (`stuck`).

*Cores.* A signal in the second wait of `ReserveDecoder` loses its permit (`lost`),
after which one core can no longer be reserved together with the others; a
reservation whose mask fits no free core holds the permit of one that it cannot
take, and another thread sleeps in `down` beside that core; a thread that looks
can starve while others take and give back cores, as its scan takes the lock once
per core; and what ends a wait need not be the waiter's own run ("we have an IRQ
for our client", `hantrodec.c` 1072): an interrupt that is pending when its core is
released sets the bit after the next owner has cleared it. Of the encoder: two
requests for two cores can hold one each and wait for ever (so deadlock is not
checked); an interrupted request leaves what it has taken reserved until its
process closes; a run that fails, or ends after its core was released, never gives
the semaphore back (`lostPermits`), after which the first core cannot be enabled
again; and `hantroenc_isr` lets go `enc_owner_lock` (937) before it takes it again
to set `irq_received` (954), so a core that is released in between is free with the
flag set, and its next owner takes it for its own, though 907 says that the
interrupt of an unreserved core is ignored.

*Front end.* With `Careful = FALSE` a call can sleep with the lock until a signal:
a wait for any buffer when none is submitted, a reservation when all slots or all
execution time are in the hands of files that now cannot release.

*Fences.* With `StaleHandles = TRUE` a handle from before a suspension releases
another client's fence, as `hantro_pm_signal_all_fences` starts the idr afresh
(`hantro_fence.c` 167-174). "If a conflicting fence is already on the dma-buf",
`vgem_fence_attach_ioctl` is to report `-EBUSY` (`vgem_fence.c` 105-108); it waits,
and then adds its fence without looking again (149-171), so two clients that have
both waited attach write fences; and an interrupted wait is negative, hence taken
for success (146, 149). The ten-second timer of a fence only prints (86-91).

*Objects.* A buffer imported from another driver is mapped without the reference
that every other mapping has (`hantro_drm.c` 1547): closing its handle frees it
under the mapping. A dumb buffer of size 0 finds memory in the FPGA build without
reserving a chunk. Failed mappings leak a reference (`kept`). `hantro_mmap` drops its
reference (1518) before it uses the object. When creating the handle fails, the
object is freed twice (151-158). `hantro_gem_open` reads the name table (439-441)
without `object_name_lock`. Framebuffers (710-765) keep objects without
references; they are not modelled.

*Builds without vcmd.* `probe_hantroHW` removes the node of a core that fails from
the list it walks by position: the node behind it is never probed, and `rmmod` then
writes through its `hwregs`, which are NULL. `remove_decnode` leaves `dec_core_sem`
as it was, and the numbers that caches, DEC400s and AXI front ends hold of their
core go stale. An AXI front end that fails is not removed at all, as `remove_node`
(`devicemgr.c` 1103-1127) has no case for it: it stays in its list, a lookup finds
a core whose registers are not mapped, and `hantro_axife_cleanup` (143-162) decides
by fields that nobody has set whether to release a region and free a copy. `hantroenc_probe` dereferences a NULL core on its error path
(`hx280enc.c` 793-795); `hantro_axife.c` never unmaps its registers; and a cache
that has no memory for its copy of the registers is removed and keeps its region and
its mapping.
`hantroMMURelease` does not advance in its loop (`hantro_mmu.c` 1024-1030).

*Load.* A failed load undoes nothing: handlers whose registers `vcmd_release_IO`
has unmapped (3025-3034), the DRM device, the PCI drivers, the pool's blocks stay.
The DRM device's parent is the decoder's PCI device, so without an enabled decoder
`hantro_init` ends in an oops, and the branch of `hantro_vcmd_init` for a missing
decoder is never reached. An interrupt request that fails with another error than
`-EINVAL` or `-EBUSY` goes unnoticed. A core without registers stops the loop that
requests the interrupts (3004), and the register read that follows writes through
NULL. The device is published (`hantro_drv.c` 1210) before `hantro_vcmd_init` runs:
a file opened in between is entered with one of the two devices or with none, and
has no manager there; a reservation on it crashes. The nodes of the decoder and the
cores of a function that was taken out of its device are not freed.

## 4. The proofs

Every theorem below holds for all values of the constants that satisfy the
module's assumption, with any number of cores, clients, buffers, steps and
failures. Each proof has the same form: an inductive invariant, of which TLC
found no counterexample on the run's instance before it was proved; a lemma that
it holds initially; one lemma for each of its parts, with one step per action;
and the listed properties as consequences. `TypeOK` and its like, and the
inductive invariants, are proved and are in no run's list of properties.

| theorem | states | of |
|---|---|---|
| `TypeCorrect`, `NoSharedSlot`, `CounterExact`, `SearchSucceeds`, `BudgetIsCovered` | `TypeOK`, `SlotLifecycle`, `ResidualExact`, `AllocatorTerminates`, `BudgetCovers` | `CmdbufPool` |
| `IdleCoreHasStopped`, `OneSlotKept` | `IdleMeansStopped`, `OneReleasedNode` | `VcmdQueue`, `Spec`: with signals and errors |
| `ChainStaysQueue`, `ReportsAreInOrder`, `JmpLeavesNoneBehind` | `ChainIsQueue`, `ReportedInOrder`, `JmpReportsAll` | `VcmdQueue`, `FairSpec`: without |
| `CoreIsTheService` | `ServiceSpec` | `VcmdRuns`, `CountedSpec`: the same, with executions counted |
| `ClosedFileIsGone`, `OthersStayQueued`, `CloseReportsTruly` | `NothingOfTheFileLeft`, `OthersKeepRunning`, `OthersOkMeansRan` | `VcmdExit`, `ExitSpec`: with signals, under `PlainClose` |
| `WaitersOnlyWatch` | `WaitsSpec => ExitSpec`: so these hold of `VcmdWaits` as well | `VcmdWaits` |
| `WorkingStaysAlive` | `WorkingIsAlive` | `VcmdPM`, `PMSpec`: with signals and errors, with `~Abandons` |
| `CoresTypeCorrect`, `NoSharedCore`, `PermitsAreCores`, `WakeUpsReachSleepers`, `CompletionsReachTheirThread` | `TypeOK`, `OneHolder`, `PermitsMatchCores`, `NoMissedWake`, `CompletionKept` | `DecCores` |
| `EncTypeCorrect`, `HandoverIsSafe`, `SuspendPermitExact` | `TypeOK`, `HandoverSafe`, `SuspendPermit` | `EncCores` |
| `HandlesStayMine`, `FenceRefsAreExact`, `WaitsAreForReachableFences` | `HandleIsMine`, `RefsExact`, `WaitedForIsReachable` | `Fences`, with `~StaleHandles` |
| `NoObjectUsedAfterFree`, `UnreachedObjectsAreFreed`, `MemoryIsExact` | `NoUseAfterFree`, `UnreachedIsFreed`, `MemoryExact` | `GemObjects`, with `0 \notin Sizes`, the first with `CarefulClients` |
| `DriverTypeCorrect`, `HandlersHaveTheirCore`, `UnloadReturnsEverything`, `LateFilesAreEntered` | `DriverTypeOK`, `HandlerHasItsCore`, `UnloadReturnsAll`, `LateFilesEntered` | `DriverLife` |
| `TypeCorrect`, `IdsStandForCores`, `PermitsSuffice`, `UnloadsClean` | `SliceTypeOK`, `IdsStayTrue`, `PermitsCoverCores`, `CleanUnload` | `SliceCores`, the last with `InOrder` tables |

**Assumptions.** `PoolAssumption` (slots and limits are natural numbers, threads
are finite, as the budget is a sum over them), `CoresAssumption` of either core
module (threads, files and cores are finite and disjoint), that of `Fences`
(`0 \notin Clients`: 0 stands for nobody), `DriverAssumption` (each function has
a core), `SliceAssumption` (the tables are sequences of rows). `~StaleHandles`,
`0 \notin Sizes`, `CarefulClients` and `~Abandons` are the conditions of the runs
too; section 3 says what happens without them. So is `PlainClose`: normal
priority, no hardware errors, no quick reuse, and a visit that inherits nothing,
with any number of ids, submissions, signals and time-outs, any silent buffers and
either kind of device; each of the four conditions has its counterexample there. `InOrder` says of a table that
the rows of decoders, encoders and MMUs name the slices in the order in which
they first need them, as those of the code do (`sliceidxtable`, hantrodec.c:129, with
the comment at 126 that asks for it): an encoder or an MMU of a slice that nobody has made yet is
attached to a slice that does not exist, and the load dies of it.

**Sets.** The models' `CHOOSE` of a least index and their sums over finite sets
need an induction, which these provers cannot instantiate. What takes its place
is a smallest counterexample: `<` is well-founded on the natural numbers
(`WellFoundedInduction`), so a set of them has a least element
(`NatSetHasMin`, in each module that takes the first of something), and the laws
of `SumFunctionOnSet` (`CmdbufPoolProofs`) are proved from the number of elements
of a smallest set on which they fail. `Rank`, `Place` in `VcmdProofs` are
the like for `Picked`: what is left of a list when positions are taken out.

**`CmdbufPoolProofs`.** `PoolInv == TypeOK /\ SlotLifecycle /\ ResidualExact /\
BudgetCovers`. The counter is exact only because the word of the slot had the
other value before the step, and that is what the life cycle says; the life
cycle in turn says that a slot whose word is 0 is in nobody's hand, which is why
an allocation cannot take a second holder's slot. The loop in `allocate_cmdbuf`
has no exit but success and runs with interrupts off; that it ends follows. A
charge moves from the sum over the threads of a file to the sum over its slots
when the slot is taken, and leaves with it; equality needs that nothing failed.

**`VcmdProofs`.** With signals and errors: a core is taken for idle on
interrupts alone that stop the hardware (`IdleInv`); buffers are in the list
exactly at the stages in which a client or the code believes so, and once
(`ListInv`), so the insertion of a high-priority buffer, which searches by
content, and a release, which takes out one node or two, keep both. A released
tail stays, marked; the next release behind it takes it along: hence one.

Without them the invariant is `ChainInv`. There are positions `d <= c <= l` in
the list: the handler has reported what is up to `d`, the hardware stands at
`c`, `l` is the last linked one. `Core(c, d, l)` says that flags, JMP words,
ready count and id in memory are what these positions make them, and `Held(l)`
what else is known of the core, which depends on who has the semaphore: nobody,
then all is linked and the hardware has it; a thread that waits for the abort,
then the hardware may have stopped; one that has inserted but not linked, then
one node, or those behind the hardware's position, are not linked yet. It is
this case distinction that a proof needs and TLC's `ChainIsQueue`, which speaks
of the moments without holder, does not show. The properties are about one of
the three positions each, and existence of the three is the induction
hypothesis: the lemmas of a step name its new ones.

`CoreIsTheService` is the refinement. The abstract queue is the list behind `d`; the
count of executions, `runs`, goes up with every buffer that the hardware finishes
and back to 0 only when its slot is reserved again, so a second execution would be
a step that the service does not have. The invariant adds `Once`: the count of a
buffer is 1 if it has run and 0 if not. `OnceStep` needs from `ChainInv` that the
hardware stands at a buffer behind `Passed(c)`, which ends what has run of the list.
Insertion in front of the first waiting normal buffer, or at the end, is the
service's submission; the end of a run is its execution; a report of the handler is
the service's completion, of several at once; a release takes out positions up to
`d`, and the list behind moves down unchanged; all else leaves both alone. The
theorem is about safety: `ServiceSpec` has no fairness.

`WorkingStaysAlive` needs no list: `IdleInv`, and that stopped hardware the
driver takes for running has an interrupt other than JMP pending (JMP leaves
`working_state` alone), carry it through every step of the queue. Through a
suspension it needs to know that nothing starts the core between the moment a
callback has found it stopped and the moment it is off (`CallbackInv`: clients
are frozen, and an idle core has no interrupt that would restart it), and on the
way back that `vcmd_pm_resume` starts it on a function that has power: at most
one function has none, and it is the next to be resumed, unless the suspension
was turned back between the two callbacks (`Abandons`).

The three theorems about a close rest on `CloseInv`, which describes the list by
the same three positions (`Queue`), but says less of each, as signals may end
calls and the close edits what only the handler edits otherwise. It marks buffers
done and takes their link flags, so links count only behind `d` (`QueueCut`); it
frees the buffer that a pending interrupt names, so the id in memory is either the
last executed buffer's, or that of one that is done, or free (`QueueTold`, which
is where `QuickReuse` enters). `CloseTells` says how far the walk is: while it polls,
the file's first linked buffer is where `exit.at` says and nothing of the file
is before it; after the walk only a buffer at the end of the list may be left.
`CoreTells` says that a working core stops for the close alone, so the handler, which
cannot run while the close polls, sees JMP interrupts only (`OnlyJmpInterrupts`).
The hardest step is `CloseStopped`. What stays of the list are the others' buffers
and perhaps the tail; `Place` and `Rank` say where each comes to stand
(`StoppedPlaces`: the done ones first, then, without a gap, the ones to run). Behind
the restarted buffer each JMP either was left alone, as nothing between the two was
removed, or was repaired to what follows now in the list (`StoppedRestart`), and the
ready count is the number of those. A close that gives up ends all claims
(`TimelyInv`): nothing can begin again after it.

**`DecCoresProofs`, `EncCoresProofs`.** `CoresInv` is the conjunction of the
properties with `ClosedIsQuiet` (the threads of a file whose close has begun are
gone, so that a close, which frees cores by file, takes none from a holder) and
`PendingHolds` (only who holds a core has a run to be told of). The parts need
each other: the range of the semaphore needs `PermitsMatchCores`; that needs to
know, from `OneHolder`, that a released core was owned; `CompletionKept` needs
`OneHolder` to know that another thread's step touches another core. In `EncInv`
a request has a set of cores, in each phase of which `GotInPhase` says what it
has; `RunIsSomewhere` follows the end of a run from the core to the interrupt to
`irq_received`, each of which holds it for the waiter and nobody else, across the
handler's two critical sections (`IsrHasIrq`: what the first has seen, the
second finds).

**`FencesProofs`.** A fence that is not signalled has one owner: an entry of
an idr or a thread that works on it (`OneOwner`, `Unsignalled`). So a handle
stays its holder's, a reference is dropped once, and `idr_alloc` finds an id,
as more fences than ids were never created (`IdsLeft`).

**`GemObjectsProofs`.** References are counted exactly (`RefsOK`): one for each
handle, mapping and call under way, one for the dma-buf, those that failed
mappings left. The chunks of two objects stay apart because no chunk in use
begins before the position of a search and reaches over it (`SearchPast`):
what is freed beside the search only takes such chunks away, and
`struct_mutex` keeps other searches out.

**`DriverLifeProofs`.** One thread loads and unloads; `DriverInv` says, for each
place where it can stand, which functions are untouched, set up, absent or
returned (`LoadInv`, `StopInv`, `UndoInv`), and clients only move the lists of
files. `HandlerHasItsCore` rests on the order of registration: at the place
where a handler is registered its core has registers, lists and memory, and at
the place where these go no core of the function has a handler. That the counter
of the pool stays in its range needs to know how far the walk over the cores is,
in both directions, and that a function without registers was never entered.

**`SliceCoresProofs`.** A listed node stands in exactly one list, that of its
slice and type, at the place that its id says (`Placed`, `Found`); rows behind
`row` and auxiliary cores of nodes not probed yet are in none (`Unentered`), and
nothing ahead of the walk of `probe_hantroHW` has been probed (`Unvisited`). An
entry at the end of a list and a removal from its middle keep this, although the
walk goes on in the list that has changed. What is attached to a core carries a
copy of the core's id; it stays right because only a failed probe renumbers
(`AttachedWell`). A failed AXI front end keeps its place and its number; what
`CleanUnload` says of it is said of loads without failures only. What the walk has passed is mapped (`Mapped`), so the unload,
which unmaps without looking, finds it; `Returned` follows the unload type by
type.

**Only model-checked.** Liveness under fairness (`Completes`,
`CoreWaitEnds`, `WaitsEnd`, `IoctlsEnd`) is out of the
prover's reach. `ResumedQueueRuns` and `DoneNeverRunsAgain` of `VcmdPM`
need the chain's invariant with signals and errors, under which neither `ChainInv`
nor `CloseInv` is one: what a stopped core with an unhandled
interrupt has in its links would have to be described for each way to get there.
`ChargesHeld` of `VcmdFrontEnd` has no proof yet. So has
`SleepersAreWoken`. The violation (`encoder_abort`) is TLC's.

## 5. Plan

Done, in this order: `CmdbufPool`, `VcmdQueue` and `VcmdService`; `VcmdExit`;
`DecCores` and `EncCores`; `VcmdPM`; `Fences`; `GemObjects` (with both
allocators); `SliceCores`; `DriverLife`; `VcmdFrontEnd`; `VcmdRuns` and `VcmdWaits`; proofs about
`CmdbufPool`, `DecCores`, `EncCores`, `Fences`, `GemObjects`, `VcmdQueue` with its
refinement, `DriverLife`, `VcmdPM`, `SliceCores` and `VcmdExit`. Next:

1. `SleepersAreWoken` (from `CloseInv`), and `ChargesHeld` of `VcmdFrontEnd` (sums, as in
   `CmdbufPoolProofs`).
2. The chain with errors and suspensions (`ResumedQueueRuns`): `Queue` of
   `VcmdProofs`, with the stopped core as one more case.
3. `BiList`: the pointer operations refine insertion into and removal from a
   sequence, and a reader that walks the list between two writes.
4. `MmuNodes`: the split and merge allocator of address ranges.

## 6. Not modelled

`PROJECT.json` lists every component with its status. Left out: the MMU's page
tables and address ranges (switched off in the shipped build), sysfs files
(formatting of hardware counters), register access (bit fields), framebuffers,
the probe through a device tree, run-time power management, suspend and resume
of the legacy cores, and the build scripts. Several cores of one type behind
vcmd, which the code can spread work over, occur in the load and unload only.
