# cgroup-monitor in TLA+

This directory holds TLA+ models of the daemon `dio-monitor`, the TLC
configurations that check them on small instances, and TLAPS proofs of their
main safety properties. Source paths below are relative to `src/src/` of the
repository; line numbers are those of the files there.

To check a module: `tlc -config <X>.cfg <M>.tla`. To check a proof module:
`tlapm <M>.tla`.

## 1. The system

`dio-monitor` runs on a host with KVM. Clients connect over TCP to provision
and kill VMs, to ask for the address of a VM, to open a port and to reset the
market counters. Once per second the daemon measures what each vcpu consumed,
runs a market that sells the cycles of the host to the vcpus, and writes the
result to the cgroups as CPU quotas.

| component | state | operations | interacts with |
|---|---|---|---|
| CPU market, `server/market/vcpu.cc` | accounts of the VMs; `allocated`, `buying` of the vcpus; locals of `run` | `run`, `reset`, `sellBaseCycles`, `buyCycles` | called by the control loop and by `resetMarketCounters`; reads the vector of running VMs; writes quotas through the vcpu controllers |
| VCPU controller, `monitor/libvirt/controller/vcpu.cc`, `cgroup.cc` | directory of the VM, last readings, sums of the frame, history and slope, quota and period | `enable`, `recursiveSearch`; `update`, `updateBeforeMarket`, `addToHistory`, `computeSlope`; `setQuota`, `setLimit` | kernel counters and limits; read by the market |
| Control loop, `server/control.cc` | frame counter, `_mutex`, `_vcpuMutex`, the log file | `cpuControlLoop`, `resetMarketCounters`, `dumpCpuLogs`, `waitCpuFrame`, `readCpuMarketConfig` | a thread of its own; resets come from the accepting thread |
| VM registry, `monitor/libvirt/client.cc`, `vm.cc` | `_running` (vector of `LibvirtVM*`), `_mutex`, domains of the hypervisor, files for booting | `provision`, `kill`, `hasVM`, `getVM`, `removeVM`, `connect`, `killAllRunningDomains`, `openNat` | called by the server threads; the control loop walks `_running` |
| VM server, `server/vm.cc` | the accepting thread, a thread per provisioning | `acceptingLoop`, `treatProvision`, `treatKill`, `treatIp`, `treatNat`, `treatResetCounters` | streams; the registry; the controller; the log |
| Daemon, `server/daemon.cc`, `main.cc` | the objects above | `start`, `join`, `kill`; the handler of SIGINT | all |
| Sub-processes, `monitor/concurrency/proc.cc`, `iopipe.cc` | pid, six handles; the descriptors of the process | constructor, `start`, `wait`, destructor | `virt-install`, `ssh`, `virsh`, `iptables`, ... run by the jobs of `client.cc` |
| Streams, `monitor/net/` | socket | `accept`, `receive`, `receiveInt`, `send`, `sendInt`, `close` | clients |
| Configuration, `monitor/utils/{toml,tokenizer,config}.cc`, constructor of `LibvirtVM` | dictionaries | `next`, `rewind`, `parse`, `get`, `getOr` | the VM file of a client |
| Log, `monitor/utils/log.hh` | `__mutex__` | `info`, `error`, ... | every thread; a child holds a copy |
| Client, `client/main.cc` | its connection | `provisionVM`, `killVM`, `natVM`, `resetCounters` | the server |
| RAPL reader, former `market/cpu.cc` and `market/memory.cc`, CLI11, tinyxml2 | | | the former markets are not instantiated by anything |

What is hard in this code, and what makes each part correct:

- **Market.** Five loops move cycles between the host, the vcpus and the
  accounts, in unsigned and float arithmetic. It is correct if no cycle is lost
  or sold twice, no quantity wraps below zero, nobody who can pay or wants
  cycles is left behind while cycles are given away, every vcpu that needs it
  gets its nominal share, and each run ends. A run that finds the host
  over-allocated returns halfway, and leaves what it has changed.
- **VCPU controller.** Sums over ticks, a 32-bit counter, a counter and a timer
  that are read at two moments and a reset at a third, a history of five frames,
  a quota in a period that changes. It is correct if a frame measures what was
  used in it, errors of one frame do not add up over many, and the market reads
  back what the cgroup of its own VM enforces.
- **Control loop.** Two mutexes, one of which is taken inside the other by a
  reset; data collected without a mutex and written under one.
- **Server.** Files and names are cut by the network and by clients that die;
  answers are written to sockets that may be closed; a text is parsed outside the
  `try` block, and the block catches one family of exceptions; `accept` may fail;
  a stop cancels one thread in the middle of whatever it does and leaves the
  others running. It is correct if an answer is true, a VM is what its file says,
  no connection is left open, each client is answered, a stop ends.
- **Configuration.** A tokenizer that can be rewound and told to skip, a parser
  that treats comments, blanks and quotes through it, look-ups with defaults.
- **Sub-processes.** Several threads open, close and inherit descriptors of one
  table, whose numbers are used again at once; outputs go through pipes that
  are bounded and read after the command has ended; a child is forked from a
  process with threads and mutexes; if `fork` fails nobody notices, and `wait`
  takes the child of another thread. It is correct if nobody touches another
  command's pipes, reports are those of the command, and each `wait` ends.
- **Registry.** A vector of pointers that several threads scan, append to and
  replace, with a mutex that covers some of it; steps that take minutes; domains
  and files that survive the daemon. It is correct if a VM is in the vector iff
  it runs, no object is used after it is deleted, no error path leaks one,
  installs exclude each other, each request takes effect once and is answered.

## 2. The modules

| module | models | kind |
|---|---|---|
| `VCPUMarket` | the market, one action per loop iteration | detailed |
| `CycleLedger` | what the market promises: endow, trade, share, publish | abstract |
| `HungryVCPUs` | `VCPUMarket` composed with guests that use all they may | composition |
| `VCPUMarketProofs` | theorems about `VCPUMarket`, and that it implements `CycleLedger` | proofs |
| `VMRegistry` | registry, server threads and daemon, one action per step between two points of interference | detailed |
| `VMService` | what the daemon promises clients: requests that take effect at one instant | abstract |
| `VMRegistryProofs` | the safety of the registry, and that it implements `VMService` | proofs |
| `VMServer` | clients, streams, the request handlers, the rules of `openNat`, the stop | detailed |
| `Toml` | tokenizer, parser, dictionary, look-ups: what a text makes of a VM | operators |
| `VMServerProofs` | that connections are closed | proofs |
| `VMForwardingProofs` | that ports lead to the VM they were opened for | proofs |
| `VMAnswerProofs` | that answers are true, VMs as written, and what ends the daemon | proofs |
| `SubProcess` | commands, their pipes and the threads that run them | detailed |
| `SubProcessProofs` | that descriptors are never mixed up and reports are whole | proofs |
| `VCPUController` | controller of one vcpu, with its guest and its cgroup | detailed |
| `VCPUControllerProofs` | theorems about what is measured and enforced | proofs |
| `ControlLoop` | the loop, resets, the log, VMs that come and go | detailed |
| `ControlLoopProofs` | theorems about its mutexes and its log | proofs |
| `MC*` | instances for TLC; `MCVMServer` puts `Toml` into `VMServer` | |

### VCPUMarket

`pc` names the loop that `run` is in and `todo` what that loop has still to
visit; `market`, `buyers`, `fails`, `allNeeded`, `rest`, `percent` are the
locals of the code, `allocated`, `buying`, `money` the members of controllers
and VMs, and `capping` is `getAbsoluteCapping ()`, the quota in cycles. The
lists are walked in the order of the vcpus and nothing is inserted out of
order, so a list is a set and the next element is its least member (`First`).

`sellBaseCycles` has the four cases of lines 138-204; consumption, length of
the frame and slope are inputs (`Usages`, `Deltas`; a flat slope is possible
with any reading). `Bid` is one iteration of line 82, `NextRound` of line 81;
`Split`, `Spread` and `applyMarketAllocation` are one iteration of the last
three loops. Between two runs the accounts may be reset: that a reset never
falls into a run is what `ControlLoop` shows (`ResetOutsideRun`). The set of
VMs is fixed during the runs.

Float arithmetic: `Share` allows every result within a quarter of a cycle
before truncation, more than 24 bits of mantissa lose on the values that occur;
`Quantised` allows a quota to lose up to `Loss` cycles. The first capping is 0:
a quota of 2^64-1 times 100 does not fit in an `unsigned long`, and on x86-64
the conversion yields 0. `Room` keeps the unsigned subtraction of line 145.

`CycleLedger` knows nothing of rounds, windows or shares: holders are endowed,
trade one for one against their accounts, get free cycles only without money,
and quotas are published from what is held; a session that endowed too much is
cancelled. `LedgerSpec` maps `pc` to its phase.

### HungryVCPUs

Closes the loop: a vcpu that is awake consumes what its quota lets it (all of a
core if it has no limit, line 139 of `controller/vcpu.cc`), so the reading
depends on the result of the run before. It asks whether every such vcpu comes
back to its nominal share from whatever quota it had.

### VMRegistry

Threads are the accepting thread and the threads of `treatProvision`
(`Provisioner`). `pc` is the place of a thread: `hasVM`, then for a provisioning
`new`, `getVM` (and the kill of a namesake), `create`, `lock`, `install`,
`waitIp`, `mountSwap`, `enable`, `push`, `reply`; for a kill `getVM`,
`killDomain`, `deleteFiles`, `removeScan`, `removeAssign`, `delete`. Objects are
`Obj`, `alive` those allocated; a freed one may be allocated again. `removeScan`
copies the vector as the code does, with its `break`, and `removeAssign`
replaces the vector after the mutex is released. `installVM` may fail and is
then not noticed; `createFails` is the only error that is thrown and caught.
`start`, `stop` and `exit` are the daemon's life, `crash` its death at any
point: domains and files stay.

`Discipline` says what clients do: one request at a time (`"one"`), never two at
a time about one VM (`"distinct"`), or anything (`"any"`). The code gives
guarantees only under such discipline (section 6).

A scan of the vector and a `push_back` are atomic in the model. They are not in
the code when another thread replaces the vector; the effect of that is
undefined and not modelled.

`VMService` is the specification for clients: a set of VMs; `Provision`, `Kill`
and `Ask` take effect at one instant between call and result. `ServiceSpec` maps
`serving` to the ids in the vector; a provisioning takes effect with its `push`,
a kill with `removeAssign`.

### VMServer and Toml

A client (`cpc`) writes the units of its `Program` and then reads: an integer of
the protocol is one unit, a text one unit per symbol. The server has received a
prefix of what was sent; `receiveInt` and `receive` are the sets of results that
a call may have: nothing while it waits, an integer or any part of a text that
has arrived, 0 or the empty text at the end of the stream. This goes for the
names of `KILL`, `IP` and `NAT` as for files: `v10` may be received as `v1`, and
the rest of the name is then read as the ports (`cut`, `Misread`). A client whose
connection is broken may notice when it writes, or later (`broken`, `write`).
`acceptFails` is an `accept` that returns a stream of descriptor 0: `receiveInt`
gives 0 of it, which is `PROVISION`, and the thread that then provisions reads
nothing and answers nobody. Threads are the
acceptor and one provisioning thread per client; `pc` is the call they are at,
`text`, `prot`, `ports` what they have read. Handlers are actions named after
their functions; `Take` is the way on and `refuse` the `NOT_FOUND` way out.
`finish` is the last answer and the `close`: a write to a client that is gone
may fail, after which the stream has forgotten its descriptor and `close` does
nothing (`net/stream.cc`), so the descriptor stays (`"forgotten"`).

A provisioning under way may be refused (`LibvirtError`, which `provision`
catches), or break down and end the daemon (`breakDown`): `mountSwap` calls
`exit (-1)` if `chmod` fails, and a `filesystem_error` of the walk over the cgroup
directories (`cgroup.cc:145`) is caught by nobody.

The mutex of the log is a variable, because a thread that is cancelled while it
prints never unlocks it. `cancel` has two ends: at a cancellation point outside
a `try` block the thread is gone; inside one, `catch (...)` does not rethrow the
cancellation, and the runtime aborts the process. `rules` are the two chains of
iptables with the rule that matches first in front; nothing removes rules.
`effect` and `forward` are ghosts: what was done for a client, and what a port
was last opened for. `Mistaken` says that what was done is what was asked for,
but about the VM whose name is the first part of the name in the request.

`Toml` works on symbols: a delimiter or a piece of a word. `LibvirtVM(text)` is
the whole way from a text to the settings of a VM, or the exception that ends
it: `status` is `"refused"` for what `treatProvision` catches, the name of the
exception for what it does not. Operators have the names of the functions they
model. They are recursive, as the parser is, so nothing is proved about them:
they are run on each prefix of the files of the instance.

The vector of VMs, and the steps inside a provisioning, are those of
`VMRegistry`; here a VM is its settings and a provisioning succeeds, is refused
or breaks down.

### SubProcess

`descriptors` is the table of the daemon and `handle` what the objects of each
thread believe. A function of `client.cc` has up to two objects at a time
(`mountSwap`, `openNat`), hence `Ends(1)` and `Ends(2)`; `Destroyed` says when
their destructors run. `createPipes` stands for its three calls, one per pipe:
each takes the two lowest free numbers, or fails and leaves 0, which the code
does not look at. `start` is `fork` with the `dup2`s of the child: `stdio` is
what the child then has as 0, 1 and 2, and `lockedAtFork` its copy of the mutex
of the log. `fork` may fail (`Forkless`), which the code does not look at: `_pid` is
-1, no command runs, and `waitpid` waits for any child of the daemon. So it takes
the child of another thread, with its status (that child is then `"reaped"`, and
the thread that forked it finds nothing to wait for: status 0), or returns at once
with 0 if there is no child at all.
A command writes `output`, of which `Poured` keeps what fits: the write ends are
non-blocking. A command that cannot be executed runs `exit (0)` in the child,
whose destructors log: with a copy of a locked mutex it hangs (`Hung`).

The jobs (`provision`, `openNat`, ...) are the commands of the functions in
their order with what is done about a failure.

### VCPUController

Time in ticks, consumption in cycles. `work` is the guest; `moveScope` are the
directories of VMs that appear and vanish under `machine.slice` while `enable`
searches for the one of this VM: `recursiveSearch` meets a directory, which is the
result if the name occurs in its path (`Matching`), and otherwise is opened by
`openDirectory`, which throws if it has vanished since. `register` is the moment
the VM gets in the vector. An update is three steps, between which the guest runs
on: `update` reads the counter, `time_since_start` the timer, `reset` restarts it.
`updateBeforeMarket` ends a frame, and `setQuota` with `setLimit` is the call of
the market. `readUsage` keeps the 32 bits of
its return type, the sums their 64 (`Word`, `LongWord`, scaled). With cgroups v1
the period is not written (`V2`, `KernelPeriod`). The history holds
cycles per tick, of which the code keeps the percentage of a core as a float: the
model rounds to a cycle, which is a small part of a percent of a core, and keeps
the slope as a fraction over a constant denominator. Ghosts (`read`, `before`, `truth`, `frames`) remember what
the counter was, others (`pause`, `lost`, `lag`) the time between a reading and
the reset. The frequencies of the cores, used in the log only, are left out.

### ControlLoop

Each walk over the vector visits its VMs one by one (`Visit`) from the set that
was there when the walk began; the mutexes are variables that name their owner.
The market is a walk that leaves some account of each VM. `entry` and `stale`
follow the log: an entry is stale when it holds an account read before a reset.
`_vcpuMarketEnabled` is what `readCpuMarketConfig` found.

## 3. The runs

| run | question | states |
|---|---|---|
| `market` | any sequence of runs and resets: types, conservation, quotas, service above nominal, no idle cycles, free cycles only for the broke, one core at most; each run ends; refinement of the ledger | 250,000 |
| `hungry_vcpus` | on a host with enough cycles, do hungry vcpus come to their nominal share and stay there? | 206,000 |
| `vm_sequential` | requests one at a time about two VMs with failures, stops, crashes: registry and hypervisor agree, nothing leaks, nothing is used after free, refinement of the service | 6,100 |
| `vm_concurrent` | two provisionings in parallel with questions and a stop: exclusion of installs, answers, refinement of the service | 101,000 |
| `vcpu` | frames of one vcpu whose guest runs on during the updates, among directories that come and go: measures are exact, rates within a core but for the pauses, trends seen, quotas read back | 1,469,000 |
| `loop_reset` | loop and resets while VMs come and go, market enabled or not | 8,200 |
| `server` | three clients over streams that cut files and names, one killed at any point, an `accept` that fails, provisionings that are refused or break down and a stop: answers are true but for cut names, VMs are as written, connections closed, ports lead to their VM, only provisionings end the daemon; everybody is answered, a stop ends | 214,000 |
| `commands` | two threads and their commands, some missing, with too few descriptors, full pipes and forks that fail: nobody touches the pipes of another, reports are whole; waits and jobs end | 111,000 |
| `vm_three_vms` | violation: `hasVM` after a kill among three VMs | |
| `vcpu_wrap` | violation: the consumption of a frame when the counter wraps | |
| `vcpu_two_names` | violation: the controller of `v1` limits `v10` | |
| `loop_new_vm` | violation: a VM without ticks in its first frame | |

### Bounds, and why they are enough

- `market`: three vcpus, two in one VM so that they share an account; a host of
  7 cycles for nominal shares of 8, so that runs give up, sell out or leave
  something to spread; windows of 2 cycles, so that bids take several rounds;
  readings of nothing, some, all. `MoneyBound` stops runs from starting with
  more than 3 cycles on an account, more than any vcpu can spend in a run.
- `hungry_vcpus`: two vcpus with accounts of their own, cores of 40 cycles so
  that the 1% margin, the 85% limit and rounding are apart; `WakeBound` keeps a
  guest that sleeps from saving more.
- `vm_sequential`: two names, three objects, because a provisioning holds an
  object besides those of the two VMs. One request at a time. Three names are
  in `vm_three_vms`, where the code fails. The errors are those of `Faults`.
- `vm_concurrent`: two provisioners and the acceptor, distinct names. No kills:
  a kill next to a provisioning loses VMs (section 6). No failing install: the
  request would never be answered, which is what the code does.
- `server`: one client may provision from a sound file, with a comment, a list, a
  quoted text with a blank and a number with a point, or from one with an open
  bracket, reset the counters or speak an unknown protocol; one asks for a port of
  `v1`; one for the address of `v1`, the kill of `v10` or the same port for `v10`.
  The name of `v10` begins with the one of `v1`, so that a cut name is that of a
  VM that is there: a port is opened twice, a VM killed under a rule, a name asked
  for that is not there. Requests that may come to be about one VM follow one
  another (`Settled`, `Touched`); each prefix of a text may be all that is
  received, and what is left of a name may be read as the port or as 0. One client
  may be killed, at any point: more of them multiply states, and meet the same
  handlers. Every fault of `Faults` may happen at any time.
- `commands`: one thread runs a provisioning from the installation on, the other
  an installation or a port; pipes hold one unit of the two that are written to
  stderr. `MaxDescriptor = 12` leaves ten numbers: three pipes for the one who
  comes first and two for the other. `virsh` is missing. `fork` may fail for
  `virt-install`, which both threads run and report about, under the mutex of
  `installVM`, and for `iptables`, whose status is ignored; as often as it likes.
- `vcpu`: a core of 400 cycles, so that the 0.1% of a core that the market
  compares a slope with lies between the slopes of histories that rise by one and by
  two cycles, and steps of 1 or 4 cycles are below or at 1% of a core; the counter
  comes by the totals of `Totals` only, which has small steps and whole cores. Two
  ticks between updates, one in the middle of each, a history of five as in the
  code, two updates in the first frame; two quotas, on both sides of 85%; two
  directories, one of which fits.
- `loop_reset`: two VMs, so that a walk can be interrupted in its middle.

### Fairness

- `VCPUMarket`: weak fairness of `Step`: `run` is a sequential program.
- `HungryVCPUs`: the control loop calls `run` in each frame and completes it.
- `VMRegistry`: weak fairness of each thread's steps and of `exit`. It stands
  for schedulers that run every thread, for commands that end, and for guests
  that boot and accept ssh. Nothing forces a request, a stop or a crash.
- `VMServer`: weak fairness of the acceptor, of each provisioning, of the stop
  and of each client's writes and reads: threads and processes run, and what a
  provisioning waits for comes to its end; strong fairness of `accept`, which may
  fail while descriptors are lacking but not for ever. A client may stop by dying, never by
  silence: one that keeps its connection and says nothing blocks the acceptor,
  and with it all (section 6).
- `SubProcess`: weak fairness of each thread and each child; strong fairness of
  the success of `ssh`, which `mountSwap` repeats until the VM has booted. Nothing
  is assumed of `fork`: it may fail whenever it is called.
- `ControlLoop`: weak fairness of the loop and of a reset under way, strong
  fairness of taking a mutex: the loop sleeps for most of a second in each
  frame, and each reset is a new connection, so neither side can take a mutex
  back the moment it is released for ever. pthread mutexes alone promise less.

## 4. What is proved

All theorems hold for every value of the constants that the `ASSUME`s of the
module allow (any finite set of vcpus, any VMs, nominal frequencies, trading
parameters, readings; any threads, names, faults).

- `TypeCorrect` (`TypeOK`): inductive with one addition, `MarketOpen`: there is
  no negative market while bids are made, so no bid is negative.
- `NominalServed` (`ServedAboveNominal`): needs `Unsold`, that a vcpu which the
  sale has not reached holds nothing and wants nothing.
- `NoMoreThanACore` (`AllocationFits`): what a vcpu holds plus what it wants is
  at most a core until the spread; with `Unsold`.
- `NothingFreeWithMoney` (`BrokeBeforeFree`): `BrokeInv` says that who still
  wants cycles is a bidder or has failed, and that who has failed has no money
  as long as cycles are left.
- `CyclesConserved` (`Conservation`): from lemmas about `Total`, the sum as the
  cardinality of a set of pairs: one entry replaced changes the sum by the
  difference. The spread needs `percent * vcpus <= market`.
- `QuotasNeverExceedHost` (`QuotasFitHost`): `LoopInv` adds that `allNeeded` is
  the sum of what the failed vcpus want (`BidInv`), and that after each share
  what is left covers the shares still due, but for a quarter cycle each
  (`SplitInv`); `QuotaInv` carries the bound through the application of the
  quotas one by one and through runs that give up.
- `WantsComeFirst` (`NoIdleWhileWanted`): `ShortInv` follows the split. When the
  market can serve all that is needed, a share falls short of a wish by a cycle
  at most; when it cannot, each share takes its part of the market but for less
  than 5/4 of a cycle, so that less than that per vcpu is left at the end
  (`FullShare` and the lemmas after it). On top of `BrokeInv` and `LoopInv`.
- `MarketKeepsLedger` (`LedgerSpec`): one case per action of `run`. What a bid
  pays is what it gets, a share goes to a vcpu whose VM has no money
  (`BrokeInv`), what is published was obtained (`ConservedInv`, `LoopInv`).
  Hypotheses: the window is positive, since with 0 all bids fail and the split is
  free for vcpus that have money; and each nominal share lies between the 1%
  floor and a core. Outside these bounds a vcpu may come to hold more than a core
  (its base is the floor but its wish is counted from its nominal share), which
  the spread then takes back: no ledger does that.
- `RunsAreBounded`: `StepsLeft` is a number that each step of a run decreases, at
  most `2 * Capacity + 6 * vcpus + 6`, and 0 between runs. A bid takes a cycle
  off the market or a vcpu off the bidders (`BidInv`), so rounds do not go on for
  ever. It is what `RunEnds` rests on besides the fairness of `run`.
- `ResetBetweenRuns` (`ResetOutsideRun`): `LockInv` says which mutex is held
  where.
- `OneStaleEntry` (`AtMostOneStaleEntry`): `StaleInv`: while no reset is removing
  the log, an entry in the making with old accounts means that none is in the
  log. It rests on `LockInv`, as the entry is appended under the mutex that a
  reset holds from before it touches the accounts.
- `NoEmbrace`: the loop and a reset never wait for each other. `FreeInv` is the
  converse of `LockInv`: who owns a mutex is where it will release it. It is what
  `ResetAnswered` and `LoopGoesOn` rest on besides fairness.
- `InstallsExclude` (`InstallExclusive`): whoever installs holds the mutex; for
  any discipline of the clients, kills in parallel and crashes included.
- `RegistryTypeCorrect` (`TypeOK`), `NothingFreedIsUsed` (`NoUseAfterFree`): for
  any number of threads, names and objects, with every error, stop and crash, if
  two requests are never about one VM at a time (`Discipline # "any"`; else
  section 6). `TypeOK` says that the vector holds allocated objects only, which
  no step can show by itself. The inductive invariant is `Inv`: what each thread
  may be doing for which request, alone with its name (`RequestInv`); whose
  object a thread holds at each of its steps, that the copy of `removeScan` holds
  one VM at most, of the vector and not the one that is killed, and that no name
  is there twice (`HeapInv`: `Serves`, `Keeps`, `Holds`, `NoTwins`).
- `HasVMIsRight` (`HasVMTellsRunning`), `RunningVMsAreWhole` (`VMsAreWhole`),
  `NothingLeaks` (`NoLeak`), `RegistryIsService` (`ServiceSpec`): besides, the
  copy of `removeScan` must lose nothing (`CopyIsWhole`): nobody kills, or
  requests come one by one about two VMs at most. This is the `break` of
  `client.cc:201`; with three VMs the first of these is false (run
  `vm_three_vms`). `KeepsOthers` says that what the copy drops is the VM that is
  killed; `WorldInv` says of each name that no request is about that entry,
  domain and files are there together, of each thread what it has made of them
  so far (`Hosts`), and of each object who holds it. In the refinement a step of
  a thread is one of the service or invisible; `push` and `removeAssign` are the
  instants at which a request acts.
- `RisingSeen` (`TrendSeen`): for histories of five, as every controller is made
  (`controller/vcpu.hh:137` and `vm.cc`). `SlopeInv`: a full history has its slope
  beside it. `SumOfFive` computes `SumFunction` over five places, in whatever
  order it takes them, from a function that satisfies its recursion;
  `SlopeOfFive` is that the slope is 50 times the first-to-last rise plus 25
  times the inner one, over 250, so that a rise of 1% of a core, in steps of any
  size, is above the 0.1% of the market.
- `FramesMeasured` (`LaterTicksMeasured`), `EachCycleOnce` (`NothingLost`),
  `AtMostACore` (`RateWithinCore`): as long as the counter stays below 2^32
  (`ShortRun`, without which the first is false: run `vcpu_wrap`). `CounterInv`
  relates the sums to the counter at the last update and the last frame
  (`SumInv`), and bounds each by the time it was measured in (`CoreInv`), where
  `sinceRead` and `summed` follow what the timer loses between a reading and its
  reset; the step is that an addition modulo 2^64 of a difference of two readings
  is the difference (`UpdateAdds`).
- `QuotaReadBack` (`EnforcedIsReported`): where the kernel takes the period of the
  daemon (v2) or has the same one. With another period under v1 the quota read
  back would not be the one in force. `LimitInv`: a limit is only set once
  `_period` is the one of the market.
- `OwnDescriptors` (`HandlesAreOwn`): for any number of threads and of jobs as
  `ScriptAssumption` describes them (a second object only while a first one is
  there), and any limit on descriptors. `DescriptorInv` adds that no handle is
  one of the first three numbers (`TableOK`) and that an object is only created
  where its handles are closed (`StageOK`): otherwise numbers would be lost.
  `CloseKeeps` and `OpenKeeps` are the two ways the table changes.
- `ReportsAreWhole` (`ReportIsWhole`): for any outputs (`OutputAssumption`) and
  capacities. On top of `DescriptorInv`, `PipeInv` says that a child writes once,
  into the pipes of its own command, that its outputs are in them once it has
  ended and until they are printed, whoever has waited for it, and that a pipe
  that can be read is the one its command writes to, or nothing was written
  (`Wired`: a pipe that cannot be made has neither end, and without a child its
  pipes stay empty). That other threads leave all of it alone is what
  `DescriptorInv` gives; a `wait` that takes the child of another thread changes
  nothing of its pipes.
- `ConnectionsClosed` (`HandlersClose`): for any clients and requests that
  `RequestAssumption` allows, whatever a text means. `ConnectionInv` adds that a
  client that is served has an open connection and no answer yet, hence has not
  given up (`ClientOK`), that a connection waits at one place of the backlog
  only (`BacklogOK`), and that the protocol the acceptor has read is that of the
  client it serves, or `PROVISION` at the end of a stream (`AcceptorOK`, with
  `FirstUnit`). Every handler goes on (`WalkOn`) or answers and closes
  (`FinishKeeps`).
- `PortsLeadToVMs` (`PortLeadsToVM`): on top of `ConnectionInv`. `ForwardInv` says
  of each port what its last `openNat` has reached: after the first command one
  chain, after the second both (`PortOK`, `CommandOK`); that the VM of a request is
  there until its handler ends, since the acceptor alone kills before the stop
  (`NamedOK`); and that a provisioning makes its VM of a part of the text of its
  client (`ProvisionOK`, `Received`), for which `ConfigurationAssumption` says
  that a VM has settings. `LeadsInFront` and `LeadsBehind` are about a sequence
  with a rule put in front.
- `AnswersAreTrue` (`AnswerIsTrue`), `OnlyProvisioningsEnd`
  (`OnlyProvisioningEnds`): on top of `ConnectionInv` and `ForwardInv`. `AnswerInv`
  says that a client has written all of its program unless it has died or given up
  (`SentOK`), that what the acceptor does is what the client it serves has asked
  for, with the name and the ports it wrote, unless that client has died or its
  name was received in part (`AskedOK`, `Astray`), that a thread provisions for a
  client that asked for it or that died before it wrote anything, which the server
  takes for a provisioning (`ProvisionerOK`), and that effect and answer come
  together (`AnswerOK`). What a cut name leads to is the VM with that part for a
  name, and no other. `OnlyProvisioningsEnd` has one hypothesis, `WholeFilesRead`:
  the whole of a sound file makes a VM of what it states. It does not say that a
  sound file is safe: a provisioning under way may end the daemon (`breakDown`).
- `FilesAreObeyed` (`ProvisionedAsWritten`): from the same invariant. Hypotheses:
  `WholeFilesRead`, and that a part of a file that makes a VM has the image of the
  whole (images are stated once), which leaves out that a part of a malformed
  file makes one: it may do so when it has a valid beginning and its client dies
  in the middle, but there are no stated settings to compare with.

`RequestAssumption` says what a client program writes: a provisioning has a
name, the other requests send it as their text, a port is opened with two
numbers. `ConfigurationAssumption` is all that every proof about the server
assumes of `Configuration`: nothing makes no VM; a part of a file makes a VM only
for a provisioning, with the name of the file (names come first, and are stated
once). What the last two theorems take as hypotheses besides is what `Toml`
computes on each part of each file of the instance of `server`. It stays a
hypothesis of these two because it is what a bug of the parser breaks: with such
a bug `server` finds their properties violated.

Only model-checked: the liveness properties (`RunEnds`, `NominalReached`,
`EveryRequestAnswered`, `ResetAnswered`, `LoopGoesOn`, `Answered`, `StopEnds`,
`WaitEnds`, `JobsEnd`), because fairness and `ENABLED` are beyond the prover; and
what the recursive `Toml` computes of a text, which is induction over data. Every
invariant and every safety property of a step, and both refinements, are
theorems.

## 5. Where the code and its comments part

Each of the four violation runs reaches a state that a comment excludes:

1. `vcpu_two_names`: `controller/cgroup.hh:70` says that the search is for the
   cgroup of the VM; `recursiveSearch` takes the first path in which "v" and the
   id of the VM occur (`controller/cgroup.cc:142`), so that the controller of `v1`
   may take the directory of `v10`, and then limits `v10`.
2. `vm_three_vms`: `client.hh:127` says that `hasVM` is true iff the VM runs;
   `removeVM` keeps only the first of the VMs that stay (`client.cc:201`).
3. `vcpu_wrap`: `controller/vcpu.hh:89` says `_consumption` is that of the last
   macro tick; at a wrap of the 32-bit reading it is near 2^64.
4. `loop_new_vm`: `client.hh:93` announces the means of the last ticks; a VM that
   is pushed between the two walks of a frame has none, and
   `controller/vcpu.cc:58` divides by zero.

Other differences met while modelling, without a run:

- `proto.hh` has an error for a VM that exists already; `treatProvision` answers
  `NOT_FOUND` instead, as for any other failure.
- `market/vcpu.hh:75` promises the nominal frequency; a run on a host that is
  over-allocated returns at `market/vcpu.cc:42` and leaves the quotas that were in
  force, whatever they are.

## 6. What the models do not promise

Guarantees are stated under the discipline the code needs, because beyond it
the code does not give them: a VM pushed between `removeScan` and `removeAssign`
is lost; two provisionings of one name at the same time both pass `hasVM`; a
kill between the `push_back` and the reply deletes the object that
`treatProvision` reads; an install that fails leaves its request without an
answer; the first frame of a VM counts from the boot of its domain.
So do the server and its commands: a client that connects and is silent blocks
all requests but provisionings under way; a file that is malformed, or cut by
the death of its client, ends the daemon, and so does a sound one whose `chmod` or
whose walk over the cgroups fails; a name that comes in part is taken for the VM
of that name, which is then killed or opened instead; a stop that comes while the acceptor
prints may never end, as the mutex of the log stays locked; a child that cannot
execute its command hangs, with the thread that waits for it, if it was forked
while another thread was logging; after a `fork` that fails, two threads may get
each a status that is not the one of their command.
The hazards in `PROJECT.json` list these at their lines.

Not modelled:

- **Third-party code.** CLI11 and tinyxml2 are vendored. They are about two
  thirds of the lines of the implementation, so the share of lines that `map`
  covers stays small however much of the daemon is modelled.
- **Code that nothing calls**: the former CPU and memory markets, `json.cc`,
  `toml::dump`; arrays in configurations are parsed by `Toml` and read by nobody.
- **Pure readings for the log**: the frequencies of the cores and the RAPL
  counters. No decision depends on them.
- **Addresses** of sockets and VMs, the port file that `dumpConfig` writes, the
  texts of domains, user data and scripts. An address is the name of its VM.
- **Inherited ends of pipes.** A child also holds the ends of the pipes of other
  commands that are open when it is forked. Nothing reads a pipe until its end,
  so that delays nobody. `read` returning -1 leaves its buffer uninitialised; a
  report of a pipe that is empty is taken as empty.
- **The end of the process.** Static destructors that run while provisioning
  threads go on, and the destructor of `LibvirtClient` in a child, which closes
  the connection to the hypervisor that it shares with the daemon: what the
  other side of that connection then does is outside this code.
- **Undefined behaviour of the vector** of VMs under concurrent changes.

Why is said for each part under `components`, too.

## 7. Plan

Done: the market with its ledger and its proofs; the registry with its service;
the controller with its proofs; the loop; requests on the wire with the parser
of configurations; sub-processes and forks that fail; cgroups by name.

Next, in this order:

1. *Loop and registry composed*: the walk over the live vector, the objects of
   VMs that are killed during a run, VMs pushed during a run with what a new
   controller has in `_allocated` and `_buying`.
2. *Server and registry composed*: `VMServer` over the steps of `provision` and
   `kill` instead of their results, with the stop in the middle of them.
3. *Proofs*: what the liveness of the server and of sub-processes rests on and
   can be stated without fairness, as `RunsAreBounded` and `NoEmbrace` do for the
   market and the loop: that each text read and each command done brings a
   handler or a job nearer to its end, and who waits for whom.
