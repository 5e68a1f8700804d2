# A verification development for the HDF driver framework

This directory holds TLA+ specifications of the OpenHarmony driver framework
(`src/` in what follows), TLC configurations that check them on small
instances, and proofs that TLAPS checks. It is kept beside the code: every
definition that models code is mapped, in `PROJECT.json`, to the lines it was
translated from.

Contents

1. The system
2. What is modelled, and in which module
3. The runs: what is checked, on which instances
4. Disagreements between the code and what it says of itself
5. What is proved
6. Fairness and liveness
7. What is left out
8. Plan

To repeat a run: `tlc -workers 2 -config MCxxx.cfg <module>` in this directory,
with the module named in section 3 or 4. To repeat the proofs:
`tlapm <module>.tla` for each of the modules `*_proof`.

## 1. The system

HDF loads drivers described by a configuration tree, publishes their services,
delivers their events to user space, and controls their power. It runs in the
kernel and, in part, in user space. The following parts have state of their
own or decide what happens to the state of others.

### Device manager and device hosts

`src/core/manager`, `src/core/host`, `src/core/common`.

* **State.** The device manager keeps a list of hosts; for each, a client object
  (`DevHostServiceClnt`) with the list of its device infos, static and
  registered at run time, and their number (`devCount`). Each host service keeps a list of
  `HdfDevice`s, each with a list of `HdfDeviceNode`s. For each node the device
  manager keeps a token. An info has a mutable `preload` and `deviceId`.
* **Operations.** `DevmgrServiceStartDeviceHosts` at boot, which attaches each
  host and lets `DevHostServiceClntInstallDriver` add its devices;
  `DevmgrServiceLoadLeftDriver` in the second step of a quick boot;
  `DevmgrServiceLoadDevice` and `UnLoadDevice` on request; `HdfRegisterDevice` and
  `HdfUnregisterDevice` for devices that come and go. All of them end in
  `DevHostServiceAddDevice` and `DevHostServiceDelDevice`.
* **Interaction.** Launching a node calls the driver's `Bind` and `Init`,
  publishes a service with the device service manager and with the host's
  observer, makes a device file if the policy is CAPACITY, and attaches a token
  to the device manager. Freeing one undoes this, by name.
* **What is hard.** Requests during the boot; failures after several effects have
  taken place, some of them on siblings of the node that failed; a key (`deviceId`,
  16 bits, from a count that falls) that is not unique; records found by name
  where several nodes may share one.
* **Correct means.** Devices, nodes, records and device files agree; clients are
  never led to a freed node; what is unregistered goes and nothing else does;
  what is configured to be loaded at boot is loaded.

### Device service manager

`src/core/manager/src/devsvc_manager.c`, `src/core/shared/src/hdf_service_record.c`.

* **State.** A list of records (name hash, device object), newest first, and a mutex.
* **Operations.** Add, get, remove, subscribe (which loads the device of a service
  nobody offers), unsubscribe.
* **What is hard.** A record is looked up under the mutex and used or removed after
  it was released (86-101, 103-116), so two removals of a name may free the same record;
  a subscriber for whom a driver is loaded is not called back (66-84).
* **Correct means.** A look-up leads to a live device object or to nothing.

### Service observer

`src/core/host/src/hdf_service_observer.c`, `hdf_observer_record.c`,
`hdf_service_subscriber.c`.

* **State.** For each service name a record: publisher, policy, devid, subscribers.
* **Operations.** Subscribe, publish, remove (never called).
* **What is hard.** The list is searched without its mutex; a subscriber reads the
  publisher before it joins; a publisher sets the field before it notifies;
  nothing is withdrawn when a node goes.
* **Correct means.** Each subscriber ends with the service published last, is
  never taken back to an older one, and never gets what its policy denies it.

### Power state token

`src/core/host/src/power_state_token.c`, `src/utils/src/hdf_sref.c`,
`HdfPm*` in `src/core/host/src/hdf_device_object.c`.

* **State.** A reference count, the believed power state, the power mode, the
  driver's listener.
* **Operations.** Acquire, release, set mode, and the system's power events.
* **What is hard.** No lock anywhere: the count is changed and read again in two
  steps, and the callbacks it triggers run outside any order.
* **Correct means.** The count is the number of holders, the device sleeps when
  nobody holds it and is awake while somebody does.

### Device file of a service

`src/core/adapter/vnode/src/hdf_vnode_adapter.c`.

* **State.** A list of clients (openers), each with a status, a bounded queue of
  events and its size, a wakeup counter, a wait queue and a mutex; the adapter's
  mutex for the list.
* **Operations.** open, release, ioctl (start, stop, exit, wakeup, read event, service
  call), poll, `HdfDeviceSendEvent` and `HdfDeviceSendEventToClient`.
* **What is hard.** The size is kept apart from the list; an event travels from
  client to client while clients stop, close and read.
* **Correct means.** Bounded, ordered queues that lose events only when full.

### Service objects and listener threads in user space

`src/core/adapter/syscall/src/hdf_syscall_adapter.c`.

* **State.** An adapter per service object (file, listeners, thread, mutex); a group
  of service objects may share a thread; a thread (status, `shouldStop`,
  `pollChanged`, files to poll, mutex).
* **Operations.** Obtain, recycle, dispatch, register and unregister a listener, the
  same for groups; the thread's loop.
* **What is hard.** Two mutexes taken in both orders; status fields written and
  read outside them; a thread that is freed by whoever waited for it or, if the
  wait timed out, by itself.
* **Correct means.** Every call returns, every event is dispatched once and in order,
  every thread ends when its last listener has left and is freed once.

### Platform devices and the platform queue

`src/support/platform/src/fwk`.

* **State.** A manager per module (GPIO, I2C, MMC and so on) with a list of devices under a spin lock; a
  device with a reference count and a semaphore; a queue of messages with a semaphore and a worker thread.
* **Operations.** Add, delete, get by number or name, put; put a message, the worker's loop.
* **Interaction.** Deleting a device drops the manager's reference and waits for the semaphore, which the put
  of the last reference posts. The controllers of `support/platform` and `model/storage` are such devices.
* **What is hard.** The semaphore is posted at every fall of the count to zero, also for a device that was refused
  because its number is taken; a put tests the count apart from lowering it (`hdf_sref.c:48`); the worker
  reads a message after its handler has released its sender.
* **Correct means.** Deleting waits for exactly the last user; a message is handled once and not touched afterwards.

### MMC and SDIO controllers

`src/model/storage/src/mmc`.

* **State.** A controller with its current card (`curDev`), whether a card is plugged (`devPluged`), the mutex of the
  host, and a platform queue; the cards, which are platform devices.
* **Operations.** The slot's interrupt and its report, detection with its retries and removal in the worker,
  requests that are sent and waited for, rescans, calls on an SDIO card, claiming and releasing the host.
* **What is hard.** A card may leave while it is being detected or used; a removal waits for the card's users with the
  host's mutex held; changes that follow each other quickly.
* **Correct means.** A removed card is not freed under its users, senders are woken when their message has been
  handled, the controller ends with the card that is in the slot, and every call returns.

### Wifi message router

`src/model/network/wifi/platform/src/message`.

* **State.** A router (status, mutex), the services registered with it, dispatchers with a thread, a queue for each
  priority, a status and a reference count.
* **Operations.** Start, shut down, register and unregister a service; send synchronously, asynchronously, with or
  without an answer, and one way; the dispatcher's loop.
* **What is hard.** The status is read with and without the mutex; the reference count is lowered and tested in two
  steps (`shared_obj.h:47`); requests are on their way when services leave or the router is shut down.
* **Correct means.** Objects live as long as they are used, a message is freed once, accepted requests are answered, a
  shutdown frees everything.

### Wifi flow control

`src/model/network/wifi/platform/src/qos`.

* **State.** Queues by direction and priority, a semaphore and a thread with a status for each direction.
* **Operations.** Create, send a packet to a queue, schedule, a round of the thread, destroy.
* **What is hard.** The status is written by the thread and by whoever destroys it; the length of a queue is read
  before it is changed; the semaphore counts packets and not rounds.
* **Correct means.** Queues keep their threshold, packets reach the driver, threads end before their memory is freed.

### Voltage regulators

`src/support/platform/src/regulator`.

* **State.** A list of regulators with a status and a mutex each, and a tree of parents and children.
* **Operations.** Add, enable (with all its parents), disable (with the parents whose children are all off), disable
  by force (with all its children).
* **What is hard.** Mutexes are taken up the tree by two operations and down by a third; the status of children is read
  without theirs; a driver may fail anywhere on a branch.
* **Correct means.** What is on has its supply; calls return; what is forced off is off.

### Audio: power of the components, streams and ring buffers

`src/model/audio/sapm`, `src/model/audio/common/src/audio_platform_base.c`, `src/model/audio/dispatch`.

* **State.** A graph of components and paths with switches, the power of each component, a timer's flags and the time of the
  last refresh; for each direction the state of the stream and a ring buffer with its offsets.
* **Operations.** Set a switch; start, pause, resume, stop a stream; the timer; prepare, write and read, each by copy and
  by mapped memory.
* **What is hard.** A switch visits only components that may change; flags shared by both directions; the timer against
  a stream that starts; offsets that overflow, and transfers that do not divide the ring.
* **Correct means.** Components on a connected path have power and no others, a card in use does not sleep and one left
  alone does, sound is played and read in order.

### Parts that are not modelled

| part | state | operations | what is hard | why it is left out |
|---|---|---|---|---|
| io service proxies (`core/shared/src/hdf_io_service.c`) | none | forward to the adapters | nothing | one call, one result |
| driver loader, installer (`core/host/src/hdf_driver_loader.c`, `core/manager/src/hdf_driver_installer.c`, `driver_manager.c`) | a table fixed at link time | look up a driver entry | nothing | appears in the models as the outcome of a load |
| attribute manager, configuration parser (`core/shared/src/hdf_device_info.c`, `utils/src/hcs_parser`) | an immutable tree | read it, build the lists of hosts and infos in priority order | recursion over the tree | appears as the constants `Hosts`, `Infos`, `Policy`, `Preload`, `ParentOf` |
| machine-wide power events (`core/manager/src/devmgr_service.c` 258-295, `core/host/src/devhost_service.c`) | none beyond the lists | walk hosts, devices and nodes forwards or backwards | order over hosts while nodes come and go | planned |
| GPIO interrupts (`support/platform/src/gpio/gpio_core.c`) | a bridge with a worker thread for each pin whose handler may sleep | set, unset, enable, disable an interrupt | the worker frees the bridge while who destroys it still holds its lock; the handler is read without the lock | planned |
| HDMI, and the other bus controllers (`support/platform/src`) | per bus | transfers under the controller's lock; HDMI: EDID, CEC and HDCP exchanges | message formats | one lock around one driver call; formats are not control |
| MMC protocol (`model/storage/src/mmc/mmc_protocol.c`) | registers of a card | command sequences | bit fields | one outcome in `MmcCore`: success or failure |
| utilities (`utils/src`: message looper and queue, slist, sbuf, map, workqueue; `support/posix`) | containers | put, get, iterate | the looper's handover and its end | planned: the looper |
| input (`model/input/driver`) | devices, drivers, hot-plug queue | register, unregister, report | hot plug against open devices | planned |
| usb (`model/usb/src/usb_ddk_pnp_loader.c`) | the devices it has registered | add, remove | removes in another order than it added | appears as `Register`, `Unregister` in any order |
| sensor, vibrator, light, display, bluetooth, ethernet, wifi device classes | per class | per class | little beyond the framework | each forwards to a driver |
| `tools/hc-gen`, `tools/hdi-gen`, tests | - | offline | - | not part of the running system |

Every hazard found while reading, with its line and the property that covers it or the
reason none does, is listed in `PROJECT.json` under `hazards`.

## 2. What is modelled, and in which module

| module | what it is | built on |
|---|---|---|
| `HdfDeviceId` | the packing of devids and the 16-bit field they are stored in | |
| `DeviceManager` | hosts, infos, devices, nodes, records, boot and requests | `HdfDeviceId` |
| `ServiceDirectory` | abstract: what clients are promised of a service name | |
| `DeviceDirectory` | shows that `DeviceManager` implements `ServiceDirectory` | `DeviceManager` |
| `PowerStateToken` | the token and its reference count | |
| `ServiceObserver` | one service name of the observer of one host | |
| `VNodeAdapter` | one device file with its clients | |
| `EventListener` | a service object with its listener threads | `VNodeAdapter`, one client |
| `MessageRouter` | router, dispatchers, services and messages of the wifi framework | |
| `PlatformObject` | the count and the semaphore of a platform device | |
| `PlatformDevice` | the devices of a manager, their drivers and their users | `PlatformObject` |
| `MmcCore` | an MMC controller with its queue, worker, interrupt and callers | `PlatformObject` |
| `Regulator` | a tree of regulators | |
| `AudioSapm` | power of an audio card, its switches, streams and timer | |
| `AudioBuffer` | its ring buffers | |
| `FlowControl` | the flow control of a wifi device | |
| `Parts` | `PlatformDevice`, `Regulator`, `AudioSapm`, `AudioBuffer` and `FlowControl`, of which the initial state picks one | these five |
| `MCDeviceManager`, `MCServiceObserver`, `MCMessageRouter`, `MCMmcCore`, `MCParts` | instances for TLC | |
| `*_proof` | theorems and proofs | the module before `_proof` |

Definitions called a mutant in their comment are wrong variants of the code that a run is
sensitive to: put in place of the definition they name, they make the run fail.
They are not used by any specification.

### DeviceManager

A device info is named by its service name. `Infos[h]` are the static infos of
host `h` in the order the boot thread meets them; names in `Dynamic` are those
drivers register at run time, each on the model of the static info in
`Template` (the code looks for one with the same `moduleName`). A node is a
record under a key that counts up, so that "this node" stays meaningful after another node
of the same name appears.

| variable | code |
|---|---|
| `boot` | where the boot thread is: `DevmgrServiceStartDeviceHosts`, then `DevmgrServiceLoadLeftDriver` |
| `started` | `DevmgrService.hosts` |
| `infos`, `preload`, `devId`, `devCount` | `DevHostServiceClnt.deviceInfos`, the fields `preload` and `deviceId` of `HdfDeviceInfo`, `DevHostServiceClnt.devCount` |
| `devices`, `nodes` | `DevHostService.devices`, `HdfDevice.devNodes` |
| `tokens` | `DevHostServiceClnt.devices` (the tokens) |
| `services` | `DevSvcManager.services` |
| `doubled` | history, no counterpart |

Actions: `StartHost`, `StartHostFails`, `SkipDriver`, `InstallDriver` (boot, one
info each), `StartStep2`, `LoadLeftDriver`, `PassOver` (second step),
`LoadDevice` (a subscription to a service nobody offers), `Register`,
`Unregister`. A load has an outcome from `Outcomes`; `"fails"` stands for any
callback of the driver or allocation that fails. What happens on a failure does not
depend on where it happens: `DevHostServiceAddDevice` frees the `HdfDevice` it worked on
(`devhost_service.c:107`), and with it all its nodes.

A request is one step. User requests hold `devMgrMutex` from dispatch to answer
(`devmgr_service_start.c` 50-96) and hot-plug requests their caller's lock. The boot
thread holds neither, and the device manager's node is published before the hosts
are started (117-125 there), so the boot is cut into one step per info and requests
may fall between any two. Interleavings within one `DevHostServiceAddDevice` are not modelled.

### PowerStateToken

Each thread has a program counter; each atomic operation and each plain read or
write of a shared field is a step. `HdfSRefAcquire` is `AtomicInc` then
`ReadAfterInc`; `HdfSRefRelease` is `AtomicDec` then `ReadAfterDec`; the callbacks
on first acquire and last release are test, callback, write. `device` is the last
callback the driver's listener got. `Balanced` states the discipline of the callers: a
thread releases only what it acquired and the mode is changed while the token is not in
use. Without it (`Balanced = FALSE`) anybody may do anything.

### ServiceObserver

A call is cut where another thread can come between: after the search, after a
record is added, between the look at the publisher and the joining, between setting
the publisher and the notification, which is itself under the record's mutex and one step.
Records of other names are never touched, so one name is enough.

### VNodeAdapter

Every operation of a client holds the client's mutex and is one step. Sending
an event takes the adapter's mutex for the whole list and each client's mutex
in turn: `Send` starts, `SendToClient` or `SendOutOfMemory` serves one client,
and operations of clients fall in between. `CloseBegin` is the status `Close` writes
without the mutex. `DropFromEmpty` is the case in which the code takes the head of an empty
list for an event: what it then frees is not memory it was given, and the model lets the sender
die there with both mutexes held.

### EventListener

`VNodeAdapter` with the one client `fd` is the kernel's side. Application threads
(`user`) and listener threads (`task`) each have a program counter; the adapter's mutex
is `adapter.locked`, a thread's mutex `thread[i].locked` where it is held over more than one step.
`thread[i]` is the C struct; `freed` counts how often it was freed. `FreedKeeps = FALSE` lets
a field read from freed memory be anything. `Quiet` and `Settled` restrict when the last
listener may leave, to tell apart what holds in general from what holds outside two
known defects (section 4).

### MessageRouter

`router`, `index` (the services found by id), `slots` (the dispatchers), `remote` and `shared` (what `RemoteService` and
`MessageDispatcher` keep, with `refs` and `status`), `queue` by dispatcher and priority, `message` (a context and where its
life stands), and for each thread `pc`, `hand` (what it works on) and `drop` (the references it has still to give
up, because giving up one object may lead to another). `owned` are the services their owner has not yet
unregistered. Callers and dispatchers are threads; a call of the router is cut where it leaves a lock and where it
lets go of an object. The router is built with the local node only: the others are `#error` in
`message_router.c` 504-506. `DoStartMessageRouter` returns success even when it has failed (605), and
`DestroyService` leaves its service unfreed when the router was shut down first (`sidecar.c` 219-223); neither
is a property here. With `Overlap = FALSE` no thread lowers the count of an object while another is between
lowering and testing it.

### PlatformDevice, PlatformObject

A device stands for its driver's thread: "added" while the driver may remove it, "put" and "waiting" inside
`PlatformManagerDelDevice` and `PlatformDeviceUninit`. Finding and adding hold the spin lock and are one step; a put is one step, or
two with `Overlap = TRUE` (`pc = "read"`). `Keepers` are users who do not put back what they found, as callers of
`GpioManager` and `MmcOpen` do not. `NumberOf` lets two drivers read the same number.

### MmcCore

`slot` is outside the code: the card that is in it and whether its interrupt is still to come. `cntlr` and `card` are the
structs, `queue` and `message` the platform queue. The worker takes a message, and detects (in up to `Retries`
tries), removes or sends. What a protocol sequence does to a card is one outcome. Cards and messages are places in
memory, which are handed out again once freed; with `Reuse = TRUE` at once, also before the worker has read `block`
(`platform_queue.c:41`). A user that gets a card needs one that is present: taking `curDev` and its reference is one step.
A user counts as one of the card's from the moment it has the reference (`GetDevice`), before it has the host's mutex.
`Overlap` lets a claim of the host meet a removal.

### Regulator

`call[t]` is the call of a thread: its kind, its phase, the branch whose mutexes it holds (`path`, the innermost first),
the regulator it takes next, and for a forced disabling the regulators still to do (`todo`, the recursion's stack: a child is
`seen` once those below it have been put before it). Each look at a status without its mutex
is a step of its own. `overlapped` remembers whether two calls have ever overlapped. `ForceAlone`
keeps a forced disabling from overlapping another call.

### AudioSapm

`bit` is the register of each switch, `connect` the path's flag, `power` the power of a component. `Registered` are the
components with a register (`reg >= 0`); the power sequences pass over the others (`audio_sapm.c` 901, 937), whose `power` is 0 for ever, although
visits compare it (978) and may stop there. Setting a switch
computes the dirty components and everything their neighbours are spread to, as `audio_sapm.c` does through its lists,
in one step, as the call holds no lock but is made by one dispatcher thread. `TimePasses` makes the last refresh long ago. `forced`
says whether everything was last powered up (by a resume) or down (by the sleep) without regard to paths.
`Alone` lets one stream be used at a time; `Inverted` are the switches with `invert` in their configuration.

### AudioBuffer

Sound is counted in units; what lies at each place of a ring is the number of a unit, so that sound that is
overwritten or read at the wrong place is seen. `Modulus` stands for 2^32. `Play` and `Record` are the DMA controllers. A
write and a read are one step each, as they look at the controller's position once.

### FlowControl

Each write of a thread's status is a step; so are the look at a queue's length, the drop and the adding. A round
serves a queue at a time; the driver takes one packet or all. Senders and destroyer are as the interface
allows: nobody sends any more when the module is destroyed, and each packet is followed by `schedFCM`. `DestroyTask` reads the status, writes it,
posts the semaphore and waits, each in a step (`Ask`, `Stop`, `Wake`, `Await`); `ending` says which call it is: the one that undoes a
creation whose second thread did not start (`MayFail`), or the two that end the module. Ten milliseconds are enough for a thread that can run;
`Await` goes on earlier only when the thread sleeps with nothing to wake it.

### Parts

The five parts share no variable. `part` picks one in the initial state; the next-state relation is the disjunction of the parts',
each with the variables of the others unchanged, and every fairness condition is of one part. So each part behaves in it as its own
specification says, and a part that is picked may do all that its own specification allows.

## 3. The runs: what is checked, on which instances

State counts are of distinct states, complete searches. Deadlock is checked in
`power` and `parts`; in the others the model may stop because a bound is used up (`MaxNodes`,
`MaxEvents`, `MaxThreads`) or because every call has been made, and the
configuration says so.

### `power`: PowerStateToken with MCPowerStateToken.cfg (14 710 states)

Three threads, balanced. Two threads suffice for an acquire to overlap a release or
another acquire; the third lets two releases overlap while somebody else acquires or
holds.

* `CountIsOwners`: the count is the number of owners at every read and write.
* `NotLeftActive`: with no call in progress and no holder, the state is not ACTIVE.
* `HeldIsActive`, `NoSuspendWhileHeld`: a held device is ACTIVE and was last resumed; no
  release suspends a device another thread holds. Both are claimed as long as the
  calls of different threads have not overlapped (`overlapped`), and without this condition
  both are false: the callback of a last release is not atomic with the count that led
  to it. A driver that needs them must serialise its own calls, as the
  code does not do it for it.

### `device`: MCDeviceManager with MCDeviceManager.cfg (150 661 states)

Host 0: `a` (CAPACITY, ENABLE) and `b` (PUBLIC, STEP2) on one device. Host 1: `t` (CAPACITY,
ENABLE) on device 0 and `u` (PUBLIC, DISABLE) on device 1; `x` is registered on the model of `t`
and `y` on that of `u`. Quick boot, loads may fail, at most five nodes are launched. The
instance has every policy that publishes, every preload, siblings on one device,
devices with one node, and dynamic devices, which their devid puts on device 0 beside `t`; five launches
are enough for a node to be loaded twice, to fail with siblings attached, to
leave, and to come back under a reused devid.

* `DevicesMatchNodes`: a device is on its host's list exactly while nodes are on it.
* `RecordsMatchNodes`: for each name, as many records as live nodes that offer it,
  although records are removed by name.
* `ServiceHasProvider`: the record of a name belongs to a live node, unless two live nodes
  have shared the name. That exception is needed: a PUBLIC service the boot thread loads a second time
  has two nodes and two records, and the removal of the older node takes the record of the newer.
* `ImplementsDirectory`: `DeviceManager` implements `ServiceDirectory` for the services with a device file, with
  `alive` the nodes of such services, `past` those that have ever been and `offer` the node of the newest record. That such a service
  has one provider rests on an assumption about the kernel (`FileTaken`): it refuses a second file, late in the launch, after `Bind` and `Init`.

### `observer`: MCServiceObserver with MCServiceObserver.cfg (1 867 590 states)

Three subscribers and two publishers, each calling once, and nodes that are
unloaded after their call. Two publishers are needed for an older service
to overtake a newer; three subscribers for one before, one between and one after
them.

* `DeliveredInOrder`: no subscriber is handed an older service after a newer
  one, however calls race. The reason is that a publisher hands out what the record holds, not
  what it was called with, and that a second record hides the first for good.
* `LatestReachesAllInTurn`, `AnnouncedOnce`: while calls have not overlapped, each
  subscriber was last given the latest service, and none twice. Overlapping
  calls break both; for the first see `MCObserverLost.cfg` in section 4.

### `vnode`: VNodeAdapter with MCVNodeAdapter.cfg (381 123 states)

Two clients, queues of two events instead of `EVENT_QUEUE_MAX` = 100, four events,
memory may run out. Four events fill a queue and drop twice; two clients tell an event to one from an
event to all and let one client fail before the other is served.

* `QueueBounded`: at most `EVENT_QUEUE_MAX` events wait, although `eventQueueSize` is not reset when the list is emptied:
  it only ever overstates the length.
* `EventsInOrder`: what a client has read and has yet to read is ascending, also across drops and failures.
* `NothingQueuedUnlessListening`: no event from before a stop is read after the next start.

### `listener_calm`: EventListener with MCListenerCalm.cfg (140 161 states, liveness)

Two application threads, two listeners, two listener threads, two events; waits may
time out. The last listener leaves only while the thread is RUNNING and no event is on its
way, which keeps out the two defects of `MCListenerDeadlock.cfg` and `MCListenerLeft.cfg`.

* `EveryEventDispatched`: every queued event reaches the listeners.
* `CallsReturn`: register and unregister return.
* `NoThreadLeft`: when the last listener has left, every listener thread ends.

### `listener_busy`: EventListener with MCListenerBusy.cfg (1 361 711 states)

As above, with three events, reads that fail, and the last listener
leaving at any time once the thread is running.

* `DispatchedInOrder`: dispatch is in the order of sending, across the end of one listener thread
  and the start of the next, which may overlap it when the wait has timed out. It rests on
  the service object being taken from the old thread under its mutex first.
* `FreedOnce`: a thread's memory is freed once, as long as freed memory keeps its contents; without that
  assumption see `MCListenerFreed.cfg`.

### `messages`: MCMessageRouter with MCMessageRouter.cfg (129 400 states, liveness)

One thread starts the router, registers a service on its dispatcher, unregisters it and shuts down; another sends. A
second service, two priorities, one place in the queue of each, two messages in memory; the requests are one that is answered, one
that is not, one handled in place. One place is enough for a queue to be full both for a request
and for a response.

* `CountsUsers`: the count of each service and dispatcher is the number of its users (the index, the slots, services, the
  thread, calls in progress), and a freed one has none.
* `OneOwner`: a message in memory belongs to one thread or waits in one queue; a freed one to none.
* `Answered`: an accepted request is answered, unless the router stops, a service leaves or the sender's queue is
  full when the response comes.
* `ShutdownFreesAll`: after the last shutdown every object and every message is freed.

### `mmc`: MCMmcCore with MCMmcCore.cfg (773 914 states, liveness)

A controller for SD or SDIO, two threads, one of which uses the card, two changes of the slot, two tries for each detection, three
cards and four messages in memory. Two changes put a card in and take it out, or the other way round, while
messages of the first are still queued; three places for cards let two be alive at once and one be new.

* `CardOutlivesCalls`, `CountsUsers`: a card is not freed under a call, and its count is the number of its users.
* `WokenWhenHandled`: the sender of a message is woken when it has been handled, and its message is nobody else's.
* `SettlesOnSlot`: when all is handled, `devPluged` agrees with the slot and no removed card is current; SDIO is excepted, because a
  rescan may find a card whose interrupt has not come, and a removal before that interrupt is never reported.
* `CallsReturn`: who waits for a message or for the host gets on.

### `parts`: MCParts with MCParts.cfg (96 148 states, liveness)

* Platform devices: three drivers, two of which read the same number, and three users. `FreedUnreferenced`: what somebody
  has found is not freed. `PostedWhenUnused`: the semaphore is posted exactly when nobody uses the
  device, and once. `RemovalEnds`: a removal returns, as users put back what they found.
* Regulators: a root with two children, one of them always on; two threads enable, disable and force while any driver
  operation may fail. `SupplyIsOn`: as long as calls have not overlapped, what is on has its supply,
  whichever branch was left half done. `RegulatorCallsReturn`: no call waits for ever for a mutex.
* Audio: nine components, two of them pins without a register at the ends of the paths, eight paths, three switches, render and capture one at a time.
  `PowerFollowsPaths`: of the components with a register, those with power are on a connected path from an input to an output, although a switch visits
  only some of them. `NoSleepUnderStream`, `FallsAsleep`: the timer.
* Ring buffers: rings of six units, transfers of two, reads of four, offsets modulo twelve, sixteen units. Four does not divide six, so that
  reads are cut short at the end; sixteen units go round the ring twice and past the overflow. `SoundKept`: what is written and not played is where
  the DMA controller will look for it, and what is read is what was recorded, in order.
* Flow control: two senders, one queue with a threshold of one packet, four packets. Two senders may
  see the same length; four packets are one more than the bound. `QueueBounded`: a queue exceeds its threshold by one packet of
  each sender at most. `EveryPacketServed`: no packet stays in a queue. With `Queues <- RxQueues` (two
  queues of one thread) and three packets both hold as well.

## 4. Disagreements between the code and what it says of itself

### Runs that must find a violation

| run | module, configuration | violated | what happens |
|---|---|---|---|
| `device_unplug` | MCDeviceManager, MCDeviceUnplug.cfg | `UnregisteredIsGone` | Two devices are registered and the first leaves; `devCount` falls, the third gets the devid of the second; unregistering the third unloads the second (`hdf_attribute.c:328`, `devhost_service.c` del). A test expects the unregistered service to be gone (`hdf_lite_manager_test.cpp:105-106`). |
| `mmc_claim` | MCMmcCore, MCMmcClaim.cfg | `CallsReturn` | `SdioClaimHost` holds a reference of the card (`sdio_if.c:249`) while it waits for the host's mutex (254, `mmc_sdio.c:472`); the worker that removes the card holds the mutex while it waits for the reference (`mmc_core.c:117`, `platform_device.c:92`). |
| `flow_stop` | MCParts, MCFlowStop.cfg | `GoneBeforeFreed` | The order to stop is overwritten by the thread's own `THREAD_WAITING` or `THREAD_RUNNING` (`flow_control_task.c` 94, 103); the destroyer gives up after ten milliseconds and frees the module under the thread. |

The lines quoted, with what they say, are in `PROJECT.json` under `findings`.

### Further counterexamples

These configurations find what they are named for as well, and are kept to
be run by hand.

| module, configuration | violated | what happens, and what the repository says |
|---|---|---|
| PowerStateToken, MCPowerStateTokenUnbalanced.cfg | `CountNotNegative` | Two releases nobody acquired for: both pass the test for zero, both decrement. `power_state_token.c:118`: "Not allowed to decrease the ref count to negative". |
| MCDeviceManager, MCDeviceTokens.cfg | `TokensReleased` | `DeviceNodeExtDestruct` clears `servStatus` (`hdf_device_node_ext.c` 117-121) before the base destructor tests it (`hdf_device_node.c` 184-187), so the token of a freed node is never detached. `README.md:105`: "Then, other internal resources will be released." |
| MCDeviceManager, MCDeviceHostOrder.cfg | `EnabledIsLoaded` | `HdfDeviceInfo.deviceId` is 16 bits (`hdf_device_info.h:31`), so `HOSTID` of a stored devid is 0: when host 0 is not the first to start, no node of the hosts before it can be attached. `hdf_device_desc.h:75`: "The driver is loaded during system startup by default." |
| MCDeviceManager, MCDeviceSiblings.cfg | `FailedLoadSparesOthers` | A driver that fails takes down the other nodes of its device (`devhost_service.c:107`). `README.md:95` speaks of releasing "the created device interface". |
| MCServiceObserver, MCObserverPrivate.cfg | `PrivateStaysInside` | A record made by a subscriber keeps policy and devid 0 (`hdf_service_observer.c:109`), so a later subscriber from another device is given a private service. `hdf_device_desc.h:60`: private services "cannot be subscribed to by external users". |
| MCServiceObserver, MCObserverUnloaded.cfg | `DeliveredIsLoaded` | Nobody calls `HdfServiceObserverRemoveRecord` (115), so a later subscriber is given the service of a freed node. `hdf_device_desc.h:168`: "Called by the HDF when the subscribed-to driver service is loaded". |
| EventListener, MCListenerLeft.cfg | `NoThreadLeft` | The last listener leaves while the thread is STARTED: it is told to stop (626-628), but if it is past the test its poll is never ended. `hdf_io_service_if.h:253-254`: unregister "to release resources if it is no longer required". |
| MCDeviceManager, MCDeviceEarly.cfg | `EnabledIsLoaded` | A request loads a STEP2 driver before the boot thread is at it; the boot thread loads it again, is refused the device file and frees the device with its sibling, which is ENABLE. |
| MCServiceObserver, MCObserverLost.cfg | `LatestReachesAll` | A publication falls between the subscriber's look at the publisher (`hdf_service_observer.c:72`) and its joining (80). |
| VNodeAdapter, MCVNodeDrop.cfg | `DropsOnlyWhenFull` | A client stops with events waiting; `eventQueueSize` stays, and after the next start its queue counts as full too early, in the end when it is empty: then `HdfVnodeAdapterDropOldEventLocked` takes the list head for an event. |
| EventListener, MCListenerDeadlock.cfg | `CallsReturn` | Unregistering holds the adapter's mutex (840) and wants the thread's (595); dispatching holds the thread's (141) and wants the adapter's (111). |
| EventListener, MCListenerFreed.cfg | `FreedOnce` | The task says EXITED (254) and reads `shouldStop` (257); the waiting caller frees the struct in between. |
| MCMessageRouter, MCMessageOverlap.cfg | `CountsUsers` | Two threads lower a count, both read zero and both destroy the object (`shared_obj.h:47`). |
| MCMmcCore, MCMmcReuse.cfg | `WokenWhenHandled` | The worker reads `block` of a message its handler has freed (`platform_queue.c:41`); the memory is another sender's by then, who is woken early. |
| EventListener, MCListenerRestart.cfg | `RegisteredIsPolled` | A thread that ended on a failed read is started again without `pollChanged` (331-334), finds nothing to poll and ends. `hdf_io_service_if.h:239-240`: register is "for listening for events". |

These are found in `MCParts.cfg` with the constants of the first column changed and the property of the second as the only one:

| constants | violated | what happens, and what the repository says |
|---|---|---|
| `Keepers = {u1}` | `RemovalEnds` | A removal waits for a reference nobody puts: every GPIO call (`gpio_manager.c:168`), `MmcOpen` (`mmc_if.c` 61-73). |
| `Overlap = TRUE` | `FreedUnreferenced` | A put lowers the count, another thread puts the last unit, the device is removed and added again, and the first reads the new life's count (`hdf_sref.c` 48-49). |
| `Nodes = {root, apart}`, `ParentOf <- RootAndOne`, `AlwaysOn = {}` | `ForcedIsOff` | A regulator without parent and children has no entry in the tree, so forcing it fails (`regulator_tree_mgr.c:121`). `regulator_if.h:82`: "No matter whether the status of the regulator is alwayson or the status of the child is enable," it is disabled. |
| `ForceAlone = FALSE`, `AlwaysOn = {}` | deadlock | Forcing takes the parent's mutex before the children's, enabling the other way round (`regulator_core.c:341`). |
| `AlwaysOn = {}` | `SuppliesStayOn` | A parent is switched off by the child disabled last while another child, which has seen it on, is being enabled (`regulator_tree_mgr.c:106`). |
| `Registered <- ButAmp` | `PowerFollowsPaths` | `amp`, in the middle of a path, has no register (`audio_sapm.h:119`: "negative reg = no direct sapm"), so its power is 0 for ever (`audio_sapm.c` 901, 937). When a switch takes the input from `mix`, the visit goes no further than `mix`, as `amp` has the power 0 already that is asked for (873, 978): `spk` beyond it keeps its power, off any path. |
| `Alone = FALSE` | `NoSleepUnderStream` | Render and capture share `sapmMonitorState` (`audio_platform_base.c:884`, `audio_sapm.c:1331`): pausing one lets the card sleep under the other. |
| `Inverted = {s1}` | `SwitchCanChange` | The value is inverted for the comparison and written as it was (`audio_sapm.c` 1225-1232): a switch can only be set to what it is. |
| `Modulus = 16`, `MaxData = 24` | `SoundKept` | `wbufOffSet` overflows at 2^32, of which a ring of, say, three periods is no divisor (`audio_platform_base.c:247`). |
| `Transfers = {1, 2}` | `SoundKept` | A write is not cut at the end of the ring and goes on behind it (`audio_platform_base.c` 313-327); a mapped write looks for room of the size of the transfer before (482-494). |
| `Queues <- TxVoice` | `EveryQueueServed` | `FLOW_CONTROL_MAP_SIZE` is 3, so that of the nine queues for sending only three are served (`flow_control_task.c` 56-63). `flow_control.h:28`: packets are sent "based on the flow control priority". |
| `Queues <- RxQueues`, `MaxPackets = 2`, `MayFail = TRUE` | `EveryPacketServed` | When the second thread fails to start, the creation goes on and reports success (`flow_control_task.c` 190-197); nobody serves its queues. With `Queues <- TxQueue` it is violated as well: the first thread may have written its status between the write of `INIT_FAIL` (191) and its reading (150), and is then ended too. |

Disagreements that are no properties here: `regulator_if.h:71` says that disabling a regulator that is always on fails, and the
code returns success (`regulator_core.c` 279-283); `platform_device.c:255` tests the wrong way round; an invalid
value for a switch is logged and then used (`audio_sapm.c` 1207, 1217-1219); a read error of a block is lost (`MmcDeviceRead`).

## 5. What is proved

All proofs are checked to the last leaf. They hold for every value of the constants that
satisfies the named assumptions of the modules: a finite set of threads for
`PowerStateToken`; for `DeviceManager` any sequence of distinct host ids, any infos that belong to one
host each, any policies and preloads, any finite set of names registered at run time, any
set of outcomes and any bound on launches, and a kernel that refuses a second device file of a name (`FileTaken`); for `VNodeAdapter` any clients, any limit of the
queues, any number of events and wakeups, with memory for every event or not; for `PlatformDevice` any devices,
numbers and keepers, any finite set of users, and puts that do not overlap (`~Overlap`); for `ServiceObserver` any
subscribers, publishers, devices and callbacks; for `EventListener` any application threads and listeners and any number of
listener threads and events; for `MmcCore` any finite set of users and any cards, messages and number of retries; for
`FlowControl` any queues, any finite set of senders, any threshold and any number of packets; for `Regulator` any regulators, any parents that are
regulators (`Wired`) and any threads; for `AudioSapm` any streams of which one is used at a time (`Alone`), and
for the power of the components any finite card whose paths never lead back and whose switches have one path each (`RoutesAssumption` of `Parts`, which
TLC evaluates for the card of the run; on a circle of paths the recursion of `ConnectedInputEndPoint` would not end), and whose components without a register
are at the ends of paths (`RegisterlessAtEnds`; section 4 shows what happens at one in the middle); for `AudioBuffer` any size of the
rings and of the reads, any number of units, and transfers of one period (`Periodic`); for `MessageRouter` any finite sets of
callers, services, slots, dispatchers and services' objects, any messages, requests and priorities, and any limits of queues and
counts, with calls of `Disreference` that take turns (`~Overlap`) where counts are concerned.

| theorem | module | states |
|---|---|---|
| `TypeCorrect` | `PowerStateToken_proof` | `Spec => []TypeOK` |
| `CountIsRight` | | the count is the number of owners, and so not negative, for threads that release what they acquired (`Balanced`) |
| `NeverLeftActive` | | a device nobody holds or is about to hold is not left ACTIVE, under the same condition |
| `HeldStaysAwake` | | under the same condition, a held device is ACTIVE and was last resumed, as long as calls have not overlapped |
| `SuspendsOnlyWhenFree` | | and no release suspends a device that is held |
| `TypeCorrect` | `DeviceManager_proof` | `Spec => []TypeOK` |
| `NeverDangling` | | a record whose name was never shared by two live nodes belongs to a live node |
| `DevicesAreInUse` | | a device is on its host's list exactly while nodes are attached to it |
| `RecordsCounted` | | a name has as many records as live nodes that publish it |
| `Refinement` | | `DSpec => ImplementsDirectory` |
| `TypeCorrect` | `ServiceObserver_proof` | `Spec => []TypeOK` |
| `InOrder` | | no subscriber is given an older service after a newer one, however calls race |
| `Once` | | while calls have not overlapped, nobody is given a publication twice |
| `LatestReaches` | | and everybody was given the latest, if services are not private to a policy (`~Private`) |
| `TypeCorrect` | `EventListener_proof` (on `VNodeAdapter`) | `Spec => []TypeOK` |
| `BoundedQueues` | | no client's queue outgrows `EVENT_QUEUE_MAX` |
| `OrderedEvents` | | what a client has read and has yet to read is in the order in which it was sent |
| `SilentUnlessListening` | | events wait only at a client that listens or is being released |
| `ListenersTypeCorrect` | (on `EventListener`) | `ESpec => []ETypeOK` |
| `StructFreedOnce` | | a listener thread's struct is freed once at most, if freed memory keeps what it held (`FreedKeeps`) |
| `ListenersInOrder` | | listeners are called in the order in which events were sent, if the last one leaves only a running thread (`Settled`) |
| `TypeCorrect` | `MmcCore_proof` | `Spec => []TypeOK` |
| `CardOutlives` | | a card is not freed under a call |
| `UsersCounted` | | the count of a card is the number of its users |
| `Settles` | | with nothing left to handle, no card is current that has left the slot, if freed messages are not handed out at once (`~Reuse`) |
| `TypeCorrect` | `MessageRouter_proof` | `Spec => []TypeOK` |
| `MessagesOwned` | | a message context in memory is in one thread's hand or at one place of one queue, a freed one nowhere |
| `UsersCounted` | | the count of a service or a dispatcher is the number of its users, if calls of `Disreference` take turns (`~Overlap`) |
| `NotFreedInUse` | `PlatformDevice_proof` | a device that somebody has found is in memory |
| `PostedInTime` | | the count of a device is the number of those who have it, and its semaphore is posted exactly when that is zero |
| `TreeTypeCorrect` | `Parts_proof` (on `Regulator`) | `Tree!Spec => []Tree!TypeOK` |
| `SuppliesStay` | | while calls have not overlapped, a regulator that is on has its supply |
| `AwakeUnderStream` | (on `AudioSapm`) | the card does not fall asleep under a running stream |
| `PowerIsFollowed` | | if components without a register are at the ends of paths (`RegisterlessAtEnds`), those with a register that have power are those between an input and an output over connected paths, but for what was forced up or down |
| `SapmTypeCorrect` | | `Audio!Spec => []Audio!TypeOK` |
| `SoundIsKept` | (on `AudioBuffer`) | what is written is played and what is recorded is read, in order |
| `ThresholdKept` | (on `FlowControl`) | a queue exceeds its threshold by one packet of each sender at most |

**The token.** `CountIsOwners` is not inductive alone: a release must be known to take
away a unit that is there, which is `HoldersIdle` (a thread that holds is not also inside a
call). `NotLeftActive` speaks only of quiet states; `ActiveHasKeeper` extends it to all: while the state
is ACTIVE, somebody owns a unit or is on its way to the last-release callback. The interesting
step is `ReadAfterDec`: a thread that reads a count other than 0 may leave without running
the callback, and `CountIsOwners` then gives it an owner to leave the duty to. `IInv` is the
conjunction of the four.
For calls that have not overlapped, `SInv` adds `InTurn`: one thread is inside at most, the callbacks of the
first acquire and the last release run only when nobody holds the device (`TurnsAlone`, from `CountIsOwners`: the lone
thread that reads 1 after its increment is the only owner), and an ACTIVE state has a holder or a release in
progress. A call that begins while another is in progress ends the claim, by setting `overlapped`.

**The device manager.** `IInv` is `TypeOK` and

* `BootInRange`, `StartedBehind`, `InfosOfStarted`: the boot thread is inside the configuration, and infos are known
  only of hosts it has passed;
* `CountsInfos`: `devCount` is the number of infos of the host. It is what keeps the
  16-bit, falling counter a natural number, and nothing about its uniqueness follows from it, which is the finding
  `device_unplug`;
* `OneProvider`: for a name that was never shared, its records are exactly its nodes and there is at most one;
* `DevicesMatchNodes`, and `CapacityNotDoubled`, that a service with a device file never has two providers, which is only what
  `FileTaken` assumes of the kernel.

All operations touch nodes in three ways only: launch one, free some,
or leave them alone. `NextIsNodeStep` says so, and the preservation of the node part of
`IInv` is then proved for those three (`LaunchKeeps`, `FreeKeeps`) and not for each of the ten actions.

**Refinement.** For names with a device file `OneProvider` and `CapacityNotDoubled` give `RecordsOf(s) =
Offering(s)` with at most one element, so the newest record is the only node. A launch then is
`Appear` (or a stutter, for a service without a file), freeing nodes is `Vanish` or a stutter. `ServedInv`
makes `past` a set of old keys, so that a launched node is fresh.

**Records counted.** `Counted(s)` is inductive together with `TypeOK`; what is hard is the removal by name. Freeing `n` nodes takes the
`n` newest records of the name, whoever's they are, so that what must be shown is that taking the `n` newest of a finite set of
numbers takes exactly `n`. `AboveIsPlace` numbers the members by how many are above them and shows
that this is one-to-one onto `0..Cardinality - 1`, without an induction; `NewestCounted` reads the count off that bijection.

**The observer.** `DeliveredInOrder` relates two deliveries that any number of steps may lie between. What carries it is
`NotNewer`: what a subscriber was given is no newer than the publisher of *its own* record. A record's publisher only moves forward in
the history of publications, because a publisher appends to the history and sets the field in one step (`PublishedOnce`,
`PublisherKnown`), and a second record of the name, which racing calls can add, starts with none. Nothing is claimed there of *which*
service arrives. That is `Turn`, which holds while calls have not overlapped: there is one record (`OneRecord`: whoever is about to add one has seen
an empty list and is alone), its publisher is the last one, what is about to be notified is news to everybody and, if services
are not private, everybody has caught up.

**Listener threads.** On top of the invariant of the device file, `OneCall` says that calls of the application take turns under the
adapter's mutex, `Running` what a thread's status says of where its task is, `Destroying` what the caller that ends a thread
has done so far. `StructFreedOnce` follows from `Frees`: a struct that was freed belongs to a task that has left its loop, and if the caller freed
it, which `shouldStop` tells the task, the task has ended. The read of `shouldStop` after the struct was freed is the reason for `FreedKeeps`. `ListenersInOrder`
needs that one thread at a time can dispatch, `Bound`: a thread that was given up has lost the service object. Without `Settled` this is false and
so is the property, as TLC shows: the last listener leaves a thread that is still starting, which stays bound; the next listener gets a second thread, and
both dispatch.

**MMC.** `CardOutlives` and `UsersCounted` rest on `CInv`: a card that is there, or is being removed, is `curDev`
(`OneCard`), every call uses that one (`OnCurDev`), and its count is the number of its callers and of its own units, with the
semaphore posted when that is zero (`Counted`). They hold however calls overlap a removal, and whether or not freed messages are handed out at once. `Settles` rests also
on `MInv`: what is queued or in the worker's hand has not been handled, and a waiting thread owns its message; the worker reads `block` after the
handler has run, which is where `~Reuse` comes in. It is about a sequence of interrupts of any length: `Leaves` says that while no card is plugged an UNPLUG is queued
behind every PLUG, and behind the card that a PLUG has found or may still find, or is in the worker's hand. `Follows` ties
`devPluged`, which lags behind, to the slot.

**Messages.** `WInv` says where everything is: `AllFit`, what a thread has in hand and has still to release at each place of its call;
`HoldsMutex`, that the mutex is kept only by a thread that releases objects and no message; `IndexRunning`, that services are registered only while
the router runs, each object under its own id; `ThreadsKnow`, `PlacedKnown` and `UnknownOff`, that what anybody refers to has been made. `OInv` adds
that a message has one holder and no place, one place and no holder, or neither, and that it is in memory exactly in the first two cases. Both
hold whether or not calls of `Disreference` overlap: it is not messages that an overlap frees twice. Seven lemmas
(`KeptByThread`, `SentByThread`, `PushedByThread`, `PoppedByThread`, `FreedByThread`, `ClearedAway`, `OwnedStays`) are all that any of the actions does to
a message.

**Their services and dispatchers.** `CountsUsers` sums over the users of an object, so that the proof splits the sum: `Outer` are the
index, the slots and the hosted services, `Inner` is what threads have, and `Mine` the share of one thread, by the place of
its call. `InnerMoves` says that a step of a thread changes `Inner` by the change of its share, which every action is then checked
against (`Balanced`). What is not arithmetic is that an object that loses its last unit had only that one: `UserLives` and
`ReleasedLives` take it from the sum itself. `CountsUsers` lacks one fact to be inductive, `Began`: a dispatcher whose thread has not begun
belongs to the caller that waits for it, and to nobody else, so that nobody can stop or release it in between and the thread
finds it in memory. That a registered object leaves the index once is where `IndexRunning` is needed: a shutdown takes each
object off one id only, and releases it once. With `Overlap` the theorem is false, as `MCMessageOverlap.cfg` shows.

**The device file.** The size that `IsFull` reads is not the length of the queue: `MCVNodeDrop.cfg` shows that
the two drift apart. What keeps the queue bounded is that they drift one way only: `QueueOK` says that
`eventQueueSize` is never less than the length and never more than the limit, which emptying the queue respects.
For the order, `QueueOK` bounds the events of a queue by what the client has read below and by `Newest` above: the event numbered last, or
the one before it while that event has still to come to the client. This needs `SendsNewest`,
that the event on its way is the last one numbered, and `NoneTwice`, that it comes to no client
a second time. `ClientChanges` and `ReachedKeeps` reduce the
actions to what they do to one record; `TakeOldest` and `PutNewest` are the two things that happen to a queue.
`DropsOnlyWhenFull` is not among the theorems: it is false.

**Platform devices.** `FreedUnreferenced` follows from `PostedWhenUnused`: a removal goes on only when the semaphore is posted,
and it is posted only when `Units(d)` is empty. `PostedWhenUnused` in turn needs to know where drivers and users are:
`FreedWhenIdle` and `HeldInCall` tie memory and what is held to `pc`, and `ListOK`, that no two listed devices have one number, is
why a search takes only the device it returns. `TakeCounts` and `PutCounts` are
what `PlatformDeviceGet` and `PlatformDevicePut` do to a count that is the size of a set; `PutUnits` is
used for drivers and for users. Overlapping puts are excluded: with them a device may be freed under
a user, as section 4 shows.

**Flow control.** `QueueBounded` is not inductive: what bounds a queue is `Room`, its length and the senders that have looked and
are about to add (`Adding`). Looking makes `Adding` grow only when the queue is within its threshold, and
there are no more of them than senders; giving up the oldest moves one from the queue to `Adding`, adding moves
one back, and the threads of the module only take away.

**Regulators.** `SuppliesOn` says nothing of a call half way up or down the tree, and a failing driver ends one anywhere. `TurnsInv` adds, while calls take
turns, what the call in progress knows. `Climbing`: the branch an enabling holds goes from child to parent, and when it comes back the parent of the
regulator on top is on. `Lowering`: when a regulator is about to be disabled, all below it are off; while a forced disabling is below it, each
of its children that is on is still on the stack, and a child that has been `seen` has all of its own children that are on before it (`Forced`). So the
recursion need not be followed: what is said of the stack holds after each push and each pop, for a tree of any depth.
That a call uses only listed regulators and that the lists of children agree with `linked` is `HandOK` and `TreeOK`.

**Audio streams.** `StreamsOK`: one stream is in use, and no stream runs while the card is monitored. The card goes to sleep only when it is monitored; it
is the order in which a start or a resume takes back the monitoring and sets the stream running that keeps the invariant.

**Power of the components.** The code counts paths and the property speaks of what is reached. That the two agree is the first half. The count is a recursive
function over the graph and the visit and `Reached` are recursive functions of numbers; `RankExists` orders the components by their paths, so that `Recursive`, well-founded recursion proved
from the library's well-founded induction without an operator parameter, gives each of them the function it describes. `FedIs` and `LedIs` then say that a component has an input (an
output) if it is an end or a neighbour has one, and `GrowCloses` that a set that grows by its neighbours as often as there are components is closed:
a step that adds nothing is the last that matters. `OnPathIs` joins them, by induction on the rank. The second half is the visit, which
goes on only to neighbours whose power is not that of the component it comes from. The property alone does not say why that is enough once a resumed
stream has forced power up: `NoBorder` does. A component whose power is not as it should be has the power of those it is connected to, so that no visit stops short at
it and none crosses from it. `ChangeVisited`: what a switch changes is a component that loses or gains an input or an output, hence so do those along a chain of paths up to the
switch, each of which is asked for by the one before, if its power was right before the change; by induction on the rank, downstream and upstream. A component of that chain has a path on both
sides, and so, by `RegisterlessAtEnds`, a register and a power to compare. What is not
visited and is wrong afterwards was wrong before, and so forced (`AsForced`).

**Ring buffers.** The difference that `AudioDmaBuffStatus` takes is of an offset that starts again at `Modulus` and a place that starts again at `Size`. `Behind` shows
that it is what is written and not played, up to whole rings, and that is where a ring must be a divisor of the modulus;
`Rest` and `RoomIs`, that a full ring passes for an empty one only when a transfer is the whole ring. `Places` shows that a transfer of a whole period does not go over
the end of the ring and meets nothing that is still to be played. For capture, `Ahead` is the distance of the DMA controller from the reader, and `ReadIsThere` says that the read
cut short by `Shortened` is within it. The lemmas about remainders are proved once, with `%` hidden behind `Mod`, because the
provers have no theory of division by a variable. `Periodic` is what the counterexamples of section 4 call for: without it `SoundKept` is false.

**Only model-checked.** Liveness, and `WokenWhenHandled`, which `mmc` checks with `Reuse = FALSE` only: without that it is false. Every other safety property
of a passing run is a theorem, under the conditions the table names; those that runs expect to be violated are none.
`ForcedIsOff` of `Regulator` is neither in a run nor proved.
Liveness under fairness, `ENABLED` and RECURSIVE operators are outside what the proof system can do here and stay with TLC, and so are the
library's induction theorems, which take an operator as a parameter; where an induction was needed (`Naturals`, `Recursive`) it
goes through a least element. No module has a RECURSIVE operator.

## 6. Fairness and liveness

`EventListener`, `MessageRouter`, `MmcCore` and the five parts of `Parts` claim liveness. In all of them what is fair is a
thread inside a call, a worker or the timer; that a call is made, a card is put in or a packet sent is never assumed. In
`EventListener`:

* weak fairness of each application thread inside a call, each listener thread, and
  the driver inside a send: they are operating-system threads, which run when they can. Nothing makes an
  application call, nor a driver send.
* strong fairness of `Dispatch`: the thread waits for the adapter's mutex, which
  application threads take again and again. A mutex that let one waiter starve
  for ever would refute `EveryEventDispatched`; the mutexes the platforms provide wake their waiters.

The wait for a thread's end may time out at any moment (`MayTimeout`), so nothing rests on how long a
second is. Reading does not fail in `listener_calm`: after a failed read the thread ends and events stay queued
by design of the loop (`MCListenerRestart.cfg` shows what comes after).

In the other modules:

* `MessageRouter`: weak fairness of each caller inside a call and of each dispatcher's thread, which the semaphore of
  its queues wakes.
* `MmcCore`: weak fairness of the worker, of the users inside a call, and of giving back the card (`GetDevice(u,
  "release")`): a driver that keeps it for ever holds up a removal for ever.
* `PlatformDevice`: weak fairness of drivers inside a removal and of users, who put back what they found.
* `Regulator`: strong fairness of each thread inside a call, as it waits for mutexes that others take again and again; the
  platforms' mutexes wake their waiters.
* `AudioSapm`: weak fairness of `SapmStep`, the timer's thread, which sleeps and looks again while time passes. No stream
  need stop: `FallsAsleep` speaks of cards that are monitored, which a running stream is not.
* `FlowControl`: weak fairness of the two threads, of a sender inside a send and of the creating and destroying thread.

## 7. What is left out

* Running out of memory where the code returns before it has changed anything; the start of a
  thread and the ioctl START of `EventListener` do not fail.
* In `EventListener` a task that is at its last instruction is given the time to end before its struct is started
  again. Service groups and `HdfIoServiceAdapterRecycle` are planned.
* In `VNodeAdapter` the synchronous service call of `HDF_WRITE_READ` (it keeps no state here) and the
  removal of the device file under its clients. `hdf_vnode_adapter.c:23` has `MAX_RW_SIZE` as 1024 * 1204 under
  the comment "1M"; no size is modelled.
* In `DeviceManager` interleavings inside a request; a driver registered between the moment a host's infos are
  read and the moment the boot thread looks at the first; registering a name twice, which callers prevent; power events; the building of the lists from the configuration.
* In `ServiceObserver` a subscriber that calls the observer from its callback, which would wait for the record's mutex it
  is called under.
* In `MessageRouter` remote nodes (`#error`), the count of the one local node, running out of memory. Senders of requests that are
  dropped when the router stops are not told, in the code and so in the model.
* In `PlatformDevice` notifiers other than the one that posts the semaphore, the io service of a device, and names. A last put is one step up to its
  return. In the code `PlatformDeviceNotify` posts with `device->spin` locked and unlocks it after the post (`platform_device.c` 183-191); the waiter
  takes the same lock in `PlatformDeviceClearNotifier` (145) before it can free the device, so that it waits for the unlock. What
  `OsalSpinUnlock` itself still touches once the lock is free is left out.
* In `MmcCore` a call that takes `curDev` apart from its reference, during a detection or a removal; the path that sends a
  command while detecting; the SDIO interrupt's thread (its destruction sets `threadRunning` to true, `mmc_core.c:861`); tuning;
  the removal of the controller, which stops the worker before the device is removed (274-280).
* In `Regulator` voltages, currents and status callbacks; the removal of all regulators, which frees entries of the list it
  walks (`regulator_core.c` 193-221, `regulator_tree_mgr.c` 305-324).
* In `DeviceManager` the kernel, which is assumed to refuse a second device file of one name; without that `ImplementsDirectory` is false.
* In `AudioSapm` the order in which components are powered, formats, and the timer inside a call of the dispatcher, with which it
  shares its lists without a lock.
* In `AudioBuffer` underrun, the stream type that render and capture share (`pcmInfo.streamType`), and the amount a mapped read
  copies beyond what was asked for.
* In `FlowControl` `pktCount`, which queue a packet belongs to by its headers, and a second life of the module.
* The parts of the last table in section 1.

Bounds: `MaxNodes`, `MaxEvents`, `MaxThreads`, `MaxWakeups` and `QueueMax` are constants with the
values in the configurations. The proofs about `DeviceManager` hold for every `MaxNodes`.

## 8. Plan

| | what | modules | state |
|---|---|---|---|
| 1 | device manager, its records and its clients' view | `DeviceManager`, `ServiceDirectory`, `DeviceDirectory` | checked, proved |
| 2 | power state token | `PowerStateToken` | checked, proved |
| 3 | service observer | `ServiceObserver` | checked, proved |
| 4 | device file and listener threads | `VNodeAdapter`, `EventListener` | checked, proved |
| 5 | platform devices, their manager and queue; the MMC controller on top | `PlatformObject`, `PlatformDevice`, `MmcCore` | checked, proved |
| 6 | wifi message router and flow control | `MessageRouter`, `FlowControl` | checked, proved |
| 7 | regulators; power and ring buffers of an audio card | `Regulator`, `AudioSapm`, `AudioBuffer` | checked, proved |
| 8 | device service manager under concurrent callers: double removal (86-101), use after the search (112), a subscription that is never answered (83) | `DevSvcManager`, against `ServiceDirectory` where it holds | next |
| 9 | GPIO interrupts with their worker threads; service groups and `Recycle` | `GpioIrq`, `EventListener` extended | |
| 10 | `DevHostServiceAddDevice` with callbacks and publication apart; machine-wide power events over hosts, devices, nodes | `DeviceLaunch`, `PowerManager` | |
| 11 | message looper, input hot plug | | |

The theorem worth proving next is `ForcedIsOff` of `Regulator`, which needs a driver's success to be followed through the stack.
