--------------------------- MODULE EventListener ---------------------------
(***************************************************************************)
(* Listening for the events of one driver service from user space: the     *)
(* service object (core/adapter/syscall/src/hdf_syscall_adapter.c), the    *)
(* threads that poll its file, and the device file behind it, which is the *)
(* module VNodeAdapter with the one client fd.                             *)
(*                                                                         *)
(* Application threads register and unregister listeners.  The first one   *)
(* registered starts a listener thread, the last one to leave stops it.    *)
(* The thread's status, shouldStop and pollChanged are plain fields that   *)
(* both sides read and write outside its mutex.                            *)
(***************************************************************************)
EXTENDS VNodeAdapter, FiniteSets

CONSTANTS
    fd,          \* the file of the service object, the only client that is open
    Users,       \* the threads of the application
    Listeners,   \* the listeners they register
    MaxThreads,  \* bound: how many listener threads are ever made
    MayTimeout,  \* TRUE: waiting for a listener thread to exit may time out
    ReadFails,   \* TRUE: reading an event may fail
    FreedKeeps,  \* TRUE: freed memory keeps its last contents
    Quiet,       \* TRUE: the last listener leaves while no event is on its way
    Settled      \* TRUE: and only once the listener thread is running

ASSUME ClientAssumption == fd \in Clients
ASSUME ListenAssumption ==
    /\ MaxThreads \in Nat /\ IsFiniteSet(Users) /\ IsFiniteSet(Listeners)
    /\ {MayTimeout, ReadFails, FreedKeeps, Quiet, Settled} \subseteq BOOLEAN

VARIABLES
    adapter,  \* struct HdfSyscallAdapter: mutex, listeners, thread
    thread,   \* struct HdfDevListenerThread, by number
    task,     \* HdfDevEventListenTask of each thread: pc and local variables
    user,     \* the call each application thread is in
    nextThread,
    log       \* history: the events that were dispatched, in order

evars == <<adapter, thread, task, user, nextThread, log>>

Threads == 1..MaxThreads
NULL    == 0   \* no thread

\* Mutant of NewThread: the list of files to poll is not marked as changed.
NewThreadUnchanged == [status |-> "INITED", shouldStop |-> FALSE, pollChanged |-> FALSE,
                       bound |-> TRUE, pfd |-> FALSE, locked |-> FALSE, freed |-> 0]

\* HdfDevListenerThreadDoInit
NewThread == [status |-> "INITED", shouldStop |-> FALSE, pollChanged |-> TRUE,
              bound |-> TRUE, pfd |-> FALSE, locked |-> FALSE, freed |-> 0]

AtOrAfterStarted == {"STARTED", "RUNNING"}   \* thread->status >= LISTENER_STARTED

Goto(u, label)     == user' = [user EXCEPT ![u].pc = label]
TaskGoto(i, label) == task' = [task EXCEPT ![i].pc = label]
SetThread(i, fields) == thread' = [thread EXCEPT ![i] = fields]

-----------------------------------------------------------------------------
\* HdfIoServiceAdapterObtain has opened the file.
EInit ==
    /\ clientList = <<fd>>
    /\ client = [c \in Clients |-> NewClient]
    /\ closing = {} /\ sending = NoEvent /\ nextEvent = 1
    /\ lastRead = [c \in Clients |-> 0]
    /\ crashed = FALSE
    /\ adapter = [locked |-> FALSE, listeners |-> {}, thread |-> NULL]
    /\ thread = [i \in Threads |-> [NewThread EXCEPT !.status = "UNINITED"]]
    /\ task = [i \in Threads |-> [pc |-> "none", fds |-> FALSE, event |-> 0]]
    /\ user = [u \in Users |-> [pc |-> "idle", listener |-> NULL]]
    /\ nextThread = 1
    /\ log = <<>>

InCall == {u \in Users : user[u].pc # "idle"}

(* HdfDeviceRegisterEventListener up to the bind: a thread is made for the  *)
(* first listener, and one that has exited is made ready to start again.    *)
(* Its last instruction is given the time to finish before that.            *)
Register(u, l) ==
    /\ user[u].pc = "idle" /\ ~adapter.locked
    /\ l \notin adapter.listeners
    /\ LET i == adapter.thread
       IN  IF i = NULL
           THEN /\ nextThread <= MaxThreads
                /\ adapter' = [locked |-> TRUE, listeners |-> adapter.listeners \cup {l},
                               thread |-> nextThread]
                /\ SetThread(nextThread, NewThread)
                /\ nextThread' = nextThread + 1
           ELSE /\ adapter' = [adapter EXCEPT !.locked = TRUE, !.listeners = @ \cup {l}]
                /\ SetThread(i, IF thread[i].status = "EXITED"
                                THEN [thread[i] EXCEPT !.status = "INITED", !.shouldStop = FALSE,
                                                       !.bound = TRUE]
                                ELSE [thread[i] EXCEPT !.bound = TRUE])
                /\ task[i].pc # "last"
                /\ UNCHANGED nextThread
    /\ user' = [user EXCEPT ![u] = [pc |-> "start", listener |-> l]]
    /\ UNCHANGED <<vars, task, log>>

(* HdfDevListenerThreadStart: a thread that is up is left alone; one that   *)
(* has exited since the bind makes the call fail and the listener leave.    *)
RegisterDone(u) ==
    LET i == adapter.thread
    IN  /\ user[u].pc = "start" /\ thread[i].status # "INITED"
        /\ adapter' = [adapter EXCEPT !.locked = FALSE,
                          !.listeners = IF thread[i].status \in AtOrAfterStarted
                                        THEN @ ELSE @ \ {user[u].listener}]
        /\ Goto(u, "idle")
        /\ UNCHANGED <<vars, thread, task, nextThread, log>>

ThreadStart(u) ==
    LET i == adapter.thread
    IN  /\ user[u].pc = "start" /\ thread[i].status = "INITED"
        /\ StartListening(fd)
        /\ SetThread(i, [thread[i] EXCEPT !.status = "STARTED", !.pfd = TRUE])
        /\ task' = [task EXCEPT ![i] = [pc |-> "start", fds |-> FALSE, event |-> 0]]
        /\ adapter' = [adapter EXCEPT !.locked = FALSE]
        /\ Goto(u, "idle")
        /\ UNCHANGED <<nextThread, log>>

\* No event is queued, being sent or being dispatched.
NoEventOnItsWay ==
    /\ sending = NoEvent /\ client[fd].eventQueue = <<>>
    /\ \A i \in Threads : task[i].pc # "dispatch"

Calm == (Quiet => NoEventOnItsWay) /\ (Settled => thread[adapter.thread].status = "RUNNING")

(* HdfDeviceUnregisterEventListener: the listener leaves the list; when it  *)
(* was the last one, the thread is destroyed with the mutex still held.     *)
Unregister(u, l) ==
    /\ user[u].pc = "idle" /\ ~adapter.locked
    /\ l \in adapter.listeners
    /\ adapter.listeners = {l} => Calm
    /\ adapter' = [adapter EXCEPT !.listeners = @ \ {l},
                                  !.locked = (adapter.listeners = {l})]
    /\ user' = IF adapter.listeners = {l}
               THEN [user EXCEPT ![u] = [pc |-> "destroy", listener |-> l]] ELSE user
    /\ UNCHANGED <<vars, thread, task, nextThread, log>>

(* HdfDevListenerThreadDestroy, the switch on the status it reads. *)
Destroy(u) ==
    LET status == thread[adapter.thread].status
    IN  /\ user[u].pc = "destroy"
        /\ Goto(u, IF status = "RUNNING" THEN "clear"
                   ELSE IF status = "STARTED" THEN "stop" ELSE "free")
        /\ UNCHANGED <<vars, adapter, thread, task, nextThread, log>>

\* Mutant of ClearPointers: the thread keeps its pointer to the service object.
ClearNothing(u) ==
    /\ user[u].pc = "clear" /\ ~thread[adapter.thread].locked
    /\ Goto(u, "exit")
    /\ UNCHANGED <<vars, adapter, thread, task, nextThread, log>>

(* In the RUNNING case the thread first loses its pointers, under its mutex. *)
ClearPointers(u) ==
    LET i == adapter.thread
    IN  /\ user[u].pc = "clear" /\ ~thread[i].locked
        /\ SetThread(i, [thread[i] EXCEPT !.bound = FALSE])
        /\ Goto(u, "exit")
        /\ UNCHANGED <<vars, adapter, task, nextThread, log>>

\* Mutant of ExitIoctl: the thread is told to stop as well.
ExitIoctlAndStop(u) ==
    LET i == adapter.thread
    IN  /\ user[u].pc = "exit"
        /\ StopListening(fd, "EXITED")
        /\ SetThread(i, [thread[i] EXCEPT !.pfd = FALSE, !.shouldStop = TRUE])
        /\ Goto(u, "wait")
        /\ UNCHANGED <<adapter, task, nextThread, log>>

\* Mutant of ExitIoctl: HDF_LISTEN_EVENT_STOP in place of EXIT.
StopIoctl(u) ==
    LET i == adapter.thread
    IN  /\ user[u].pc = "exit"
        /\ StopListening(fd, "STOPPED")
        /\ SetThread(i, [thread[i] EXCEPT !.pfd = FALSE])
        /\ Goto(u, "wait")
        /\ UNCHANGED <<adapter, task, nextThread, log>>

\* The file is told to exit, which ends the poll on it, and is forgotten.
ExitIoctl(u) ==
    LET i == adapter.thread
    IN  /\ user[u].pc = "exit"
        /\ StopListening(fd, "EXITED")
        /\ SetThread(i, [thread[i] EXCEPT !.pfd = FALSE])
        /\ Goto(u, "wait")
        /\ UNCHANGED <<adapter, task, nextThread, log>>

(* The wait for the thread, at most TIMEOUT_US rounds, and the look at its  *)
(* status after it.                                                         *)
WaitOver(u) ==
    /\ user[u].pc = "wait"
    /\ thread[adapter.thread].status = "EXITED" \/ MayTimeout
    /\ Goto(u, "check")
    /\ UNCHANGED <<vars, adapter, thread, task, nextThread, log>>

CheckExited(u) ==
    /\ user[u].pc = "check"
    /\ Goto(u, IF thread[adapter.thread].status = "EXITED" THEN "free" ELSE "stop")
    /\ UNCHANGED <<vars, adapter, thread, task, nextThread, log>>

\* Back in HdfDeviceUnregisterEventListener: adapter->thread is cleared.
UnregisterDone(u) ==
    /\ adapter' = [adapter EXCEPT !.locked = FALSE, !.thread = NULL]
    /\ Goto(u, "idle")

FreeThread(u) ==
    LET i == adapter.thread
    IN  /\ user[u].pc = "free"
        /\ SetThread(i, [thread[i] EXCEPT !.freed = @ + 1])
        /\ UnregisterDone(u)
        /\ UNCHANGED <<vars, task, nextThread, log>>

(* The asynchronous way: the thread is to free itself. *)
StopThread(u) ==
    LET i == adapter.thread
    IN  /\ user[u].pc = "stop"
        /\ SetThread(i, [thread[i] EXCEPT !.shouldStop = TRUE])
        /\ UnregisterDone(u)
        /\ UNCHANGED <<vars, task, nextThread, log>>

-----------------------------------------------------------------------------
(* HdfDevEventListenTask *)
TaskStart(i) ==
    /\ task[i].pc = "start"
    /\ SetThread(i, [thread[i] EXCEPT !.status = "RUNNING"])
    /\ TaskGoto(i, "loop")
    /\ UNCHANGED <<vars, adapter, user, nextThread, log>>

\* The head of the loop; a thread with nothing to poll leaves it.
TaskLoop(i) ==
    /\ task[i].pc = "loop"
    /\ TaskGoto(i, IF thread[i].shouldStop THEN "exit"
                   ELSE IF thread[i].pollChanged THEN "assign"
                   ELSE IF task[i].fds THEN "poll" ELSE "exit")
    /\ UNCHANGED <<vars, adapter, thread, user, nextThread, log>>

AssignPfds(i) ==
    /\ task[i].pc = "assign" /\ ~thread[i].locked
    /\ SetThread(i, [thread[i] EXCEPT !.pollChanged = FALSE])
    /\ task' = [task EXCEPT ![i].fds = thread[i].pfd,
                            ![i].pc = IF thread[i].pfd THEN "poll" ELSE "exit"]
    /\ UNCHANGED <<vars, adapter, user, nextThread, log>>

TaskPoll(i) ==
    /\ task[i].pc = "poll"
    /\ Poll(fd)
    /\ TaskGoto(i, IF PollMask(fd) = "POLLIN" THEN "read" ELSE "exit")
    /\ UNCHANGED <<adapter, thread, user, nextThread, log>>

(* HdfDevEventReadAndDispatch: nothing is read once the service object has  *)
(* left the thread, and another thread may have read what poll reported.    *)
ReadNothing(i) ==
    /\ task[i].pc = "read" /\ ~thread[i].locked
    /\ ~thread[i].bound \/ client[fd].eventQueue = <<>>
    /\ TaskGoto(i, "loop")
    /\ UNCHANGED <<vars, adapter, thread, user, nextThread, log>>

ReadEvent(i) ==
    /\ task[i].pc = "read" /\ ~thread[i].locked
    /\ thread[i].bound
    /\ ReadDevEvent(fd, TRUE)
    /\ SetThread(i, [thread[i] EXCEPT !.locked = TRUE])
    /\ task' = [task EXCEPT ![i].pc = "dispatch", ![i].event = Head(client[fd].eventQueue)]
    /\ UNCHANGED <<adapter, user, nextThread, log>>

(* No memory for the buffer, or the event cannot be copied. *)
ReadFailure(i) ==
    /\ ReadFails /\ task[i].pc = "read"
    /\ TaskGoto(i, "exit")
    /\ UNCHANGED <<vars, adapter, thread, user, nextThread, log>>

\* Mutant of Dispatch: the thread's mutex is not released.
DispatchKeepsMutex(i) ==
    /\ task[i].pc = "dispatch" /\ ~adapter.locked
    /\ log' = Append(log, task[i].event)
    /\ TaskGoto(i, "loop")
    /\ UNCHANGED <<vars, adapter, thread, user, nextThread>>

(* HdfDevEventDispatchLocked: the thread's mutex is held and the adapter's  *)
(* mutex is taken for the calls of the listeners.                           *)
Dispatch(i) ==
    /\ task[i].pc = "dispatch" /\ ~adapter.locked
    /\ log' = Append(log, task[i].event)
    /\ SetThread(i, [thread[i] EXCEPT !.locked = FALSE])
    /\ TaskGoto(i, "loop")
    /\ UNCHANGED <<vars, adapter, user, nextThread>>

TaskExit(i) ==
    /\ task[i].pc = "exit"
    /\ SetThread(i, [thread[i] EXCEPT !.status = "EXITED"])
    /\ TaskGoto(i, "last")
    /\ UNCHANGED <<vars, adapter, user, nextThread, log>>

(* The last instruction: a thread that finds shouldStop set frees its       *)
(* struct.  Whoever waited for the status may have freed it already, and    *)
(* then the field may read as anything.                                     *)
TaskLast(i) ==
    /\ task[i].pc = "last"
    /\ \E stop \in (IF thread[i].freed > 0 /\ ~FreedKeeps THEN BOOLEAN ELSE {thread[i].shouldStop}) :
          SetThread(i, IF stop THEN [thread[i] EXCEPT !.freed = @ + 1] ELSE thread[i])
    /\ TaskGoto(i, "none")
    /\ UNCHANGED <<vars, adapter, user, nextThread, log>>

-----------------------------------------------------------------------------
UserContinues(u) ==
    \/ RegisterDone(u) \/ ThreadStart(u) \/ Destroy(u) \/ ClearPointers(u) \/ ExitIoctl(u)
    \/ WaitOver(u) \/ CheckExited(u) \/ FreeThread(u) \/ StopThread(u)

TaskStep(i) ==
    \/ TaskStart(i) \/ TaskLoop(i) \/ AssignPfds(i) \/ TaskPoll(i) \/ ReadNothing(i)
    \/ ReadEvent(i) \/ ReadFailure(i) \/ Dispatch(i) \/ TaskExit(i) \/ TaskLast(i)

\* While the last listener leaves, a quiet driver sends nothing.
Leaving == \E u \in InCall : user[u].pc # "start"

DriverSends ==
    /\ Quiet => ~Leaving
    /\ Send(clientList)
    /\ UNCHANGED evars

DriverContinues == SendToClient /\ UNCHANGED evars

ENext ==
    \/ \E u \in Users, l \in Listeners : Register(u, l) \/ Unregister(u, l)
    \/ \E u \in Users : UserContinues(u)
    \/ \E i \in Threads : TaskStep(i)
    \/ DriverSends \/ DriverContinues

(* The kernel schedules every thread; applications and drivers need never   *)
(* call, but a call that has begun goes on when it can.  A thread that      *)
(* waits for a mutex is not passed over forever by others that take it.     *)
Fairness ==
    /\ \A u \in Users : WF_<<vars, evars>>(UserContinues(u))
    /\ \A i \in Threads : WF_<<vars, evars>>(TaskStep(i))
    /\ \A i \in Threads : SF_<<vars, evars>>(Dispatch(i))
    /\ WF_<<vars, evars>>(DriverContinues)

ESpec == EInit /\ [][ENext]_<<vars, evars>> /\ Fairness

-----------------------------------------------------------------------------
AdapterRecord == [locked : BOOLEAN, listeners : SUBSET Listeners, thread : Threads \cup {NULL}]
ThreadRecord  == [status : {"UNINITED", "INITED", "EXITED"} \cup AtOrAfterStarted,
                  shouldStop : BOOLEAN, pollChanged : BOOLEAN, bound : BOOLEAN,
                  pfd : BOOLEAN, locked : BOOLEAN, freed : Nat]
TaskRecord    == [pc : {"none", "start", "loop", "assign", "poll", "read", "dispatch", "exit", "last"},
                  fds : BOOLEAN, event : 0..MaxEvents]
UserRecord    == [pc : {"idle", "start", "destroy", "clear", "exit", "wait", "check", "free", "stop"},
                  listener : Listeners \cup {NULL}]

ETypeOK ==
    /\ TypeOK
    /\ adapter \in AdapterRecord
    /\ thread \in [Threads -> ThreadRecord]
    /\ task \in [Threads -> TaskRecord]
    /\ user \in [Users -> UserRecord]
    /\ nextThread \in 1..(MaxThreads + 1)
    /\ log \in Seq(Events)

(* Listeners are called with the events in the order the driver sent them,  *)
(* across the end of one listener thread and the start of the next.         *)
DispatchedInOrder == \A i, j \in DOMAIN log : i < j => log[i] < log[j]

(* A thread's struct is freed once, by the thread that waited for it or, as *)
(* the comment has it, "Exit due to async call and free the thread struct", *)
(* by itself.                                                               *)
FreedOnce == \A i \in Threads : thread[i].freed <= 1

(* An event that was queued for the listeners reaches them. *)
EveryEventDispatched ==
    \A e \in Events : (e \in Range(client[fd].eventQueue)) ~> (e \in Range(log))

(* What hdf_io_service_if.h says of both calls, "Returns 0 if the operation *)
(* is successful; returns a negative value otherwise": they return.         *)
CallsReturn == \A u \in Users : (user[u].pc # "idle") ~> (user[u].pc = "idle")

(* What hdf_io_service_if.h says HdfDeviceUnregisterEventListener is for,   *)
(* "to release resources if it is no longer required": once the last        *)
(* listener has left, its thread ends, unless the application calls again.  *)
NoThreadLeft ==
    (adapter.listeners = {} /\ InCall = {})
        ~> (InCall # {} \/ \A i \in Threads : task[i].pc = "none")

(* What hdf_io_service_if.h says of HdfDeviceRegisterEventListener, "for    *)
(* listening for events reported by a specified driver service object":     *)
(* once it has begun, a thread comes to poll or the listeners are gone.     *)
RegisteredIsPolled ==
    \A u \in Users : (user[u].pc = "start")
        ~> (adapter.listeners = {} \/ \E i \in Threads : task[i].pc = "poll")
=============================================================================
