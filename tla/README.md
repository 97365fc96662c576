# A TLA+ model of the near object framework

The near object framework is a C++ service that lets programs find nearby
devices over ultra-wideband radio and hold *sessions* with them: a session has
member objects, may range, and reports what happens to a callbacks object of the
client. This directory holds TLA+ specifications of the parts of it that decide
things, TLC configurations that model-check them on small instances, and TLAPS
proofs of their main properties for every instance.

Check a specification with `tlc -config MCTaskQueue.cfg MCTaskQueue.tla`, the
proofs with `tlapm TaskQueueProofs.tla`, and so on for the other modules of proofs. `PROJECT.json` lists the runs, the
mutations that show each property can fail, the source lines every definition
stands for, the hazards of the code and the theorems.

## Inventory

| Component | State it keeps | Operations | Who it interacts with | What is hard |
|---|---|---|---|---|
| `notstd::task_queue` | mutex, condition variable, FIFO of packaged tasks, `m_state`, worker thread | constructor, `post`, `stop`, `stop_and_wait_for_task_completion`, destructor, worker loop | posters on any thread, tasks that post or stop | notification outside the lock, stop in every state, joins, destruction, cancellation |
| `NearObjectSession` | members, ranging session, weak pointer to the callbacks, a `task_queue` | add and remove objects, start and stop ranging, properties changed, end, destructor | client threads, callbacks on the queue's worker | state and event together, calls from inside callbacks, destruction by the owner or by a callback |
| `NearObject`, `NearObjectProfile` | values | equality, JSON | session, profiles | equality by values nobody assigns |
| `NearObjectDeviceController` | device id, weak list of sessions | `StartSession` | manager, sessions | list that only grows |
| Discovery agent (common, Windows UWB, Linux) | started flag, presence callback, weak device cache | `Start`, `Stop`, `ProbeAsync`, notifications | operating system, manager | notifications racing a probe, stale cache, callback under a lock |
| `NearObjectDeviceControllerManager` | list of controllers, list of agents | `AddDiscoveryAgent`, presence events | agents | duplicates, removal by a constant id, probe timeout |
| `NearObjectProfileManager` | list of profiles | `AddProfile`, `FindMatchingProfiles` | persister | persistence outside the lock, result ignored |
| `NearObjectProfilePersisterFilesystem` | one file | `PersistProfile`, `ReadPersistedProfiles` | file system | read-modify-write, crash after truncation, unparsable file |
| `ServiceRuntime` | running flag, thread, condition variable | `Start`, `Stop`, `Run`, destructor | daemon and service mains | wait without predicate, restart, weak compare-exchange |
| `nearobjectd`, `nearobjectsvc` | configuration | `main` | all of the service | fork after the thread was started, exceptions that leave `main` |
| `TlvSimple` | none | `Parse` | smart card | length arithmetic at the boundaries |
| `ApduCommand` | a buffer and two views into it | constructor | smart card | sizes and offsets of the views |
| `notstd::scope_exit` | a lambda and a flag | move, `release`, `reset`, destructor | whoever must undo something | a lambda called twice or never |
| `Smartcard` (Windows) | one pending promise | transmit, complete | device | nothing reaches it |
| The rest: secure elements, Bluetooth sources, FiRa types, UWB devices, device enumerator, other `notstd` templates | none that changes | | | |

What makes the parts right:

- **task queue**: tasks start in the order posted, one at a time, none lost or run
  twice; a worker never sleeps on work; only canceled tasks are dropped; waits and
  the destructor return, and when they do the worker has left; each task's future
  agrees with what happened to the task.
- **session**: the events retell the state exactly; they arrive in order and
  without a gap; destroying a session delivers what was posted.
- **discovery**: one controller stands for a device, whoever found it; what was
  announced comes into the list, what departed leaves it, and nothing else does;
  calls return, and destruction is safe whatever is being notified.
- **profiles**: the file holds what the persister says it saved; whatever
  happens to it, it never holds what nobody added, and what was in it when it
  was last quiet is retained; a call ends.
- **runtime**: who sleeps in a stopped runtime is about to be woken; a running
  runtime has one thread and a destroyed one none; the process ends.
- **library**: parsing inverts encoding, views show what they are views of, a
  guard's lambda is accounted for exactly once.

`PROJECT.json` lists every hazard of the code we found at its line, with the
properties that watch it, or the reason why none does.

## Modules

| Module | What it is |
|---|---|
| `SerialExecutor` | abstract specification: what the queue promises its users |
| `TaskQueue` | the queue at the grain of its critical sections |
| `MCTaskQueue` | TLC instance |
| `SerialExecutorProofs` | what every implementation of the executor inherits, proved |
| `TaskQueueProofs` | type correctness, the safety properties, and that `TaskQueue` implements `SerialExecutor`, proved |
| `Selection` | what `std::copy_if` and its relatives take from a list, as a recursive function |
| `NearObjectSession` | the session, composed on an instance of `SerialExecutor` |
| `MCNearObjectSession` | TLC instance |
| `SessionProofs` | type correctness, the safety properties, and that the session is a client of `SerialExecutor`, proved |
| `Discovery` | device manager, discovery agent with its cache, and the operating system's notifications |
| `MCDiscovery` | TLC instance |
| `DiscoveryProofs` | type correctness and the safety properties, proved |
| `Profiles` | profile manager, persister and the file, over restarts of the process |
| `MCProfiles` | TLC instance |
| `ProfilesProofs` | type correctness and the safety properties, proved |
| `ServiceRuntime` | `main` of the two services and the runtime's threads |
| `MCServiceRuntime` | TLC instance |
| `ServiceRuntimeProofs` | type correctness and the safety properties, proved |
| `TlvSimple`, `Apdu`, `ScopeExit` | three small types, each by itself |
| `MCLibrary` | TLC instance of the three; each behaviour steps one of them |
| `LibraryProofs` | `ScopeExit`, `TlvSimple` and `Apdu`, proved |
| `SequenceLemmas` | induction over numbers, and what the operators on sequences return: the lemmas that more than one of the proofs cites |

Definitions whose names begin with `Bug` are not part of a model. Each is the
definition after it with a plausible mistake; putting it in the place of that
definition makes the property named in `PROJECT.json` fail.

### TaskQueue

`m_state`, `m_runnables` and `joinable` are members of the class; `tasks` is the
worker's local queue; `worker` and `pc` say where the worker and each caller are
in their code; `future` is the shared state behind the futures; `posted`, `ran`,
`canceled` and `revived` are histories that no action reads. (`ran` also names
the task that the worker is in, its last element.)

An action is one critical section of `m_runnables_changed_gate`, or one step
outside it that others can observe: `notify_all`, entering and leaving `join`,
starting and finishing a task. `post` is `Post` then `Notify` when the queue was
empty; `stop` is `Stop` then `Notify`; `stop_and_wait_for_task_completion` is
`StopAndWait`, `Notify`, then `JoinBlock` and `JoinDone`, or `JoinSkip`; the
destructor is the same chain started by `Destroy` and ended by `Destruct`. The
loop of `process_queue` is `WorkerWait`, `WorkerSpuriousWake`, `WorkerExit`,
`WorkerTake`, `StartTask`, `FinishTask`, `BatchDone`. A running task may itself
post and stop (`PostFromTask`, `StopFromTask`). A `post` to a queue that is being
stopped throws and changes nothing, so it is a stuttering step.

Undefined or unusual outcomes that the model keeps: spurious wake-ups; the thread
that fails to start; a second `join` of the same thread, which fails on POSIX
threads and whose failure the code swallows; a task that calls
`stop_and_wait_for_task_completion` on its own queue. The constructor's unlocked
write of `m_state` is a step after the worker was started. What the model leaves
out: calls on a queue that was destroyed, and a destructor entered while another
thread is inside a call; both are for the owner of the object to avoid.

### NearObjectSession

`m_taskQueue` is an instance of `SerialExecutor` whose tasks are the numbers of
the events; `log` records what each event says and `delivered` what reached the
callbacks object. Each operation changes the state and posts the event under one
of the session's mutexes, so it is one action. `EndSession` is two, because the
last event is posted after the mutex was released. The members and the ranging
state have a mutex each, and no operation takes both. Posting to the queue is
`InvokeEventCallback`: when the queue was asked to stop, `post` throws, and the
state change made before it stays.

Callers are other threads, the owner, and the callback that is running, which is
the queue's worker. The destructor runs on the owner's thread or, when the
callback drops the last reference, on the worker, where the join fails and the
process terminates (`Terminate`). `ReleaseCallbacks` is the client letting go of
its callbacks object at any time.

Near objects compare by their spatial properties; nothing in the code assigns
these, so `SpatialProperties` is a constant function and any two objects are
equal. Removal compares pointers.

The composition is sound because two theorems meet: the queue implements
`SerialExecutor` (`RefinesExecutor`), and the session, with all its callers and
callbacks, uses it only as `SerialExecutor` allows (`UsesExecutor`).

### Discovery

One manager with the agent it is given, in the Windows version. `present`,
`pending` and `registered` are the operating system's; `m_started`,
`hasCallback` and `m_nearObjectDeviceCache` the agent's; `m_nearObjectDevices`
the manager's; `signal[k]` is what notification thread `k` carries from the
cache's critical section to the manager's. Handling a notification is two
actions: `OnArrival` or `OnRemoval` changes the cache under its lock, and
`DevicePresenceChanged` calls the manager, if it still lives. `AddDiscoveryAgent`
is one action per step that others can observe: `RegisterDiscoveryEventCallback`,
then `StartAdded`, or `ProbeStarted`, `WaitEnds` (with the results or after three
seconds), `AddExisting` for each of them, and `AddReturns`. The probe runs on its
own thread: `Enumerate`, `ProbeNext` per device, `ProbeReady`.

Controllers are objects with a life: the cache is weak, and `Live` is who is held
by the list, a running notification, the probe's results, or a client. Numbers of
dead controllers are used again. The controllers' ids are the code's: one constant.

Taken from the operating system, as the code relies on it: notifications of one
device come one after the other, those of different devices at the same time;
unregistering waits for those being delivered; registration may fail, which the
code ignores, and so may the enumeration. `compare_exchange_weak` is taken not to
fail spuriously. What is left out: a second agent; `Stop` after the agent was
given away, which nobody can call then; a probe by anyone but the manager; the
failure to start the probe's thread; and the moment at which a running
notification holds the last `shared_ptr` to the manager and destroys it, which
waits for itself.

The destructor is two actions, because of the order of the members: the cache goes
(`DestroyCache`) before the registration (`DestroyRegistration`). A notification
between them (`OnNotificationLate`) uses destroyed members; the state
`"undefined"` is the end of what the model says.

### Profiles

`m_profiles` is the manager's list; `file` is the persistence file: absent,
text that parses, or text that does not (`"torn"`), with its size. A call of
`AddProfile` changes the memory under the manager's lock (`AddProfile`) and then
runs through the persister without it: `ReadPersistedProfiles`,
`OpenForWriting`, which truncates, and `Write`. Any number of threads are in
there at once, and each has its list in `profiles`. What the file operations do
is taken from their use: the text, a few kilobytes at most, stays in the
stream's buffer until the stream is closed and is written from the writer's own
offset, so that a shorter text leaves the end of a longer one (`TextSize` is how
long the text of a list is). Opening may fail, and a write may fail with nothing
or a part of the text written.

`Restart` ends the process between any two of these steps, and the next manager
starts with an empty list: no code reads the file at the start. It stands for
the end of a process, not for a loss of power: what was written stays written.
A profile goes to JSON and back by the code's own conversions of an optional
(`OptionalToJson`, `OptionalFromJson`); the security has no content in the code,
and `IsSame` compares only whether there is one.

`asked`, `saved`, `inherited`, `settled` and `disturbed` are histories.
`disturbed` names what went wrong that the code has no answer to, and
`SavedInOrder` is stated for runs in which nothing did; `NothingInvented`,
`SettledRetained` and `TornForGood` hold in all.

### ServiceRuntime

The owner is `main`: `FromCommandLineArguments`, `GetUserHomePath` and
`ConstructPersister`, which may end the process by an exception,
`CreateService`, then `Start`, `Daemonize` or `StayInForeground`, `LeaveMain`,
and the destructor, which is `Stop` and `Join`. The two mains differ in the
options and in the agent that `nearobjectsvc` adds; the latter is the
`AddDiscoveryAgent` of module Discovery. `Others` are any threads that call the
public `Start` and `Stop` while the runtime exists.

`Start` is the weak exchange of `m_running` (`Start`), the creation of the thread
(`StartThread`, or `StartThreadFails`, after which `m_running` stays true), and
the assignment to `m_threadMain`, in two steps because nothing makes it atomic:
`CheckJoinable`, which terminates the process when a thread is assigned to one
that was never joined, and `StoreThread`. Two of these at once are a data race,
and the interleavings of the two steps are what the model lets it do; the
history `raced` tells that it happened. The weak exchange may fail for no
reason, in `Start` and in `Stop`. `Stop` notifies (`NotifyOne`) after the
exchange and without the mutex. `Run` is `TestRunning`, `Sleep`, `Wake`; the
window between the first two is where a notification is missed.
`main` does not wait for anything: it returns as soon as the runtime was
started, and destroys it. `Daemonize` is `daemon()`: the child goes on as `main`
without the thread, and the parent's end is not followed further.

### TlvSimple, Apdu and ScopeExit

`Parse` is an operator on the size and the header bytes of the data, and gives
the range of positions that becomes the value. `ShortForm` and `LongForm` are the
two encodings, written from the value to the bytes. `Apdu` has the layout of a
command's buffer and where its views begin and end; `ApduViews` records that the
payload view runs one byte over the buffer. `ScopeExit` has `lambda_call`
objects that are constructed, moved, released, reset and destroyed in any order;
a lambda that executes may do any of this, to the object that called it too.

## Runs

| Run | Instance | What it shows |
|---|---|---|
| `task_queue` | 3 tasks, 2 clients, the owner; fair; 147 000 states | order, wake-ups, cancellation, joins, destruction, futures, the refinement of `SerialExecutor` with its fairness; accepted tasks are answered, waits and the destructor return |
| `task_queue_canceled` | 2 tasks, 1 client; **violated** | a canceled task runs after all when the destructor's `stop()` comes before the worker looks |
| `session` | 2 objects, 1 user, the owner and the callback, 4 events; fair; 237 000 states | events retell membership and ranging, arrive in order without gap; events arrive, destruction delivers all and ends |
| `session_add` | **violated** | an object added to a session that has a member is not added |
| `session_end` | **violated** | a session dropped by its callback ends the process before the client hears of its end |
| `discovery` | 2 devices, 2 notification threads, 5 controllers, 3 plugs; fair; 210 000 states | one controller per device; at least as many entries in the list as devices; announced arrivals are listed; `AddDiscoveryAgent` and the destructor return |
| `discovery_remove` | **violated** | a departure removes another device than the one that departed |
| `discovery_existing` | **violated** | a device that was there before the agent was started is not found |
| `discovery_destroy` | **violated** | a notification uses the agent's destroyed cache |
| `profiles` | 2 threads, 2 profiles, 4 additions, 1 failed operation, 1 restart; fair; 169 000 states | what the file may hold with threads that overlap, failures and a killed process; that a torn file stays torn; that calls end |
| `runtime` | `main`, 2 other threads with 3 calls, 3 loop threads; fair; 149 000 states | where a wake-up is missed and where not, one loop, none after destruction, and when `main` ends |
| `library` | header bytes and sizes at the boundaries, data of up to 6 bytes, 3 guards with 2 lambdas; 19 000 states | parsing against the encodings, the views of an APDU, each lambda once |

**Bounds.** Three tasks give a batch of two while a third is posted, or one
running, one in the batch and one in the queue, which is every place a task can
be at the same time; two clients and the owner give two concurrent waiters and a
stopper beside a poster. The queue's own state is finite: no counter is bounded.
In the session the bound is
the number of events (`MaxEvents`); `Room` keeps two
numbers free for the destructor's own events and one for each pending
`EndSession`, so a session at the bound can still be ended and destroyed. Four
events allow two operations before the end, of different callers, which is what
it takes for one to fall between another's change and its delivery.
`MaxMembers` and `MaxArgs` bound the list and the arguments; two objects in one
call, the same one twice among them, are within. In discovery
`MaxChanges` bounds plugs and unplugs; three let one device go and come back, or
go while the other comes. `MaxControllers` bounds the controllers
that are alive or cached at once: a device that goes and comes back while its old
controller is held has two. In `profiles` four additions let two threads
overlap twice, or a thread come after an overlap and after a restart; the two
profiles have texts of different length, without which no text could outlast
another. One failure and one restart may fall anywhere, so every recovery path
is entered; with one more of either the same states are entered again from a
file that is torn already. In `runtime` three calls and three threads let two
`Start`s overlap, and a `Start` follow a `Stop` that follows a `Start`. In
`library` the bytes and sizes are those at which a comparison of `Parse` changes
its answer. No run uses symmetry, because most check liveness.

**Fairness.** `TaskQueue!Fairness` is weak fairness of each thread's own steps: a
thread that can run does, a lock is obtained, a task that was started returns.
Calls are never fair: nobody has to post, stop or destroy, and no spurious
wake-up is promised. In the session the same holds for the worker, for a caller
that is inside `EndSession` and for the destructor; the return of a callback
(`DeliverEnd`) is strongly fair, because a callback makes calls of its own, and
is not ready to return while inside one. A callback that never returns would
hang the destruction, in the code as in the model.

In discovery the operating system delivers what it announced, the probe goes on,
and `AddDiscoveryAgent` and the destructor, once entered, go on. Plugging, starting,
adding the agent, obtaining controllers and dropping the manager are not fair.

In `profiles` a thread that is inside a call goes on; nobody has to call, and the
process need not end. In `runtime` every thread of the process is scheduled, and
`main` takes its next step; the other threads' calls and spurious wake-ups are
not promised. The library types have no fairness.

**Deadlock** is checked in the runs of the task queue, the session and
discovery: the only states without a successor other
than themselves are those where the object is gone. It is not checked in
`profiles`, `runtime` and `library`, which really stop: when the calls of the
bound are used up, when the process has ended or `main` waits for a thread that
will never be woken (`MainEnds` says when that is), and after the one call of a
function. In `profiles` and `runtime` a liveness property does its work.

## What is proved

Every invariant that a run checks is also a theorem, for every value of the
constants, and so are the two action properties of the queue and the profiles
and the refinement. Each module of proofs first establishes the types and then
one inductive invariant per question; each of these invariants was checked by TLC
on the instance of its run before it was proved. The provers know of a bound only
that it is a number.

### The queue and its abstract specification

For every set of tasks and clients, from `OwnerAssumption` alone:

- `TypeCorrect`: `TypeOK`, which is inductive.
- `DestructionSafe`, `WaitCorrect`, `NeverLosesWakeup`: from the inductive
  invariant `Life`, which says how the calls nest (`CallsNested`: who may be
  inside a wait when the owner destroys), what has not yet happened before the
  thread is started (`NothingYet`), and how the thread's life relates to
  `joinable` and to those who join it (`ThreadLife`). The wake-up property needs
  nothing more than types, once stated about callers that still have to notify.
- `OrderKept`: `posted` is always what ran, what the worker holds and what is
  queued, one after the other, until the destructor drops the rest.
- `CancelKept`, `OnlyCanceledLost`: from the inductive invariant `CancelInv`,
  which adds where each task can be (`Places`) and that, while the queue is
  canceling, everything in `m_runnables` was canceled and stays so
  (`Canceling`); this is needed because `CancelHolds` does not by itself exclude
  a task that was canceled, and is taken later.
- `RefinesExecutor`: the initial state and every step of `TaskQueue` map to the
  initial state and a step, or a stutter, of `SerialExecutor`, under the mapping
  at the end of `TaskQueue.tla`.
- `FuturesAgree`, of `SerialExecutor`: from `ExecutorInv`, which adds that no task
  is in the line twice and that none runs while it waits. `FuturesKept` carries it
  over to the queue along `RefinesExecutor`.

### The session

For any objects and bounds and every finite set of threads, from the assumptions
at the head of `NearObjectSession`. `UsersAssumption` is there because calls in
progress are counted, `EventsAssumption` because a bound below two would deny a
destructor its own events. `SessionInv` is what the rest builds on: the types;
`PhaseInv`, which reads the phase of the queue off the places of the owner and of
the callback; `RoomInv`, that the events still due fit the bound; and `LineInv`,
that the numbers of the events are, without a gap, those delivered, then those in
the line. `Operates` says once what all operations have in common: a step changes
nothing while the queue is open, or posts one event that tells the change
(`Tells`). It is shown of each operation, and the theorems about events then only
distinguish what an event tells.

- `SessionTypeCorrect`, `DeliveredInOrder`: `SessionInv` implies both.
- `MembershipTold`: a client that follows the events believes exactly the
  members. Each event carries its belief to the next list (`AfterTells`), which
  for a removal is that the list without what was selected from it is the list
  without the set it was selected by (`SelectedRest`).
- `RangingTold`: from `RangingInv`; the parity of the number of ranging events is
  the ranging state.
- `DestructionTold`: from `EndedInv`: whoever is at the queue's destructor has
  posted the end.
- `UsesExecutor`: every step of the session is a step of `SerialExecutor` or leaves
  its variables alone. `DuePostsFit`, with `NumberInv`: the event that a call in
  progress still has to post always has a number that no task has used and that
  is within the bound, so `MaxEvents` keeps new calls out, and never blocks one
  that has begun. The runs rely on this.

### Discovery

For every finite set of devices (`NamesAssumption`: they are counted), any
threads and bounds.

- `DiscoveryTypeCorrect`: with who can still call whom (`AgentLife`, `ProbeLife`,
  `OneSignal`), without which the head of an empty list of signals would be taken.
- `OneController`: from `CacheInv`. One controller per device is not inductive:
  it holds because the cache, as long as there is one, names every controller that
  lives and has not departed (`Represents`), because two threads never carry
  notifications of the same device (`SignalsApart`), and because a number is used
  again only for a controller that nobody holds.
- `DevicesStayAvailable`: from `ListInv`. A departure takes *some* entry out, so
  the list cannot be compared with the devices present. `Owed` names the
  devices for which the list must have an entry, though perhaps another's: those
  reported and not under way, those whose departure is about to be told, and
  those in the cache whose arrival is not. `Enough` says the list is as
  long as they are many; every notification changes both sides by the same one,
  or makes the list longer. `LastPending` and `LastSignal` (the last notification
  under way for a device is true) connect this with `present` once all is quiet.

### Profiles

For every set of profiles and bounds and every finite set of threads
(`AddersAssumption`).

- `ProfilesTypeCorrect`, with `ListsHeld`: a thread in the persister holds a list
  that is not empty, its own profile alone until it has read the file, and a file
  that cannot be read has no text.
- `PersistedInOrder`: from `OrderInv`. Until something disturbs the file, one thread
  at a time is in the persister, its list is what was saved and its own profile,
  and the file is empty while it is open for writing.
- `ExistingRetained`: from `SettledInv`: what was settled starts the file and also
  the list of every thread that will write, so it does not matter who writes last.
- `NoneInvented`: from `CountInv`. The bound on what a file holds is kept for every
  list that may be written and counts ahead the threads that have yet to read
  (`Readers`): a thread that reads adds one and ceases to be such a reader.
- `NothingRepairsTorn`: from `Stuck`; a thread that reads a torn file is out.

### The runtime

For every set of threads and any number of calls, from
`CallersAssumption` (and `RuntimeAssumption` for the bound's type):

- `TypeCorrect`: `RuntimeTypeOK`, which is inductive.
- `OneLoopRuns`, `DestroyedWithoutLoop`: from `ThreadsKnown`, which says, while no
  two `Start`s have been assigning at once, that at most one is, that the only
  threads in the loop are the one that can be joined and the one about to be
  assigned, and that whoever has checked `m_threadMain` still finds it free. The
  destructor's part needs `NobodyElse`: nobody is inside a call by then.
- `SleepersHear`: from `WakeUpComes`, which says the same of threads that have not
  yet gone to sleep, and from `OneThread`: a `notify_one` reaches the right thread
  because there is no other.
- `RunningRuns`: from `DaemonAlone`, without which a terminated daemon would be a
  runtime that runs with no thread.

### The library types

- `EachCalledOnce`: `CalledExactlyOnce`, for every set of objects and lambdas, from
  `ScopeInv`, which counts nothing: a lambda is unused, or has one holder, or was
  called, or was released (`Accounted`), and an object whose lambda executes does
  not call it again (`ExecutingOnce`).
- `ParseInvertsEncodings`: `ParsesEncodingsOnly`, for data of every size and all
  256 values of each byte; `EncodingsApart` says which data are an encoding,
  `ParseCases` what the code computes, the 16 bits of the length included.
- `ViewsOfCommand`: `ApduViews`, for data of every size.

### How the lists are reasoned about

The provers cannot use the library's induction theorems, which take the formula as
an operator. Induction over a number is done by the least number at which it
fails (`LeastNumber`, `SetInduction`), and that is enough for functions that are
defined by recursion over the positions of a list: `Selected` and `Followed` are
written that way, `SelectedSteps` and `FollowedSteps` prove once that such a
function exists and unfolds, and everything else about them follows from there.
`SequencesExt`'s `SelectSeq` and folds are built on operators and are closed
to the provers, which is why the models select with `Selected`.

**Only model-checked**: liveness and `ImplementsFairExecutor` with it (fairness and
`ENABLED` are outside the prover's reach); that is `EveryTaskAnswered`,
`DestructorReturns`, `WaitReturns`, `EventsArrive`, `DestructionReturns`,
`ArrivalListed`, `CallsReturn`, `AddReturns` and `MainEnds`. The counterexamples
to what the documentation says are TLC's, too.

## What the code does not do that its documentation says

- A canceled task runs if `stop(cancel)` is followed by the destructor before the
  worker takes the lock (`task_queue_canceled`). The unit test passes because it
  sleeps in between.
- `AddNearObject` does not add to a session that has a member (`session_add`).
- `OnSessionEnded` may not be delivered at all when a callback drops the session
  (`session_end`).
- A departure may take another device out of the list than the one that departed
  (`discovery_remove`); what is left is that the list has enough entries
  (`DevicesAvailable`).
- A device that was plugged in before the service started is not found
  (`discovery_existing`).
- Destroying the manager is not safe while notifications come
  (`discovery_destroy`).

And what the properties themselves say, or a reader of them should know. A profile
may be lost when two threads add at once, or the process ends between truncation
and write, or a write fails, and the file is then of no use for good
(`SavedInOrder` excepts exactly these, `TornForGood` says the rest); the class
comment asks callers to synchronise, and the manager, the only caller, does not.
`main` of both services ends as soon as it has started the runtime, hangs in the
daemon, hangs when the wake-up is missed or the weak exchange fails, and a
`Start` after a `Stop` ends the process (`MainEnds`, `OneLoop`). The payload view
of an APDU runs over its buffer (`ApduViews`). With a probe beside notifications
a device may be listed twice, and one that departs between the probe and the
addition of its result stays in the list (`DevicesAvailable` leaves the probe
out). A `stop_and_wait_for_task_completion` that runs beside another one may
return before the queue is drained (`WaitReturnsAfterExit` excepts it). After the
destructor stopped the queue a callback can still change the state of the
session, and its post throws (`EventsTellMembership` and `EventsTellRanging` end
there).

## Not modelled, and the plan

Not modelled: `Smartcard`, where `Transmit` throws or does nothing,
`TransmitAsync` calls itself without end, and the slot for the pending
transmission is behind functions that nothing calls, so no operation reaches a
second state; `StartSession` of the device controller, whose only implementation
starts none, so that its list of sessions never changes; stubs (secure elements,
Bluetooth discovery, the Linux agent, UWB devices, `NearObjectManager`, `TlvBer`,
`FromVector` of the APDUs); values without state (FiRa enumerations,
capabilities); pure I/O (the buffers of device enumeration); formatting
(`ToString`, `tostring.hxx`) and the other header templates of `notstd`; a second
discovery agent; a loss of power between a write and its reaching the disk.

What is left is proof:

1. The session over the queue itself: `UsesExecutor` and `RefinesExecutor` put
   together, with the session's futures (`FuturesAgree`) at its events.
2. The safety that the liveness properties rest on, as invariants of their own:
   that the queue, the session's destructor and `AddDiscoveryAgent` never wait for
   a step that nobody can take.
3. For the properties the documentation states and the code does not have, the
   condition under which they do hold: an object is added to a session without
   members, a departure of the only device in the list takes out that device, a
   manager is destroyed safely when no notification is under way.
