# TLA+ models of the polars streaming engine

This directory holds TLA+ specifications of the concurrent core of
`crates/polars-stream`, the TLC configurations that check them on small
instances, and TLAPS proofs for the executor. Every definition is translated
from the Rust source. `PROJECT.json` maps each definition to its lines.

## 1. The system

polars is a DataFrame library. Most of it is sequential code on columns. The
part with shared state, many threads and delicate hand-written synchronisation
is the new streaming engine, `crates/polars-stream`.

| Part | Source (`crates/polars-stream/src/`) | State it keeps | Operations | What must hold |
|---|---|---|---|---|
| Park group | `async_executor/park_group.rs` | one `AtomicU64` (idle count, recruiter bit, preparing bit, version); a notification pair behind a condition variable; per worker a recruiter flag and a version | `prepare_park`, `park`, `recruit_next`, `unpark_one` | at most one recruiter; exact idle count; no lost wakeup |
| Executor | `async_executor/mod.rs` | two global queues; per thread a list that can be stolen from and a private slot | `runner`, `try_steal_task`, `schedule_task` | a scheduled task is in one place and is run |
| Task | `async_executor/task.rs` | `TaskState`; `TaskData` and a join waker under a lock | `run`, `wake`, `poll_join`, `cancel`, drop of an abort handle | scheduled once per wake; join never missed |
| Task scope | `async_executor/mod.rs` | cancel handles, completed keys | `spawn_task`, `destroy` | no future outlives its scope |
| Connector | `async_primitives/connector.rs` | three state bits, one value cell, two wakers | `send`, `recv`, `try_*`, drops | a capacity-one channel |
| Task parker | `async_primitives/task_parker.rs` | a three-valued state and a waker | `park`, `unpark`, poll | no missed notification |
| Distributor | `async_primitives/distributor_channel.rs` | per receiver a ring buffer with two wrapping heads; closed flags; parkers | `send`, `recv`, drops | FIFO per receiver, nothing lost |
| Wait group | `async_primitives/wait_group.rs` | token count, waker | `token`, `wait`, drop | the waiter is woken by the last token |
| Linearizer | `utils/linearizer.rs` | one bounded channel per inserter, a heap | `get`, `insert` | output ordered by sequence number |
| Physical pipe | `pipe.rs` | ports of a pipe, initialised in a fixed order | `recv_port`, `send_port`, `spawn` | connects any mix of serial and parallel ends |
| Graph, phases | `graph.rs`, `execute.rs` | port states `Blocked`/`Ready`/`Done` per pipe | `update_all_states`, `find_runnable_subgraph`, `run_subgraph` | `Done` is final; everything ends `Done` |
| Compute nodes | `nodes/` | per node; the multiplexer buffers morsels across phases, zip keeps input heads | `update_state`, `spawn` | monotone port states, ordered output |

How they interact: `execute_graph` alternates between updating port states and
running a subgraph. Each phase opens a task scope and spawns a task per node
and pipeline, connected by physical pipes. Pipes are connectors, with a
distributor (serial to parallel) or a linearizer (parallel to serial) in
between. Tasks wait on connectors, parkers and wait groups; a wake puts them
in the executor's queues, and the park group decides which thread wakes up.

The behaviours that are hard here: interleavings of a few atomic accesses
(park against unpark, publish against sleep, close against send), tasks woken
for a reason other than the one they wait for, futures dropped half way, and
scopes that end early because a task returned an error.
`PROJECT.json` lists these hazards at their lines.

## 2. Modules

| Module | Models | Notes |
|---|---|---|
| `ParkGroup` | `park_group.rs` | The fields of the `AtomicU64` are four variables, always updated in one step, as every update in the code is one compare-exchange or `fetch_update`. `pc` sequences the accesses of a method. |
| `Executor` | `mod.rs`, `TaskState` of `task.rs` | Extends `ParkGroup`. Worker loop, stealing, scheduling, and polls that wake any task. Queues are sets: which of several tasks is taken is left open. |
| `AsyncTask` | `task.rs`, `TaskScope` of `mod.rs` | Polling under the data lock, joins by the main thread or by another task, cancellation, scope destruction, reference counts. The executor is a bag of runnables. |
| `Channel` | the contract of `connector.rs` | Abstract: values arrive once and in order, the end comes after the last value, a value is refused only if the receiver is gone. |
| `Connector` | `connector.rs` | One action per access to `state`, the cell or a waker. `Promise` is the refinement mapping to `Channel`: a value counts as sent when the swap sets `FULL` on an open channel, as received when the swap clears it. |
| `TaskParker` | `task_parker.rs` | One action per access to the parker, including the weak exchange that may fail for no reason. |
| `Distributor` | `distributor_channel.rs` | Extends `TaskParker`. Actor 0 sends, the others receive. Heads wrap at `HeadMod` (2^64 in the code). The drop of the channel is the code's two loops: `DropInner` starts the outer one, `DropSlot` is a round of the inner one, with its own head, and `DropNext` goes to the next receiver. |
| `ExecutorTypes`, `RecruiterProofs`, `ExecutorProofs` | | TLAPS proofs about `Executor`. |
| `MC*` | | Instances for TLC. |

Operators named "Mutant" in their comment are faulty variants of the definition
below them. No specification uses them. They show that the properties are sensitive
to the code: replacing the definition by the variant makes TLC report a
violation.

### Abstractions

* Values, tasks and morsels are small numbers or model values.
* Memory is sequentially consistent. Orderings weaker than that (for instance
  the `Acquire`-only swap at `connector.rs:151` and the relaxed load at
  `connector.rs:79`) are outside of the models.
* The version of the park group (30 bits) is a natural number. Confusing two
  versions would need 2^30 cancelled attempts during one park attempt.
* `try_steal_task` makes four passes over the lists and retries on contention;
  one pass in any order allows the same outcomes. crossbeam's
  `steal_batch_and_pop` returns one task and moves at most half of the list.
* `AtomicWaker::wake` takes the registered waker and wakes its task.
* In `Executor` a poll may wake any task; in `Connector` and `Distributor` a
  waiting task may also be polled for no reason, since a task waits for several
  things in turn and stale wakers exist.
* Locals that are dead after an operation are reset, to keep the state space
  small.

## 3. Runs

| Run | Instance | Checks |
|---|---|---|
| `MCExecutor` | 2 workers, 1 outside thread, a high and a low priority task, 4 effective wakes; worker symmetry | `TypeOK`, `OneRecruiter`, `IdleAccounting`, `NoLostWakeup`, `LocalTasksServed`, `OwnedOnce`, `ParkProtocol` |
| `MCExecutorLive` | the same with 2 wakes, fair | `ScheduledRuns` |
| `MCConnector` | 3 sends, fair | `TypeOK`, `CellExclusive`, `FreedOnce`, `ImplementsChannel`, `WaitersProceed` |
| `MCDistributor` | 2 receivers, buffers of 1, heads modulo 2, 3 sends | `TypeOK`, `QueueContents`, `SlotExclusive`, `FreedOnce`, `RefusedWhenClosed`, `NoLostWakeup` |
| `MCDistributorRing` | 1 receiver, buffer of 3 in a ring of 4, heads modulo 8, 9 sends, fair | `QueueContents`, `FreedOnce`, `WaitersProceed` |
| `MCDistributorEnd` | 1 receiver, 1 send | `EndsAfterLast`, violated |
| `MCDistributorPoll` | 1 receiver, 2 sends, fair | `PollReturns`, violated |
| `MCAsyncTask` | t1 joined by t2, t2 by the main thread, both scoped; t3 in an abort handle; 2 runners | `TypeOK`, `ScheduledOnce`, `ScopeRespected`, `RunnersSurvive`, `JoinNotLost` |
| `MCAsyncTaskNested` | the same | `NoRunnerDies`, violated |

What the bounds reach:

* `MCExecutor`. Two workers and a third caller are the least for which a worker
  parks while another recruits and a third unparks. Both priorities take every
  branch of `schedule_task`; four wakes let a task be displaced from a slot and
  stolen. The theorems of section 5 lift the bounds for five of the properties.
* `MCConnector`. With three sends one can be cancelled, one refused and one
  received, in any order, with both ends closing.
* `MCDistributor`. With one slot per receiver every second send meets a full
  buffer; two receivers make the search visit a full one and a closed one.
  `MCDistributorRing` covers what it does not: a buffer size that is not a
  power of two, heads larger than the ring, so that the index is reduced, and
  heads that wrap while the buffer is partly full. There the drop loop goes
  several rounds and across the wrap; with two receivers `MCDistributor` takes
  the outer loop past the first. `FreedOnce` compares what the loops free with
  what was sent and taken, and does not use the heads.
* `MCAsyncTask`. A nested join, a join by the main thread and an aborted task
  are the three uses in the repository; two runners let one poll a task while
  the other meets its queued runnable.

Deadlock is checked for the channels. The executor and the task models may
stop: when nobody wakes a task any more, every worker sleeps.

### Fairness

* `Executor`: weak fairness of each worker and of each thread inside
  `schedule_task`. These are OS threads that do not block except on the
  condition variable, and a poll returns. Waking is never assumed.
* `Connector`, `Distributor`: weak fairness of an operation under way, and of
  the poll of a task that was woken; the latter is what `ScheduledRuns` gives.
  Starting an operation and dropping an end are never assumed. Strong fairness
  of the weak exchange in the parker says that it does not fail spuriously for
  ever.

## 4. Findings

1. **The end of a distributor can overtake its last value** (`MCDistributorEnd`).
   `try_recv` loads the write head, finds nothing, and then loads
   `send_closed`. If the sender sends to this receiver and is dropped in
   between, `recv` returns `Err` and the value stays in the buffer until the
   channel is dropped. The connector looks at its closed bit last for this
   reason; here the two loads are in the wrong order.
2. **A parked task that is polled again spins** (`MCDistributorPoll`). In state
   `PARKED` the poll refreshes the waker and repeats the loop with the state it
   loaded before. It returns only after someone unparks the parker. With one
   executor thread nobody can.
3. **Joining a cancelled task can end an executor thread**
   (`MCAsyncTaskNested`). When a scope is destroyed while an inner task is
   queued, the outer task that awaits it joins it and the data becomes
   `Joined`; the queued runnable then reaches the `unreachable!` in `run`.
   `RunnersSurvive` shows that this is the only way: no executor thread dies as
   long as no handle of a panicked or cancelled task is joined.

## 5. Proofs

The theorems hold for any finite sets of workers, outside threads and tasks
and any bound on the wakes (`ThreadAssumption`, `TaskAssumption`).

* `ExecutorTypes!TypeCorrect`: `Spec => [](TypeOK /\ HandInv)`.
* `ExecutorProofs!RecruiterUnique`: `Spec => []OneRecruiter`.
* `ExecutorProofs!IdleCountExact`: `Spec => []IdleAccounting`.
* `ExecutorProofs!LocalTasksAreServed`: `Spec => []LocalTasksServed`.
* `ExecutorProofs!NoWakeupIsLost`: `Spec => []NoLostWakeup`.

`NoLostWakeup` is not inductive. The step that could break it is `Park`: the
recruiter resigns and counts itself idle, and a task may have entered a queue
after its search passed that queue. The inductive invariant `IInv` adds:

* `ControlInv`: where a worker may be while it is the recruiter, and that it
  has no local task when it starts over.
* `AttemptInv`: an attempt that was not cancelled keeps the preparing bit set,
  so the next `unpark_one` that wakes nobody cancels it.
* `CoverInv`: for a worker past a queue, with an attempt in force, the tasks
  in that queue are at most as many as the calls of `unpark_one` still to
  come, plus one if there is a recruiter that has yet to look at it.

Counting is needed because a recruiter may take one task and leave another;
the `unpark_one` of the other is then still to come. At `Park` the worker with
the role is itself past both queues, so the "plus one" is gone: a task left in
a queue has an announcement still to come, which is what `NoLostWakeup` asks
for. `ParkProtocol` collects these parts, and `MCExecutor` checks it.
`RecruiterProofs` shows that each step keeps the control, attempt, recruiter
and idle-count parts; `ExecutorProofs` the cover and the conclusion.

Only model-checked: `OwnedOnce`, all liveness properties (outside of the
prover's reach), the refinement of `Channel`, and everything about the
channels and `AsyncTask`.

## 6. Plan

In order of importance:

1. *Graph and phases*: port states, `update_all_states` to a fixed point,
   choice of the subgraph, the spawn order of `run_subgraph` against the
   assertions in `pipe.rs`, and termination with everything `Done`. Needs the
   port-state machines of the nodes.
2. *Pipes*: wait group and linearizer, and their composition with an abstract
   connector and distributor; order by sequence number and backpressure.
3. *Multiplexer and zip*: buffers across phases, unequal lengths.
4. *Proofs*: `OwnedOnce`; `CellExclusive` and the refinement of `Channel` by
   `Connector`; `QueueContents` and `SlotExclusive` of `Distributor`;
   `ScheduledOnce` and `ScopeRespected` of `AsyncTask`.
5. *Other crates*: the file cache and the concurrency budget of `polars-io`,
   the string cache of `polars-core`, the cache executor of
   `polars-mem-engine`.

## 7. Not modelled

* The parts of the plan above.
* `random_permutation` and thread creation in the executor.
* Physical plan lowering, expression evaluation, data kernels, file formats,
  SQL, Python bindings: no concurrent state, or data domains that a model
  checker cannot enumerate usefully.
* Weak memory, allocation failure, and panics inside the executor's own locks.
