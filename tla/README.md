# TLA+ models of MRC's resource subsystem

This directory holds TLA+ models of the runtime-resource code of MRC, with the
TLC configurations that check them. It covers the system-resources orchestrator, the
control-plane tag registry, the Python asynchronous operator and the
synchronous Python stream operators. An abstract specification,
`StreamReference`, states what the stream operators promise, and `StreamOperators`
is checked to implement it. Each module is
translated from the source under `src/`. Where the code a module depends on is
not in the tree (the partition model, ThreadingResources, the method bodies of
`TaggedService`), that part is modelled from `spec.md`. `PROJECT.json`
marks every such definition `spec_modelled`.

## The system and how its parts interact

| Part | Source | Role |
|---|---|---|
| SystemResources | `src/cpp/mrc/src/internal/resources/system_resources.cpp` | Builds the per-partition resource set in a fixed order: runnable, then UCX, host memory, device memory, network, and finally the assembled `PartitionResources`. It registers thread-local initializers that bind every runtime thread to the resources, and serves `get_resources()` / `get_partition()` from any thread. |
| Partition model | not in tree (spec 4.1) | Flattened partitions: one per device, or one per device-less host partition. |
| ThreadingResources | not in tree (spec 4.2) | `register_thread_local_initializer(cpu_set, f)` runs `f` on every thread of the CPU set, including threads started later. |
| UCX resources | `src/src/internal/ucx/resources.hpp` | A per-partition context and workers. `add_registration_cache_to_builder` adds the partition's registration cache to a host memory builder. |
| Tagged registry | `src/src/internal/control_plane/server/tagged_service.hpp` | Tags are `m_tag` (from `Tagged::next()`) plus a `std::uint16_t` counter `m_uid`. `TaggedService` keeps a multimap from instance to tag and drops tags singly, per instance, or all at once. |
| Python operators | `src/python/mrc/_pymrc/src/operators.cpp` | `AsyncOperatorHandler`: a source thread that holds the GIL only in short sections, and an asyncio loop thread running coroutines. Both notify the downstream sink. `filter`, `map`, `flatten`, `on_completed`, `pairwise` and `to_list` are observers that transform a source's events synchronously. `build` hands the source and sink to a user function. |
| malloc resource, Decoder, segment bindings | `malloc_memory_resource.hpp`, `codable/decode.hpp`, `python/srf/core/segment.cpp` | Stateless forwarding or pybind registration. |

How the parts interact:

- The orchestrator hands each host memory resource the registration caches of the UCX resources on its host (scenario D of the spec).
- The orchestrator's thread-local initializers run on threads that ThreadingResources owns, concurrently with the rest of the program.
- Control-plane connection handlers call the tag registry whenever clients connect, register and disconnect.
- A Python pipeline chains the operators: each stage's sink is the next stage's subscriber, and whether it shares the next stage's subscription decides which stages stop when a later one ends the stream.

## Modules

### `SystemResources.tla` (with `MC_SystemResources.tla`)

The constructor is single-threaded, so each of its loops is one action that builds a whole
vector: `BuildRunnable` (lines 65-130), `BuildUcx` (132-150), `BuildHost`
(161-177, with the builder filter `UcxOnHost`), `BuildDevice` (179-194),
`BuildNetwork` (196-217) and `BuildPartitions` (219-230).

- `pc` records the loop the constructor is in.
- `std::vector::at` is `At`. An out-of-range `at()` moves `pc` to `"failed"`, as does a failing `DCHECK_LT` (line 185).
- `debug_build` is chosen at Init, because a `DCHECK` is compiled only into debug builds.
- `RegisterInitializer` (231-244) is one registration per partition. It queues the lambda on the running threads of the host's CPU set and keeps it for later threads.

Threads run alongside the constructor:

- `StartThread` replays every initializer registered so far on the new thread.
- `RunInitializer(t, i)` is the lambda (236-242). It always sets `m_thread_resources`, and sets `m_thread_partition` only under `Dedicated` placement.
- `get_resources` and `get_partition` (253-285) record what the call would return or throw.
- A thread may run on a *foreign* CPU set, one the runtime never created.

Init chooses the topology (a per-host device count from `Topologies`), whether
the server is enabled, the placement strategy and the build type.
`Dedicated` placement is allowed only on topologies with at most one device per
host partition (the one-thread-to-one-partition meaning of the placement).

### `TaggedService.tla` (with `MC_TaggedService.tla`)

The header gives the state (`m_tag`, `std::uint16_t m_uid{1}`, the multimap) and the operations' declarations. Their bodies are not in the tree, so the actions follow spec 4.3 and are marked `spec_modelled`. What the code itself fixes is the counter's type, and that is what the runs check.

- The counter is modelled at width `UidWidth` (16 in the code). `NextUid` wraps modulo `2^UidWidth`, so the wrap is reachable.
- `m_instance_tags` is a bag of `<<instance, tag>>`. `service_tags` is the derived service's per-tag state, which `do_drop_tag` clears.
- Clients `Connect`, `register_instance_id`, `drop_tag` any tag they were ever given (stale ones included), and `Disconnect` (which calls `drop_instance`).
- The server may `drop_all` or `Replace` the registry with a fresh object that takes a new `m_tag` from `Tagged::next()`.
- Properties of the drop paths (an instance's tags gone after disconnect, the derived state cleared on every drop) are not checked. They would restate the spec-modelled action bodies, since the erase loops they are about are not in the tree.

### `AsyncOperator.tla` (with `MC_AsyncOperator.tla`)

`flatmap_async` and `AsyncOperatorHandler` (`operators.cpp` 175-315). Two threads touch the handler:

- **S, the source thread.** It runs the three lambdas subscribed to the source:
  - `emit` is the on_next lambda, with `flatmap_fn` under the GIL. A raise leads to `sink.on_error`.
  - `wait_completed` then `sink.on_completed`.
  - The on_error lambda.

  S holds the GIL only inside the `gil_scoped_acquire` blocks. Its sink calls, `s_sink_enter` and `s_sink_exit`, are made without the GIL.
- **L, the loop thread.** This is either the handler's own `m_loop_thread`, or the thread running an event loop that was already running (`loop_running`).
  - `run_task(g)` runs a `__anext__` coroutine. Completing the concurrent future invokes a registered done-callback at once.
  - The callback holds the GIL throughout, in stages:
    - `callback_start`: `is_subscribed`, `result()`, then `on_next` / `on_error` or drop.
    - `callback_sink_exit`
    - `callback_resubmit` (line 240)
    - `callback_end` (`m_outstanding--`, line 260)

How the GIL and the chains are modelled:

- The GIL is a variable `gil` used as a lock.
- `process_async_generator` on S is two critical sections, `..._submit` (222-226) and `..._register` (228). The interpreter can pass the GIL to L inside `run_coroutine_threadsafe`, so a future may be done at `add_done_callback`, and the callback then runs inline on S.
- Each source value's async generator is one chain `g`. `pos[g]` counts the `__anext__` calls issued, and `Outcome(g)` is what the call produces: a value, the generator's error, or `StopAsyncIteration`.

The destructor (211-218):

- With the handler's own loop thread, it sets `m_loop_ct` and joins. The thread exits between callbacks (`loop_thread_exit`).
- With an already running loop, there is nothing to join.

The environment, chosen at Init within per-run sets, is:

- each generator's length;
- whether `flatmap_fn` or a generator raises;
- how the source ends;
- whether the loop was already running, and if so whether it runs on S itself (`loop_on_s`: the pipeline is subscribed from inside the loop). Such a loop runs tasks only after S has returned from the subscription.

### `StreamOperators.tla` (with `MC_StreamOperators.tla`) and `StreamReference.tla`

These model chains of one or two of the operators `build`, `filter`, `flatten`, `map`, `on_completed`, `pairwise` and `to_list` (`operators.cpp` 47-172, 317-460). Stage `k` is the observer that `op[k]` subscribes to stage `k - 1`, and stage 1 is subscribed to the source. Init fixes the chain, each stage's Python callables, and the source's events:

- `map_fn[k]` is a function on model values;
- `keep[k]` is the set of values `filter_fn` accepts;
- `raises[k]` is the set of values on which `filter_fn` or `map_fn` raises. rxcpp's `filter` and `map` pass the exception to `on_error`.
- `fin[k]` is what `finally_fn` returns, a value or `None`;
- `build_raises[k]` says whether `build_fn` raises instead of subscribing the output to its source. The lambda logs and rethrows (80-91), rxcpp's subscribe passes the exception to `output.on_error`, and nothing upstream of that stage is ever subscribed.
- A Python object is a model value, which is not iterable, or `[elems |-> xs]`, a list or tuple. `py::list(obj)` converts any iterable, so only a non-iterable raises in `flatten`. `pairwise` emits tuples and `to_list` emits lists, so `flatten` can follow either of them.

**Handlers.** Each observer callback (`filter_on_next`, `flatten_on_next`, `to_list_on_completed`, ...) is an operator. It gives the events the stage passes to its sink and the stage's new state: `remembered` for `to_list`, `prev` for rxcpp's `pairwise`. rxcpp calls these synchronously on the source's thread, so the actions are:

- `subscribe`;
- `source_emits`, the environment: the source (not in the tree) emits its next event while stage 1's subscriber is subscribed, and the recursive `Feed` runs it through the whole chain.

**Subscriptions.** `Feed` follows rxcpp's subscriber. A call reaches the observer only while the subscriber's lifetime is subscribed (`closed` holds the unsubscribed ones), and a terminal event unsubscribes it after the observer returns. Every operator subscribes to its upstream with its sink's lifetime:

- rxcpp's `filter`, `map` and `pairwise`;
- `to_list`'s `get_subscription()`;
- `flatten`'s `source.subscribe(sink, ...)`;
- `build_fn`, which is taken to subscribe the output it is given.

The exception is `on_completed`. Its `make_observer_dynamic` (line 335) gets a lifetime of its own, and `Life(k)` computes which lifetime each subscriber has.

So when a later stage ends the stream, the earlier stages and the source stop, except behind `on_completed`. That stage keeps consuming the source, calls `finally_fn`, and passes everything to a sink that drops it.

`StreamReference.tla` defines each operator declaratively as a function `Ref(k, s)` of the events stage `k` has received. `Output(s)` applies the stages in turn, with the RECURSIVE `Chain`. Its `Subscribe` and `Step` (which consumes one source event) set `out` to `Output(consumed)`. `StreamOperators` instantiates it with `consumed <- SubSeq(input, 1, i - 1)`.

## Runs

| Run | Config | Expect | What it shows |
|---|---|---|---|
| `system_resources` | `MC_SystemResources.cfg` | pass | Over 8 topologies (1-2 hosts, 0-2 devices per host), both network settings, both strategies, both build types and 2 threads on any CPU set: see the checks below. |
| `system_resources_mixed_topology` | `MC_SystemResources_mixed.cfg` | violation | `ConstructionCompletes` fails for the topology host0 with no device, host1 with one device in a debug build. The device partition has id 1 = `device_count()`, so `DCHECK_LT` at line 185 aborts. |
| `tagged_service` | `MC_TaggedService.cfg` | pass | With 2 instances, a 2-bit counter, 2 registries and 3 tags per registry (no wrap): `m_uid` stays within its field (`TypeOK`). This run is the counterpart of the wrap run, and fires every operation. |
| `tagged_service_uid_wrap` | `MC_TaggedService_wrap.cfg` | violation | With 5 registrations in one registry, `m_uid` wraps 3 → 0 → 1 and `register_instance_id` hands out a tag that is still live (`TagsUnique`). |
| `async_operator` | `MC_AsyncOperator.cfg` | pass | 2 values, generators of 0-2 items, nothing raises, source completes, own thread or external loop: `on_completed` only after every item (`CompletedAfterAllItems`), and the subscription returns (`Terminates`). |
| `async_operator_failures` | `MC_AsyncOperator_errors.cfg` | pass | Every failure combination with the own loop thread: no done-callback runs after the handler is destroyed (`NoCallbackAfterDestroy`), because the destructor joins the thread. |
| `async_operator_error_forwarding` | `MC_AsyncOperator_error_null.cfg` | violation | A source error reaches the sink as a null `exception_ptr` (`ErrorForwarded`, line 306). |
| `async_operator_sink_overlap` | `MC_AsyncOperator_overlap.cfg` | violation | S's `on_error` runs while L is inside `on_next` (`SinkCallsSerialized`). |
| `async_operator_generator_error_hang` | `MC_AsyncOperator_hang.cfg` | violation | One generator raises, unsubscribing the sink. Another chain then re-submits forever and `wait_completed` never returns (`Terminates`). |
| `async_operator_same_thread_loop` | `MC_AsyncOperator_sameloop.cfg` | violation | The already running loop is S's own thread. `on_completed` spins in `wait_completed` while the `__anext__` task waits for the loop, so the subscription never returns (`Terminates`). The cfg turns off TLC's deadlock check so that the liveness property reports the hang. |
| `stream_operators` | `MC_StreamOperators.cfg` | pass | Each of the seven operators alone and eight two-stage chains, 2 values, every source of up to 3 items ending in completion, an error or nothing. Every `map_fn`, `keep`, `raises`, `fin` and `build_raises` is tried. The output at subscription and after every event is the reference one (`RefinesStreamReference`). |
| `async_operator_external_loop` | `MC_AsyncOperator_uaf.cfg` | violation | With an already running loop, a source error destroys the handler while callbacks that use `this` are still to run (`NoCallbackAfterDestroy`). |

What `system_resources` checks:

- **`PartitionsAligned`:** every assembled partition pairs its own host's runnable and host resources with the device and UCX resources built for its own id.
- **`RegistrationCachePerHost`:** each host's registration cache covers exactly its own partitions.
- **`ThreadBindingSound`:** a thread's partition is one of its own host's, and is set only under Dedicated placement.
- **`RuntimeThreadsBound`:** every started runtime thread is eventually bound, including threads started after registration.

What `stream_operators` checks:

- **`RefinesStreamReference`:** after every source event, the chain has passed to its output exactly what `StreamReference`'s composed definitions give. That means items in order, neighbour pairs, the list only at completion and only when not empty, `finally_fn`'s non-None result just before completion, nothing after the first item on which `flatten`'s conversion, `filter_fn` or `map_fn` raises except that Python error, only the error when `build_fn` raises, and exactly one terminal event, last. In a chain, nothing an earlier stage emits after a later one ended reaches the output. Examples are `flatten`'s remaining elements after the next stage raised on the first one (line 144), and `on_completed`'s items and `finally_fn` result after the stage behind it raised. The mutant `FeedUnchecked`, which delivers to unsubscribed subscribers, breaks it.

Each property of a passing run has a mutant in `PROJECT.json`: a plausible bug in the
mapped definition that TLC catches under the same configuration. The mutant
operators sit next to the definitions they replace in each module.

### Bounds

- **SystemResources:** two hosts and up to two devices per host cover every index relation the constructor has:
  - host id ≠ partition id;
  - two partitions on one host;
  - a device-less host before and after a host with devices.

  Two threads allow one thread started before registration and one after, on the same or on different hosts.
- **TaggedService:** a 2-bit counter, 3 registrations per registry and 2 registries allow re-registration after a drop, a stale tag from a replaced registry, and a tag reused across instances. The wrap run allows 5 registrations so the counter goes around once.

- **StreamOperators:** the chains (`MC_StreamOperators.tla`) put behind or ahead of one another every pair the lifetimes tell apart:
  - a stage that can end the stream (`filter`, `map`, `flatten`, `build`) behind `on_completed` and behind `flatten`;
  - `on_completed` behind `filter` and ahead of `to_list`;
  - `flatten` behind the tuples of `pairwise` and the lists of `to_list`;
  - `build` at either end.

  Chains that would apply `map_fn` or `filter_fn` to a tuple are left out, because those callables are functions on the model's values. Two values and up to three items give `pairwise` two pairs, `to_list` lists of 0-3 items, and `flatten` a non-iterable after, between or before iterables of 0-2 elements. `raises` ranges over every subset of the two values, so an error on the first, a later or no item is seen. `map_fn` ranges over all four functions on two values, so a swap or a merge of values is seen.
- **AsyncOperator:** two source values give two concurrent chains, which is what the overlap, the inline callback and the hang need. Up to two items per generator exercise re-submission after an item as well as after the stop.

### Fairness

- **SystemResources:**
  - `ConstructorStep` and `RegisterStep` are weakly fair, because the constructor runs to completion on its thread.
  - Each thread's `RunInitializer` is weakly fair, because the fiber queue of a running thread executes what is queued on it.
  - Starting threads and calling the accessors are not fair: a thread need never start, and nobody need ever query.
- **AsyncOperator:**
  - S's steps are strongly fair. S competes for the GIL with a loop thread that keeps re-taking it, and CPython's switch interval forces the holder to hand it over.
  - Each chain's loop steps are weakly fair, because asyncio runs ready callbacks in FIFO order.
  - The loop thread's exit is weakly fair.
- **TaggedService, StreamOperators:** no fairness is assumed, because their properties are safety properties: a type invariant, and refinement of a specification without fairness.

## Findings

1. **Mixed topology, debug build (spec gap).** `DCHECK_LT(partition_id, device_count())` (`system_resources.cpp:185`) assumes device partitions are numbered before device-less ones. The spec's partition model allows a device-less host partition first, and then a debug build aborts construction.
2. **Tag counter wrap (divergence).** `m_uid` is a `std::uint16_t` (`tagged_service.hpp:55`) and drops never return counter values. After 65535 registrations in one registry's life, tags repeat and decrease, but the spec (§3, §8) says tags are unique and increasing.

3. **Null error forwarded (code bug).** `sink.on_error(std::current_exception())` in the source's on_error lambda (`operators.cpp:306`) ignores `ex` and forwards whatever exception is being handled at that moment. When the source calls `on_error` outside an active handler, that is a null `exception_ptr`: for example, the source passes on an error it was given. The model assumes this case. When the call comes from inside a handler, the right error comes through. rxcpp's `on_exception` and `safe_subscribe` call it from inside one.
4. **Unserialized sink (code bug).** `sink.on_error` at lines 300 and 306 runs without the GIL on the source thread, concurrently with `sink.on_next` on the loop thread.
5. **Hang after a generator error (code bug).** Line 251 unsubscribes the sink. Other chains then skip `result()` and re-submit at line 240 forever, so after the source completes `wait_completed` spins forever.
6. **Use after free with a running loop (code bug).** When the event loop is already running, no thread is created (lines 191-194) and `wait_cancel` is a TODO. On a source error the handler is destroyed while done-callbacks that capture `this` are pending.
7. **Same-thread loop hang (code bug).** If `flatmap_async` is subscribed on a thread that is running the asyncio loop, `get_event_loop` returns that loop, no thread is started (line 194), and `wait_completed` (line 272) spins without ever letting the loop run the outstanding `__anext__` tasks.

## Not modelled, and why

- **The destructor of SystemResources:** its effect depends on the member declaration order in `system_resources.hpp`, which is not in the tree.
- **UCX context and worker internals, memory allocation, the registration cache's register/deregister:** these are not in the tree, or are I/O.
- **`malloc_memory_resource`, `Decoder`, `segment.cpp`:** none of them holds state a model checker could explore.
  - `malloc_memory_resource` forwards to `malloc` and `free`.
  - `Decoder` forwards to `detail::deserialize` and the storage, neither of which is in the tree.
  - `segment.cpp` registers converters and Python bindings whose behaviour lies in `EdgeConnector` and `BuilderProxy`, which are not in the tree.
  - `thread_engines.hpp` and `ucx/resources.hpp` are declarations whose definitions are not in the tree.
- **The rxcpp subscriber:** it is not in the tree. `AsyncOperator` abstracts it to `is_subscribed` and to which method a thread is executing. `StreamOperators` abstracts it to lifetimes that drop calls once unsubscribed, as rxcpp documents.
- **Reuse of the same event loop by a later handler:** this would run an old handler's pending callbacks.
- **What `build_fn` does besides subscribing or raising:** a user pipeline between source and output is the composition of the other operators. Chains of them are modelled up to two stages.
- **When the source must be released:** behind `on_completed` (line 335) the source is consumed after the output has ended. The model reaches this, and `RefinesStreamReference` shows that the output stays right. No property states when the source must stop, because the code, its comments and the spec say nothing of it.
- **A raising `finally_fn` in `on_completed`:** the model takes `finally_fn` to return. Line 346 has no try/catch, unlike `flatten` (149) and `flatmap_async` (293), so an exception would leave the sink without a terminal event. Where the exception goes after that depends on the source that called `on_completed`, which is not in the tree. This is listed as a hazard.
- **Concurrent calls into `TaggedService`:** the class has no lock. Each operation is atomic in the model, as the spec requires of its callers, and the callers are not in the tree.

## Possible extensions

1. An abstract specification of `flatmap_async` (an observer that receives each generator's items in order and then exactly one terminal event), with `AsyncOperator` checked against it in the configurations where it holds.
2. SystemResources: thread start racing with construction failure, and `get_partition` on threads of several partitions of one host.
3. Chains longer than two stages. Two already put every pair of lifetimes (shared and own) next to each other.
