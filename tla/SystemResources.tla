--------------------------- MODULE SystemResources ---------------------------
(***************************************************************************)
(* The constructor of mrc::resources::SystemResources and its thread-local *)
(* accessors get_resources() / get_partition()                             *)
(* (src/cpp/mrc/src/internal/resources/system_resources.cpp).              *)
(*                                                                         *)
(* The constructor is synchronous and single-threaded: each of its loops   *)
(* is one action that builds a whole vector.  The runtime's threads run    *)
(* concurrently with it: they start at any time, run the thread-local      *)
(* initializers queued for their CPU set and query the accessors.  The     *)
(* partition model (Partitions::flattened) and ThreadingResources are not  *)
(* part of the source tree and are modelled from the spec.                 *)
(***************************************************************************)
EXTENDS Naturals, Sequences, SequencesExt, FiniteSets

CONSTANTS
  Threads,     \* OS threads that may query the runtime
  Topologies,  \* per-host device counts the topology discovery can report
  None,        \* an absent std::optional / nullptr
  Foreign      \* the CPU set of a thread the runtime never created

ASSUME /\ Topologies # {}
       /\ \A topo \in Topologies : Len(topo) > 0 /\ \A k \in 1..Len(topo) : topo[k] \in Nat

Dedicated == "Dedicated"
Shared    == "Shared"

VARIABLES
  topo,                 \* devices per host partition, fixed at start-up
  network_enabled,      \* system().options().enable_server()
  strategy,             \* device_to_host_strategy()
  debug_build,          \* DCHECK active (debug build) or compiled out
  pc,                   \* the constructor's position
  tls_next,             \* index of the next partition whose initializer is registered
  m_runnable, base, m_ucx, m_host, m_device, m_network, m_partitions,
  initializers,         \* ThreadingResources: host partition -> registered initializers
  cpu,                  \* host partition whose CPU set a thread runs on
  started, pending,     \* thread running; initializers queued on it, not yet run
  m_thread_resources, m_thread_partition,   \* the thread_local pointers
  last_result           \* what the thread's last accessor call returned

ctor    == <<pc, tls_next, m_runnable, base, m_ucx, m_host, m_device, m_network, m_partitions>>
threads == <<started, pending, m_thread_resources, m_thread_partition, last_result>>
vars    == <<topo, network_enabled, strategy, debug_build, initializers, cpu, ctor, threads>>

-----------------------------------------------------------------------------
(* The partition model, from the spec (4.1): one flattened partition per   *)
(* device, or one per host partition that has no device, host 0's first.   *)

HostIds == 0 .. Len(topo) - 1

Flattened ==
  FlattenSeq([k \in 1..Len(topo) |->
                IF topo[k] = 0 THEN << [host |-> k - 1, device |-> FALSE] >>
                ELSE [j \in 1..topo[k] |-> [host |-> k - 1, device |-> TRUE]]])

PartitionIds == 0 .. Len(Flattened) - 1
HostOf(p)    == Flattened[p + 1].host
HasDevice(p) == Flattened[p + 1].device
DeviceCount  == Cardinality({p \in PartitionIds : HasDevice(p)})

\* std::vector::at(i); InRange(v, i) is false where at() throws out_of_range.
At(v, i)      == v[i + 1]
InRange(v, i) == i < Len(v)

-----------------------------------------------------------------------------
(* The constructor, one action per loop.                                   *)

\* m_sys_runnable, one RunnableResources per host partition, and one
\* PartitionResourceBase per flattened partition paired with its host's.
BuildRunnable ==
  /\ pc = "runnable"
  /\ m_runnable' = [k \in 1..Len(topo) |-> k - 1]
  /\ base' = [k \in 1..Len(Flattened) |-> [pid |-> k - 1, runnable |-> HostOf(k - 1)]]
  /\ pc' = "ucx"
  /\ UNCHANGED <<tls_next, m_ucx, m_host, m_device, m_network, m_partitions>>

\* One UcxResources per base when the server is enabled, else nullopt.
BuildUcx ==
  /\ pc = "ucx"
  /\ m_ucx' = [k \in DOMAIN base |->
                 IF network_enabled THEN [pid |-> base[k].pid, host |-> HostOf(base[k].pid)]
                 ELSE None]
  /\ pc' = "host"
  /\ UNCHANGED <<tls_next, m_runnable, base, m_host, m_device, m_network, m_partitions>>

(* Mutant: the builder filter compares the partition id with the host id. *)
UcxOnHost_by_pid(h) == {m_ucx[k] : k \in {k \in DOMAIN m_ucx : m_ucx[k] # None /\ m_ucx[k].pid = h}}

\* The UCX resources whose partition lives on host partition h.
UcxOnHost(h) == {m_ucx[k] : k \in {k \in DOMAIN m_ucx : m_ucx[k] # None /\ m_ucx[k].host = h}}

\* One HostResources per host partition, its registration-callback builder
\* filled by every UcxResources of that host.
BuildHost ==
  /\ pc = "host"
  /\ m_host' = [k \in 1..Len(topo) |->
                  [runnable |-> At(m_runnable, k - 1),
                   cache    |-> {u.pid : u \in UcxOnHost(k - 1)}]]
  /\ pc' = "device"
  /\ UNCHANGED <<tls_next, m_runnable, base, m_ucx, m_device, m_network, m_partitions>>

\* One optional DeviceResources per base, registered with m_ucx.at(pid);
\* a failing DCHECK_LT (in a debug build) or at() ends the construction.
DeviceFails(pid) ==
  /\ HasDevice(pid)
  /\ \/ debug_build /\ ~(pid < DeviceCount)
     \/ ~InRange(m_ucx, pid)

BuildDevice ==
  /\ pc = "device"
  /\ IF \E k \in DOMAIN base : DeviceFails(base[k].pid)
       THEN pc' = "failed" /\ UNCHANGED m_device
       ELSE /\ m_device' = [k \in DOMAIN base |->
                              IF HasDevice(base[k].pid)
                                THEN [pid |-> base[k].pid, ucx |-> At(m_ucx, base[k].pid)]
                                ELSE None]
            /\ pc' = "network"
  /\ UNCHANGED <<tls_next, m_runnable, base, m_ucx, m_host, m_network, m_partitions>>

\* The NetworkResources construction is commented out: both branches
\* emplace nullopt.
BuildNetwork ==
  /\ pc = "network"
  /\ m_network' = [k \in DOMAIN base |-> None]
  /\ pc' = "partitions"
  /\ UNCHANGED <<tls_next, m_runnable, base, m_ucx, m_host, m_device, m_partitions>>

PartitionFails(i) ==
  ~(InRange(m_host, HostOf(i)) /\ InRange(m_device, i) /\ InRange(m_ucx, i))

(* Mutant: m_device indexed by the host partition id.                     *)
BuildPartitions_device_by_host ==
  /\ pc = "partitions"
  /\ IF \E i \in PartitionIds : PartitionFails(i)
       THEN pc' = "failed" /\ UNCHANGED m_partitions
       ELSE /\ m_partitions' = [k \in 1..Len(Flattened) |->
                                  [pid      |-> k - 1,
                                   runnable |-> At(m_runnable, HostOf(k - 1)),
                                   host     |-> At(m_host, HostOf(k - 1)),
                                   device   |-> At(m_device, HostOf(k - 1)),
                                   ucx      |-> At(m_ucx, k - 1)]]
            /\ pc' = "tls"
  /\ UNCHANGED <<tls_next, m_runnable, base, m_ucx, m_host, m_device, m_network>>

\* PartitionResources i from m_runnable/m_host at its host and m_device/m_ucx at i.

BuildPartitions ==
  /\ pc = "partitions"
  /\ IF \E i \in PartitionIds : PartitionFails(i)
       THEN pc' = "failed" /\ UNCHANGED m_partitions
       ELSE /\ m_partitions' = [k \in 1..Len(Flattened) |->
                                  [pid      |-> k - 1,
                                   runnable |-> At(m_runnable, HostOf(k - 1)),
                                   host     |-> At(m_host, HostOf(k - 1)),
                                   device   |-> At(m_device, k - 1),
                                   ucx      |-> At(m_ucx, k - 1)]]
            /\ pc' = "tls"
  /\ UNCHANGED <<tls_next, m_runnable, base, m_ucx, m_host, m_device, m_network>>

\* register_thread_local_initializer(partition.host().cpu_set(), ...) for one
\* partition: queued on every running thread of that CPU set and kept for
\* threads started later.
RegisterInitializer ==
  LET i == tls_next
      h == HostOf(m_partitions[i + 1].pid)
  IN /\ pc = "tls"
     /\ initializers' = [initializers EXCEPT ![h] = @ \cup {i}]
     /\ pending' = [t \in Threads |->
                      IF started[t] /\ cpu[t] = h THEN pending[t] \cup {i} ELSE pending[t]]
     /\ tls_next' = i + 1
     /\ pc' = IF i + 1 = Len(m_partitions) THEN "done" ELSE "tls"
     /\ UNCHANGED <<m_runnable, base, m_ucx, m_host, m_device, m_network, m_partitions>>
     /\ UNCHANGED <<started, m_thread_resources, m_thread_partition, last_result>>

Constructor ==
  \/ BuildRunnable \/ BuildUcx \/ BuildHost \/ BuildDevice
  \/ BuildNetwork \/ BuildPartitions

-----------------------------------------------------------------------------
(* The runtime's threads.                                                  *)

(* Mutant: a thread started later does not run earlier initializers.     *)
StartThread_no_replay(t) ==
  /\ cpu[t] # Foreign /\ ~started[t]
  /\ started' = [started EXCEPT ![t] = TRUE]
  /\ pending' = [pending EXCEPT ![t] = {}]
  /\ UNCHANGED <<m_thread_resources, m_thread_partition, last_result>>

\* ThreadingResources starts a thread on its CPU set; the initializers
\* registered so far run on it.
StartThread(t) ==
  /\ cpu[t] # Foreign /\ ~started[t]
  /\ started' = [started EXCEPT ![t] = TRUE]
  /\ pending' = [pending EXCEPT ![t] = initializers[cpu[t]]]
  /\ UNCHANGED <<m_thread_resources, m_thread_partition, last_result>>

(* Mutant: the initializer sets the partition whatever the placement.     *)
RunInitializer_unguarded(t, i) ==
  /\ i \in pending[t]
  /\ pending' = [pending EXCEPT ![t] = @ \ {i}]
  /\ m_thread_resources' = [m_thread_resources EXCEPT ![t] = TRUE]
  /\ m_thread_partition' = [m_thread_partition EXCEPT ![t] = i]
  /\ UNCHANGED <<started, last_result>>

(* Mutant: the initializer captures the next partition (off by one).      *)
RunInitializer_next(t, i) ==
  /\ i \in pending[t]
  /\ pending' = [pending EXCEPT ![t] = @ \ {i}]
  /\ m_thread_resources' = [m_thread_resources EXCEPT ![t] = TRUE]
  /\ m_thread_partition' = IF strategy = Dedicated
                             THEN [m_thread_partition EXCEPT ![t] = i + 1]
                             ELSE m_thread_partition
  /\ UNCHANGED <<started, last_result>>

\* The initializer lambda of partition i, run on thread t.
RunInitializer(t, i) ==
  /\ i \in pending[t]
  /\ pending' = [pending EXCEPT ![t] = @ \ {i}]
  /\ m_thread_resources' = [m_thread_resources EXCEPT ![t] = TRUE]
  /\ m_thread_partition' = IF strategy = Dedicated
                             THEN [m_thread_partition EXCEPT ![t] = i]
                             ELSE m_thread_partition
  /\ UNCHANGED <<started, last_result>>

\* SystemResources::get_resources()
get_resources(t) ==
  /\ last_result' = [last_result EXCEPT ![t] =
                       IF m_thread_resources[t] THEN [kind |-> "ok", pid |-> None]
                       ELSE [kind |-> "not_runtime_thread", pid |-> None]]
  /\ UNCHANGED <<started, pending, m_thread_resources, m_thread_partition>>

\* SystemResources::get_partition()
get_partition(t) ==
  /\ last_result' = [last_result EXCEPT ![t] =
       CASE m_thread_partition[t] # None -> [kind |-> "ok", pid |-> m_thread_partition[t]]
         [] ~m_thread_resources[t]       -> [kind |-> "not_runtime_thread", pid |-> None]
         [] strategy = Shared            -> [kind |-> "partition_query_disabled", pid |-> None]
         [] OTHER                        -> [kind |-> "not_runtime_thread", pid |-> None]]
  /\ UNCHANGED <<started, pending, m_thread_resources, m_thread_partition>>

Thread(t) ==
  \/ StartThread(t) \/ \E i \in pending[t] : RunInitializer(t, i)
  \/ get_resources(t) \/ get_partition(t)

-----------------------------------------------------------------------------

\* Dedicated placement gives each host partition at most one partition
\* (spec glossary: one thread : one partition).
StrategiesFor(tp) ==
  IF \A k \in 1..Len(tp) : tp[k] <= 1 THEN {Dedicated, Shared} ELSE {Shared}

Init ==
  /\ topo \in Topologies
  /\ network_enabled \in BOOLEAN
  /\ strategy \in StrategiesFor(topo)
  /\ debug_build \in BOOLEAN
  /\ pc = "runnable" /\ tls_next = 0
  /\ m_runnable = << >> /\ base = << >> /\ m_ucx = << >> /\ m_host = << >>
  /\ m_device = << >> /\ m_network = << >> /\ m_partitions = << >>
  /\ initializers = [h \in HostIds |-> {}]
  /\ cpu \in [Threads -> HostIds \cup {Foreign}]
  /\ started = [t \in Threads |-> FALSE]
  /\ pending = [t \in Threads |-> {}]
  /\ m_thread_resources = [t \in Threads |-> FALSE]
  /\ m_thread_partition = [t \in Threads |-> None]
  /\ last_result = [t \in Threads |-> [kind |-> "none", pid |-> None]]

ConstructorStep ==
  /\ Constructor
  /\ UNCHANGED <<topo, network_enabled, strategy, debug_build, initializers, cpu, threads>>

RegisterStep ==
  /\ RegisterInitializer
  /\ UNCHANGED <<topo, network_enabled, strategy, debug_build, cpu>>

ThreadStep(t) ==
  /\ Thread(t)
  /\ UNCHANGED <<topo, network_enabled, strategy, debug_build, initializers, cpu, ctor>>

Next == ConstructorStep \/ RegisterStep \/ \E t \in Threads : ThreadStep(t)

\* The constructor runs to completion on its thread, and a fiber queue
\* runs every task queued on it.
Fairness ==
  /\ WF_vars(ConstructorStep) /\ WF_vars(RegisterStep)
  /\ \A t \in Threads : WF_vars(\E i \in pending[t] : RunInitializer(t, i) /\ UNCHANGED <<topo, network_enabled, strategy, debug_build, initializers, cpu, ctor>>)

Spec == Init /\ [][Next]_vars /\ Fairness

-----------------------------------------------------------------------------
(* Properties.                                                             *)

Results == {"none", "ok", "not_runtime_thread", "partition_query_disabled"}

TypeOK ==
  /\ pc \in {"runnable", "ucx", "host", "device", "network", "partitions", "tls", "done", "failed"}
  /\ debug_build \in BOOLEAN
  /\ tls_next \in 0 .. Len(Flattened)
  /\ initializers \in [HostIds -> SUBSET PartitionIds]
  /\ cpu \in [Threads -> HostIds \cup {Foreign}]
  /\ started \in [Threads -> BOOLEAN]
  /\ pending \in [Threads -> SUBSET PartitionIds]
  /\ m_thread_resources \in [Threads -> BOOLEAN]
  /\ m_thread_partition \in [Threads -> PartitionIds \cup {None}]
  /\ \A t \in Threads : last_result[t].kind \in Results

Assembled == pc \in {"tls", "done"}

\* Every PartitionResources i, assembled from four parallel vectors, holds
\* the runnable and host resources of i's own host partition, a device
\* resource exactly when i has a device, a UCX resource exactly when the
\* server is enabled, and both of those built for partition i, the device
\* registered with i's UCX resources (the constructor's index alignment).
PartitionsAligned ==
  Assembled =>
    /\ Len(m_partitions) = Len(Flattened)
    /\ \A k \in 1..Len(m_partitions) :
         LET r == m_partitions[k]  p == k - 1 IN
         /\ r.pid = p /\ r.runnable = HostOf(p) /\ r.host.runnable = HostOf(p)
         /\ (r.device # None) = HasDevice(p)
         /\ (r.ucx # None) = network_enabled
         /\ r.device # None => r.device.pid = p /\ r.device.ucx = r.ucx
         /\ r.ucx # None => r.ucx.pid = p

\* The registration cache of host partition h's memory resource reaches the
\* UCX worker of every flattened partition on h and of no other partition
\* (spec scenario D), so host buffers are registered with every co-resident
\* worker.
RegistrationCachePerHost ==
  Assembled =>
    \A k \in 1..Len(m_host) :
      m_host[k].cache = IF network_enabled
                          THEN {p \in PartitionIds : HostOf(p) = k - 1}
                          ELSE {}

\* A thread's current partition is set only under Dedicated placement, only
\* once the partition is assembled, and only to a partition of the host
\* partition whose CPU set the thread runs on; get_partition() answers with
\* such a partition, and refuses on policy grounds only on a runtime thread
\* under Shared placement.
ThreadBindingSound ==
  /\ \A t \in Threads : m_thread_partition[t] # None =>
        /\ strategy = Dedicated /\ Assembled
        /\ HostOf(m_thread_partition[t]) = cpu[t]
  /\ \A t \in Threads : last_result[t].kind = "ok" /\ last_result[t].pid # None =>
        /\ strategy = Dedicated /\ HostOf(last_result[t].pid) = cpu[t]
  /\ \A t \in Threads : last_result[t].kind = "partition_query_disabled" =>
        strategy = Shared /\ cpu[t] # Foreign

\* Every runtime thread that starts is eventually bound to the runtime,
\* whether it started before or after the initializers were registered,
\* unless the construction failed.
RuntimeThreadsBound ==
  \A t \in Threads : (started[t] /\ cpu[t] # Foreign) ~> (m_thread_resources[t] \/ pc = "failed")

\* A SystemResources is constructed for every topology the partition model
\* can describe (spec 4.1: one partition per device, or per device-less
\* host partition).
ConstructionCompletes == <>(pc = "done")

=============================================================================
