---------------------------- MODULE AsyncOperator ----------------------------
(***************************************************************************)
(* The flatmap_async operator of pymrc and its AsyncOperatorHandler        *)
(* (src/python/mrc/_pymrc/src/operators.cpp, lines 175-315).               *)
(*                                                                         *)
(* Two threads touch the handler:                                          *)
(*  - S, the thread that subscribes the source and runs its on_next,       *)
(*    on_error and on_completed lambdas (S holds the GIL only inside the   *)
(*    gil_scoped_acquire blocks);                                          *)
(*  - L, the thread running the asyncio loop: the handler's own            *)
(*    m_loop_thread, or (when the loop was already running) whatever       *)
(*    thread runs it.  L runs the __anext__ coroutines and the future's    *)
(*    done-callbacks, holding the GIL throughout a callback.               *)
(* Each source value v yields one async generator g = v; a chain of       *)
(* __anext__ futures, each re-submitted by the previous one's callback,    *)
(* drains it.  The GIL is a lock; S's process_async_generator is two       *)
(* critical sections because the interpreter may hand the GIL to L inside  *)
(* run_coroutine_threadsafe, before add_done_callback.                     *)
(***************************************************************************)
EXTENDS Naturals, FiniteSets, FiniteSetsExt

CONSTANTS
  N,        \* values the source emits (each one an async generator)
  MaxLen,   \* bound on the items an async generator yields
  None,
  \* the environments a run explores
  SourceEnds,         \* subset of {"completed", "error"}
  FnRaiseChoices,     \* subset of BOOLEAN: may flatmap_fn raise
  GenErrChoices,      \* subset of BOOLEAN: may a generator raise
  LoopRunningChoices, \* subset of BOOLEAN: was the loop already running
  LoopOnSourceChoices \* subset of BOOLEAN: is that loop run by S itself

ASSUME /\ N \in Nat \ {0} /\ MaxLen \in Nat
       /\ SourceEnds \subseteq {"completed", "error"} /\ SourceEnds # {}
       /\ \A c \in {FnRaiseChoices, GenErrChoices, LoopRunningChoices, LoopOnSourceChoices} : c \subseteq BOOLEAN /\ c # {}

Gens    == 1 .. N
Threads == {"S", "L"}

VARIABLES
  \* the environment, fixed at subscription
  len,          \* g -> items the generator yields
  fn_raises,    \* g -> flatmap_fn raises for this value
  gen_err,      \* g -> the generator raises after its items
  source_end,   \* "completed" | "error": how the source ends
  loop_running, \* asyncio's loop was already running (no m_loop_thread)
  loop_on_s,    \* ... on S's own thread: subscribed from inside the loop
  \* the handler and its threads
  s_pc, cur, s_call,
  gil,          \* "none" | "S" | "L"
  fut,          \* g -> "none" | "pending" | "done": the latest __anext__ future
  cbreg,        \* g -> the done-callback is registered on fut[g]
  pos,          \* g -> __anext__ calls issued (capped once exhausted)
  stage,        \* g -> where the done-callback running for g is
  runner,       \* g -> thread running that callback, or None
  m_outstanding,
  m_loop_ct,    \* the loop thread's cancellation flag
  l_alive,      \* m_loop_thread is running
  alive,        \* the handler object exists
  \* the downstream sink
  subscribed,   \* m_sink.is_subscribed()
  delivered,    \* items the sink accepted
  terminal,     \* "none" | "completed" | "error_ex" | "error_null"
  in_sink       \* thread -> sink method it is executing, or "none"

env    == <<len, fn_raises, gen_err, source_end, loop_running, loop_on_s>>
chains == <<fut, cbreg, pos, stage, runner>>
sink   == <<subscribed, delivered, terminal, in_sink>>
vars   == <<env, s_pc, cur, s_call, gil, chains, m_outstanding, m_loop_ct, l_alive, alive, sink>>

-----------------------------------------------------------------------------
(* The async generator: what __anext__ call number pos[g] produces.        *)

Outcome(g) ==
  IF pos[g] <= len[g] THEN "value"
  ELSE IF pos[g] = len[g] + 1 /\ gen_err[g] THEN "error"
  ELSE "stop"   \* exhausted (or already raised): StopAsyncIteration

(* Mutant: process_async_generator does not count the future.           *)
Submit_uncounted(g) ==
  /\ fut' = [fut EXCEPT ![g] = "pending"]
  /\ pos' = [pos EXCEPT ![g] = Min({@ + 1, len[g] + 2})]
  /\ UNCHANGED m_outstanding

\* __anext__(), run_coroutine_threadsafe(task, m_loop), m_outstanding++.
Submit(g) ==
  /\ fut' = [fut EXCEPT ![g] = "pending"]
  /\ pos' = [pos EXCEPT ![g] = Min({@ + 1, len[g] + 2})]
  /\ m_outstanding' = m_outstanding + 1

\* Entering a sink method; a terminal one unsubscribes the sink.
EnterSink(t, kind) ==
  /\ in_sink' = [in_sink EXCEPT ![t] = kind]
  /\ IF subscribed /\ kind # "next"
       THEN terminal' = kind /\ subscribed' = FALSE
       ELSE UNCHANGED <<terminal, subscribed>>

-----------------------------------------------------------------------------
(* The source thread S.                                                    *)

\* The source emits value cur (on_next lambda: flatmap_fn under the GIL, a
\* raise caught and printed), stops once the sink is unsubscribed, or ends
\* with on_completed / on_error.  The source is taken to call on_error
\* outside an active exception handler (an error it was handed, not one it
\* is catching), where std::current_exception() at line 306 is null.
emit ==
  /\ s_pc = "emit" /\ gil = "none"
  /\ CASE ~subscribed -> s_pc' = "destroy" /\ UNCHANGED s_call
       [] cur <= N /\ fn_raises[cur] -> s_pc' = "call_sink" /\ s_call' = "error_ex"
       [] cur <= N -> s_pc' = "submit" /\ UNCHANGED s_call
       [] source_end = "completed" -> s_pc' = "wait" /\ UNCHANGED s_call
       [] OTHER -> s_pc' = "call_sink" /\ s_call' = "error_null"
  /\ UNCHANGED <<env, cur, gil, chains, m_outstanding, m_loop_ct, l_alive, alive, sink>>

\* process_async_generator, first GIL section: submit the first __anext__.
process_async_generator_submit ==
  /\ s_pc = "submit" /\ gil = "none"
  /\ Submit(cur)
  /\ s_pc' = "register"
  /\ UNCHANGED <<env, cur, s_call, gil, cbreg, stage, runner, m_loop_ct, l_alive, alive, sink>>

\* add_done_callback: on a future already done the callback runs at once,
\* on S; otherwise it is registered for L.
process_async_generator_register ==
  /\ s_pc = "register" /\ gil = "none"
  /\ IF fut[cur] = "done"
       THEN /\ gil' = "S" /\ s_pc' = "inline"
            /\ stage' = [stage EXCEPT ![cur] = "start"]
            /\ runner' = [runner EXCEPT ![cur] = "S"]
            /\ UNCHANGED <<cur, cbreg>>
       ELSE /\ cbreg' = [cbreg EXCEPT ![cur] = TRUE]
            /\ s_pc' = "emit" /\ cur' = cur + 1
            /\ UNCHANGED <<gil, stage, runner>>
  /\ UNCHANGED <<env, s_call, fut, pos, m_outstanding, m_loop_ct, l_alive, alive, sink>>

\* wait_completed(): spin while m_outstanding > 0.
wait_completed ==
  /\ s_pc = "wait" /\ m_outstanding = 0
  /\ s_pc' = "call_sink" /\ s_call' = "completed"
  /\ UNCHANGED <<env, cur, gil, chains, m_outstanding, m_loop_ct, l_alive, alive, sink>>

\* sink.on_error (lines 300, 306) or sink.on_completed (311), without the GIL.
s_sink_enter ==
  /\ s_pc = "call_sink"
  /\ EnterSink("S", s_call)
  /\ s_pc' = "in_sink"
  /\ UNCHANGED <<env, cur, s_call, gil, chains, delivered, m_outstanding, m_loop_ct, l_alive, alive>>

\* The sink call returns, and with it the lambda and source.subscribe(),
\* so the handler's unique_ptr goes out of scope.
s_sink_exit ==
  /\ s_pc = "in_sink"
  /\ in_sink' = [in_sink EXCEPT !["S"] = "none"]
  /\ s_pc' = "destroy"
  /\ UNCHANGED <<env, cur, s_call, gil, chains, m_outstanding, m_loop_ct, l_alive, alive, subscribed, delivered, terminal>>

(* Mutant: the destructor signals the loop thread without joining it.   *)
destructor_no_join ==
  /\ s_pc = "destroy"
  /\ alive' = FALSE /\ s_pc' = "done"
  /\ m_loop_ct' = ~loop_running
  /\ UNCHANGED <<env, cur, s_call, gil, chains, m_outstanding, l_alive, sink>>

\* ~AsyncOperatorHandler(): with its own loop thread, set m_loop_ct and
\* join; with an externally running loop there is nothing to join.
destructor ==
  /\ s_pc = "destroy"
  /\ IF loop_running
       THEN alive' = FALSE /\ s_pc' = "done" /\ UNCHANGED m_loop_ct
       ELSE m_loop_ct' = TRUE /\ s_pc' = "join" /\ UNCHANGED alive
  /\ UNCHANGED <<env, cur, s_call, gil, chains, m_outstanding, l_alive, sink>>

join ==
  /\ s_pc = "join" /\ ~l_alive
  /\ alive' = FALSE /\ s_pc' = "done"
  /\ UNCHANGED <<env, cur, s_call, gil, chains, m_outstanding, m_loop_ct, l_alive, sink>>

-----------------------------------------------------------------------------
(* The loop thread L.                                                      *)

\* The loop runs the coroutine behind fut[g] to completion; the
\* concurrent future's set_result invokes a registered callback at once.
\* A loop run by S itself gets control back only when S has returned.
run_task(g) ==
  /\ l_alive \/ loop_running
  /\ loop_on_s => s_pc = "done"
  /\ gil = "none" /\ fut[g] = "pending"
  /\ fut' = [fut EXCEPT ![g] = "done"]
  /\ IF cbreg[g]
       THEN /\ gil' = "L" /\ cbreg' = [cbreg EXCEPT ![g] = FALSE]
            /\ stage' = [stage EXCEPT ![g] = "start"]
            /\ runner' = [runner EXCEPT ![g] = "L"]
       ELSE UNCHANGED <<gil, cbreg, stage, runner>>
  /\ UNCHANGED <<env, s_pc, cur, s_call, pos, m_outstanding, m_loop_ct, l_alive, alive, sink>>

\* Between iterations the thread checks m_loop_ct and exits.
loop_thread_exit ==
  /\ l_alive /\ m_loop_ct /\ gil # "L"
  /\ l_alive' = FALSE
  /\ UNCHANGED <<env, s_pc, cur, s_call, gil, chains, m_outstanding, m_loop_ct, alive, sink>>

-----------------------------------------------------------------------------
(* The done-callback of process_async_generator, run by runner[g] with    *)
(* the GIL held.                                                           *)

(* Mutant: StopAsyncIteration is skipped like a dropped value and the    *)
(* generator re-submitted.                                                 *)
callback_start_resubmits_on_stop(g) ==
  LET t == runner[g] IN
  /\ stage[g] = "start"
  /\ CASE ~subscribed \/ Outcome(g) = "stop" -> stage' = [stage EXCEPT ![g] = "resubmit"] /\ UNCHANGED <<in_sink, terminal, subscribed, delivered>>
       [] Outcome(g) = "value" ->
            /\ stage' = [stage EXCEPT ![g] = "next_exit"]
            /\ EnterSink(t, "next") /\ delivered' = delivered + 1
       [] OTHER ->
            /\ stage' = [stage EXCEPT ![g] = "err_exit"]
            /\ EnterSink(t, "error_ex") /\ UNCHANGED delivered
  /\ UNCHANGED <<env, s_pc, cur, s_call, gil, fut, cbreg, pos, runner, m_outstanding, m_loop_ct, l_alive, alive>>

\* Lines 231-252: when subscribed take the result: a value goes to
\* sink.on_next, StopAsyncIteration is dropped, another error goes to
\* sink.on_error; when not subscribed the result is never read.
callback_start(g) ==
  LET t == runner[g] IN
  /\ stage[g] = "start"
  /\ CASE ~subscribed -> stage' = [stage EXCEPT ![g] = "resubmit"] /\ UNCHANGED <<in_sink, terminal, subscribed, delivered>>
       [] Outcome(g) = "value" ->
            /\ stage' = [stage EXCEPT ![g] = "next_exit"]
            /\ EnterSink(t, "next") /\ delivered' = delivered + 1
       [] Outcome(g) = "stop" -> stage' = [stage EXCEPT ![g] = "dec"] /\ UNCHANGED <<in_sink, terminal, subscribed, delivered>>
       [] OTHER ->
            /\ stage' = [stage EXCEPT ![g] = "err_exit"]
            /\ EnterSink(t, "error_ex") /\ UNCHANGED delivered
  /\ UNCHANGED <<env, s_pc, cur, s_call, gil, fut, cbreg, pos, runner, m_outstanding, m_loop_ct, l_alive, alive>>

(* Mutant: after on_next the generator is not re-submitted.             *)
callback_sink_exit_no_resubmit(g) ==
  /\ stage[g] \in {"next_exit", "err_exit"}
  /\ in_sink' = [in_sink EXCEPT ![runner[g]] = "none"]
  /\ stage' = [stage EXCEPT ![g] = "dec"]
  /\ UNCHANGED <<env, s_pc, cur, s_call, gil, fut, cbreg, pos, runner, m_outstanding, m_loop_ct, l_alive, alive, subscribed, delivered, terminal>>

\* The sink method returns.
callback_sink_exit(g) ==
  /\ stage[g] \in {"next_exit", "err_exit"}
  /\ in_sink' = [in_sink EXCEPT ![runner[g]] = "none"]
  /\ stage' = [stage EXCEPT ![g] = IF @ = "next_exit" THEN "resubmit" ELSE "dec"]
  /\ UNCHANGED <<env, s_pc, cur, s_call, gil, fut, cbreg, pos, runner, m_outstanding, m_loop_ct, l_alive, alive, subscribed, delivered, terminal>>

\* this->process_async_generator(asyncgen): the next __anext__ and its
\* callback; L cannot run it before registration, the GIL being held.
callback_resubmit(g) ==
  /\ stage[g] = "resubmit"
  /\ Submit(g)
  /\ cbreg' = [cbreg EXCEPT ![g] = TRUE]
  /\ stage' = [stage EXCEPT ![g] = "dec"]
  /\ UNCHANGED <<env, s_pc, cur, s_call, gil, runner, m_loop_ct, l_alive, alive, sink>>

\* m_outstanding--, the callback's last statement; the GIL is released
\* and an inline callback returns to S's on_next lambda.
callback_end(g) ==
  /\ stage[g] = "dec"
  /\ m_outstanding' = m_outstanding - 1
  /\ stage' = [stage EXCEPT ![g] = "none"]
  /\ runner' = [runner EXCEPT ![g] = None]
  /\ gil' = "none"
  /\ IF runner[g] = "S"
       THEN s_pc' = "emit" /\ cur' = cur + 1
       ELSE UNCHANGED <<s_pc, cur>>
  /\ UNCHANGED <<env, s_call, fut, cbreg, pos, m_loop_ct, l_alive, alive, sink>>

Callback(g) ==
  \/ callback_start(g) \/ callback_sink_exit(g) \/ callback_resubmit(g) \/ callback_end(g)

-----------------------------------------------------------------------------

Init ==
  /\ len \in [Gens -> 0 .. MaxLen]
  /\ fn_raises \in [Gens -> FnRaiseChoices]
  /\ gen_err \in [Gens -> GenErrChoices]
  /\ source_end \in SourceEnds
  /\ loop_running \in LoopRunningChoices
  /\ loop_on_s \in IF loop_running THEN LoopOnSourceChoices ELSE {FALSE}
  /\ s_pc = "emit" /\ cur = 1 /\ s_call = "none"
  /\ gil = "none"
  /\ fut = [g \in Gens |-> "none"] /\ cbreg = [g \in Gens |-> FALSE]
  /\ pos = [g \in Gens |-> 0]
  /\ stage = [g \in Gens |-> "none"] /\ runner = [g \in Gens |-> None]
  /\ m_outstanding = 0 /\ m_loop_ct = FALSE
  /\ l_alive = ~loop_running
  /\ alive = TRUE
  /\ subscribed = TRUE /\ delivered = 0 /\ terminal = "none"
  /\ in_sink = [t \in Threads |-> "none"]

SourceThread ==
  \/ emit \/ process_async_generator_submit \/ process_async_generator_register
  \/ wait_completed \/ s_sink_enter \/ s_sink_exit \/ destructor \/ join
  \/ \E g \in Gens : runner[g] = "S" /\ Callback(g)

LoopThread(g) == run_task(g) \/ (runner[g] = "L" /\ Callback(g))

\* S has returned from source.subscribe() and the loop has nothing to do.
Finished == s_pc = "done" /\ UNCHANGED vars

Next ==
  \/ SourceThread
  \/ \E g \in Gens : LoopThread(g)
  \/ loop_thread_exit
  \/ Finished

\* Both threads keep running.  S waits for the GIL, which the interpreter
\* hands over at its switch interval while L keeps re-taking it, so S's
\* steps are strongly fair; the asyncio loop runs ready tasks and
\* callbacks in FIFO order, so each chain's steps are weakly fair.
Fairness ==
  /\ SF_vars(SourceThread)
  /\ \A g \in Gens : WF_vars(LoopThread(g))
  /\ WF_vars(loop_thread_exit)

Spec == Init /\ [][Next]_vars /\ Fairness

-----------------------------------------------------------------------------
(* Properties.                                                             *)

TypeOK ==
  /\ s_pc \in {"emit", "submit", "register", "inline", "wait", "call_sink", "in_sink", "destroy", "join", "done"}
  /\ cur \in 1 .. N + 1
  /\ gil \in {"none", "S", "L"}
  /\ fut \in [Gens -> {"none", "pending", "done"}]
  /\ cbreg \in [Gens -> BOOLEAN]
  /\ \A g \in Gens : pos[g] \in 0 .. len[g] + 2
  /\ stage \in [Gens -> {"none", "start", "next_exit", "err_exit", "resubmit", "dec"}]
  /\ runner \in [Gens -> Threads \cup {None}]
  /\ m_outstanding \in 0 .. 2 * N
  /\ delivered \in Nat
  /\ terminal \in {"none", "completed", "error_ex", "error_null"}
  /\ in_sink \in [Threads -> {"none", "next", "error_ex", "error_null", "completed"}]

\* Items the generators of all source values yield.
AllItems == MapThenSumSet(LAMBDA g : len[g], Gens)

\* The sink is completed only after it received every item of every
\* generator: wait_completed() returns only when m_outstanding is 0, which
\* the callback's ordering (on_next, re-submit with ++, then --) keeps
\* from happening while a chain still has items.
CompletedAfterAllItems ==
  terminal = "completed" => delivered = AllItems

\* The error that reaches the sink is a real exception: the source's
\* on_error lambda "forwards" its argument (operators.cpp:303-307).
ErrorForwarded == terminal # "error_null"

\* The sink's methods are never executing on S and L at the same time
\* (the observer contract of rxcpp subscribers): L calls on_next under the
\* GIL while S may call on_error without it.
SinkCallsSerialized == ~(in_sink["S"] # "none" /\ in_sink["L"] # "none")

\* No done-callback, which dereferences the handler through its captured
\* this, runs after ~AsyncOperatorHandler returned.
NoCallbackAfterDestroy == ~alive => \A g \in Gens : runner[g] = None

\* The subscription eventually returns: S does not spin forever in
\* wait_completed() or wait for the loop thread in the destructor.
Terminates == <>(s_pc = "done")

=============================================================================
