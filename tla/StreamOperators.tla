--------------------------- MODULE StreamOperators ---------------------------
(***************************************************************************)
(* Chains of the synchronous pymrc operators of OperatorsProxy             *)
(* (src/python/mrc/_pymrc/src/operators.cpp): build, filter, flatten, map, *)
(* on_completed, pairwise and to_list.  Stage k is the observer operator   *)
(* op[k] subscribes to stage k - 1 (stage 1 to the source); its callbacks  *)
(* (on_next, on_error, on_completed) are the handlers below, each giving   *)
(* the events it passes to its sink and its new state.  rxcpp calls them   *)
(* synchronously on the source's thread, so one source event runs through  *)
(* the whole chain in one step.                                            *)
(*                                                                         *)
(* Subscriptions.  A subscriber drops calls once its lifetime is           *)
(* unsubscribed, and a terminal event unsubscribes it after the observer  *)
(* returns.  Every operator subscribes to its upstream with its sink's    *)
(* lifetime (rxcpp's filter and map, to_list's get_subscription(),         *)
(* flatten's source.subscribe(sink, ...)), except on_completed, whose      *)
(* make_observer_dynamic gets a lifetime of its own (line 335).  build_fn *)
(* is taken to subscribe the output it is given.                           *)
(*                                                                         *)
(* Python objects are model values (not iterable) or [elems |-> xs]       *)
(* (a list or tuple): py::list(obj) converts any iterable, so only a      *)
(* non-iterable raises.  filter_fn and map_fn may raise on some values.   *)
(***************************************************************************)
EXTENDS Naturals, Sequences, SequencesExt

CONSTANTS
  Values,          \* Python objects flowing through the chain
  MaxItems,        \* bound on the items the source emits
  None,
  Chains           \* the chains (sequences of operators) a run explores

VARIABLES
  op, map_fn, keep, raises, fin, build_raises,  \* the stages and their Python callables
  started,     \* the chain has been subscribed
  src,         \* the source has been subscribed (no build_fn raised)
  input,       \* the source's events
  i,           \* index of the source's next event
  out,         \* events passed to the output
  closed,      \* the lifetimes that have been unsubscribed
  stage        \* stage[k]: to_list's remembered and pairwise's previous item

fns  == <<op, map_fn, keep, raises, fin, build_raises, input>>
vars == <<fns, started, src, i, out, closed, stage>>

Ref == INSTANCE StreamReference WITH consumed <- SubSeq(input, 1, i - 1)

N == Len(op)
SourceError == [k |-> "error", v |-> "source"]

\* The lifetime of the subscriber that receives stage k - 1's events (the
\* source's for k = 1; the output's, numbered N, for k = N + 1).
RECURSIVE Life(_)
Life(k) == IF k > N THEN N ELSE IF op[k] = "on_completed" THEN k - 1 ELSE Life(k + 1)

\* A handler's result: the events passed to the sink, the stage's new state.
R(es, st) == [es |-> es, st |-> st]

-----------------------------------------------------------------------------
(* The callbacks.  e is the event received, st the stage's state.          *)

\* filter: filter_fn(data_object.copy_obj()) under the GIL; rxcpp's filter
\* passes the item when it returns True, and an error_already_set the call
\* raises to the sink's on_error.
filter_on_next(k, e, st) ==
  R(CASE e.v \in raises[k] -> << Ref!PythonError >>
      [] e.v \in keep[k]   -> << e >>
      [] OTHER             -> << >>, st)

\* map: map_fn(data_object) under the GIL; rxcpp's map passes what it
\* raises to the sink's on_error.
map_on_next(k, e, st) ==
  R(IF e.v \in raises[k] THEN << Ref!PythonError >> ELSE << Ref!Next_(map_fn[k][e.v]) >>, st)

\* flatten: convert the item to a py::list under the GIL (a non-iterable
\* raises error_already_set, caught: sink.on_error); the sink shares the
\* lifetime the item arrived on, so is_subscribed() holds: release the GIL
\* and pass each element.
flatten_on_next(k, e, st) ==
  R(IF Ref!Iterable(e.v) THEN Ref!AsNext(e.v.elems) ELSE << Ref!PythonError >>, st)

\* on_completed's observer, and the output build_fn subscribed, forward
\* items unchanged.
forward_next(k, e, st) == R(<< e >>, st)

\* pairwise: items wrapped in PyObjectHolder; rxcpp's pairwise emits the
\* previous and the current item, converted to a Python tuple.
pairwise_on_next(k, e, st) ==
  R(IF st.prev = None THEN << >> ELSE << Ref!Next_(Ref!Iter(<<st.prev, e.v>>)) >>,
    [st EXCEPT !.prev = e.v])

\* to_list_observer::on_next: remembered.emplace_back(v).
to_list_on_next(k, e, st) == R(<< >>, [st EXCEPT !.remembered = Append(@, e.v)])

\* Every operator forwards an error (to_list drops what it remembered), and
\* build, filter, map, flatten and pairwise forward completion.
forward_terminal(k, e, st) == R(<< e >>, st)

\* on_completed: call finally_fn; pass a result that is not None, then
\* complete.  finally_fn is taken to return: an exception from it is not
\* caught and would unwind out of the observer (not modelled).
on_completed_on_completed(k, e, st) ==
  R((IF fin[k] # None THEN << Ref!Next_(fin[k]) >> ELSE << >>) \o << Ref!Completed >>, st)

\* to_list_observer::on_completed: the remembered list if not empty, then
\* completion; the map after it turns the vector into a py::list.
to_list_on_completed(k, e, st) ==
  R((IF st.remembered # << >> THEN << Ref!Next_(Ref!Iter(st.remembered)) >> ELSE << >>)
      \o << Ref!Completed >>, st)

\* Stage k's observer receives e.
OnEvent(k, e, st) ==
  CASE e.k = "next" /\ op[k] = "filter"   -> filter_on_next(k, e, st)
    [] e.k = "next" /\ op[k] = "map"      -> map_on_next(k, e, st)
    [] e.k = "next" /\ op[k] = "flatten"  -> flatten_on_next(k, e, st)
    [] e.k = "next" /\ op[k] = "pairwise" -> pairwise_on_next(k, e, st)
    [] e.k = "next" /\ op[k] = "to_list"  -> to_list_on_next(k, e, st)
    [] e.k = "next"                       -> forward_next(k, e, st)
    [] e.k = "completed" /\ op[k] = "on_completed" -> on_completed_on_completed(k, e, st)
    [] e.k = "completed" /\ op[k] = "to_list"      -> to_list_on_completed(k, e, st)
    [] OTHER                              -> forward_terminal(k, e, st)

(* Mutant: events reach a subscriber whose lifetime was unsubscribed.     *)
RECURSIVE FeedUnchecked(_, _, _)
FeedUnchecked(k, es, S) ==
  IF es = << >> THEN S
  ELSE LET e  == Head(es)
           S1 == IF k > N THEN [S EXCEPT !.out = Append(@, e)]
                 ELSE LET h == OnEvent(k, e, S.st[k])
                      IN FeedUnchecked(k + 1, h.es, [S EXCEPT !.st[k] = h.st])
           S2 == IF e.k # "next" THEN [S1 EXCEPT !.closed = @ \cup {Life(k)}] ELSE S1
       IN FeedUnchecked(k, Tail(es), S2)

\* rxcpp's subscriber: the events es, in order, reach the subscriber of
\* lifetime Life(k); it drops them once that lifetime is unsubscribed, else
\* calls stage k's observer (or the output) and, after a terminal event,
\* unsubscribes.  S is [st, closed, out].
RECURSIVE Feed(_, _, _)
Feed(k, es, S) ==
  IF es = << >> THEN S
  ELSE LET e  == Head(es)
           L  == Life(k)
           S1 == IF L \in S.closed THEN S
                 ELSE IF k > N THEN [S EXCEPT !.out = Append(@, e)]
                 ELSE LET h == OnEvent(k, e, S.st[k])
                      IN Feed(k + 1, h.es, [S EXCEPT !.st[k] = h.st])
           S2 == IF e.k # "next" THEN [S1 EXCEPT !.closed = @ \cup {L}] ELSE S1
       IN Feed(k, Tail(es), S2)

Now == [st |-> stage, closed |-> closed, out |-> out]
Set(S) == stage' = S.st /\ closed' = S.closed /\ out' = S.out

-----------------------------------------------------------------------------
(* The actions.                                                            *)

\* The chain's observable is subscribed: stage N's, which subscribes stage
\* N - 1's, and so on to the source.  build's create lambda calls
\* build_fn(source, output) under the GIL; if it raises, the lambda logs and
\* rethrows, rxcpp's subscribe passes the exception to output.on_error, and
\* nothing upstream of that stage is subscribed.
subscribe ==
  /\ ~started
  /\ started' = TRUE
  /\ LET b == {k \in 1 .. N : op[k] = "build" /\ build_raises[k]}
     IN IF b = {}
          THEN src' = TRUE /\ UNCHANGED <<out, closed, stage>>
          ELSE src' = FALSE /\ Set(Feed(Max(b) + 1, << Ref!PythonError >>, Now))
  /\ UNCHANGED <<fns, i>>

\* The environment: the source (not in the tree) emits its next event to
\* stage 1's subscriber while that subscriber is subscribed, and the event
\* runs through the chain.
source_emits ==
  /\ started /\ src /\ Life(1) \notin closed
  /\ i <= Len(input)
  /\ i' = i + 1
  /\ Set(Feed(1, << input[i] >>, Now))
  /\ UNCHANGED <<fns, started, src>>

-----------------------------------------------------------------------------

Iterables == {Ref!Iter(xs) : xs \in SeqOf(Values, 2)}

\* What stage 1 may receive: flatten's items are Python objects, iterable or not.
ItemsOf(o) == IF o = "flatten" THEN Values \cup Iterables ELSE Values

Terminals == {<< >>, << Ref!Completed >>, << SourceError >>}

\* Per stage: the Python callables its operator takes.
Init ==
  /\ op \in Chains
  /\ map_fn \in [1 .. N -> [Values -> Values]] /\ \A k \in 1 .. N : op[k] # "map" => map_fn[k] = [x \in Values |-> x]
  /\ keep \in [1 .. N -> SUBSET Values] /\ \A k \in 1 .. N : op[k] # "filter" => keep[k] = {}
  /\ raises \in [1 .. N -> SUBSET Values] /\ \A k \in 1 .. N : op[k] \notin {"filter", "map"} => raises[k] = {}
  /\ build_raises \in [1 .. N -> BOOLEAN] /\ \A k \in 1 .. N : op[k] # "build" => ~build_raises[k]
  /\ fin \in [1 .. N -> Values \cup {None}] /\ \A k \in 1 .. N : op[k] # "on_completed" => fin[k] = None
  /\ input \in {xs \o t : xs \in {[j \in DOMAIN s |-> Ref!Next_(s[j])] : s \in SeqOf(ItemsOf(op[1]), MaxItems)}, t \in Terminals}
  /\ started = FALSE /\ src = FALSE /\ i = 1 /\ out = << >> /\ closed = {}
  /\ stage = [k \in 1 .. N |-> [remembered |-> << >>, prev |-> None]]

\* The source has nothing more to emit, or may not emit.
Finished ==
  /\ started
  /\ i > Len(input) \/ ~src \/ Life(1) \in closed
  /\ UNCHANGED vars

Next == subscribe \/ source_emits \/ Finished

Spec == Init /\ [][Next]_vars

-----------------------------------------------------------------------------
(* Properties.                                                             *)

\* After every source event, the chain has passed to its output exactly what
\* the reference definitions of its operators, composed, give for the
\* events consumed so far: items in order, pairs of neighbours, the list
\* only at completion and only when not empty, finally_fn's result just
\* before completion, exactly one terminal event, last, and nothing a stage
\* emits after a later stage has ended (its calls reach an unsubscribed
\* subscriber), even where on_completed keeps consuming the source.
RefinesStreamReference == Ref!Spec

=============================================================================
