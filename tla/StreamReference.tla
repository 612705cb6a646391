--------------------------- MODULE StreamReference ---------------------------
(***************************************************************************)
(* What a chain of synchronous pymrc operators emits, as a function of the *)
(* source events it has consumed so far: a declarative reference           *)
(* definition of build, filter, map, flatten, on_completed, pairwise and   *)
(* to_list, composed stage after stage.  An event is                       *)
(* [k |-> "next" | "error" | "completed", v |-> payload].  A Python object *)
(* is a value of Values (not iterable) or an iterable [elems |-> xs]      *)
(* (a list or tuple).  StreamOperators is checked to implement this       *)
(* specification: once subscribed, and after every source event, its      *)
(* output is exactly Output(consumed).                                     *)
(***************************************************************************)
EXTENDS Naturals, Sequences, SequencesExt

CONSTANTS Values, None

VARIABLES
  op,        \* the chain: op[k] is the operator of stage k
  map_fn,    \* map_fn[k]: stage k's map function, value -> value
  keep,      \* keep[k]: the values stage k's filter_fn returns True for
  raises,    \* raises[k]: the values stage k's Python function raises on
  fin,       \* fin[k]: what stage k's finally_fn returns (a value or None)
  build_raises, \* build_raises[k]: stage k's build_fn raises instead of subscribing
  started,   \* the chain has been subscribed
  input,     \* the events the source will emit
  consumed,  \* the events it has emitted so far
  out        \* what the last stage has passed to the output

vars == <<op, map_fn, keep, raises, fin, build_raises, started, input, consumed, out>>

Next_(x)      == [k |-> "next", v |-> x]
Completed     == [k |-> "completed", v |-> None]
IsNext(e)     == e.k = "next"
Items(s)      == [j \in 1 .. SelectLastInSeq(s, IsNext) |-> s[j].v]
\* The terminal event of s, as a (possibly empty) sequence.
Terminal(s)   == SelectSeq(s, LAMBDA e : e.k # "next")
AsNext(xs)    == [j \in DOMAIN xs |-> Next_(xs[j])]
PythonError   == [k |-> "error", v |-> "python"]
Iter(xs)      == [elems |-> xs]
Iterable(x)   == x \notin Values

\* The items up to the first one a Python call fails on, and the event that
\* ends the output: that call's error, or else the source's terminal event.
Until(s, Fails(_)) ==
  LET xs  == Items(s)
      bad == SelectInSeq(xs, Fails)
  IN IF bad = 0 THEN [items |-> xs, term |-> Terminal(s)]
                ELSE [items |-> SubSeq(xs, 1, bad - 1), term |-> << PythonError >>]

\* flatten: the elements of the iterables are emitted in order, and the
\* first item that is not iterable raises a Python error that ends the stream.
FlattenRef(s) ==
  LET u == Until(s, LAMBDA x : ~Iterable(x))
  IN AsNext(FlattenSeq([j \in DOMAIN u.items |-> u.items[j].elems])) \o u.term

\* filter and map: the first item the Python function raises on ends the
\* stream with that error.
FilterRef(k, s) ==
  LET u == Until(s, LAMBDA x : x \in raises[k])
  IN AsNext(SelectSeq(u.items, LAMBDA x : x \in keep[k])) \o u.term

MapRef(k, s) ==
  LET u == Until(s, LAMBDA x : x \in raises[k])
  IN AsNext([j \in DOMAIN u.items |-> map_fn[k][u.items[j]]]) \o u.term

\* to_list: nothing until the source ends; then the list, if not empty.
ToListRef(s) ==
  IF Terminal(s) = << Completed >>
    THEN (IF Items(s) = << >> THEN << >> ELSE << Next_(Iter(Items(s))) >>) \o << Completed >>
    ELSE Terminal(s)

\* on_completed: items pass; at completion finally_fn's non-None result.
OnCompletedRef(k, s) ==
  IF Terminal(s) = << Completed >> /\ fin[k] # None
    THEN AsNext(Items(s)) \o << Next_(fin[k]), Completed >>
    ELSE s

\* pairwise: each item with the one before it, as a tuple.
PairwiseRef(s) ==
  AsNext([j \in 1 .. Len(Items(s)) - 1 |-> Iter(<<Items(s)[j], Items(s)[j + 1]>>)]) \o Terminal(s)

\* build: the output subscribed to the source, or build_fn's error.
BuildRef(k, s) == IF build_raises[k] THEN << PythonError >> ELSE s

\* What stage k emits for the events s it has received.
Ref(k, s) ==
  CASE op[k] = "build"    -> BuildRef(k, s)
    [] op[k] = "filter"   -> FilterRef(k, s)
    [] op[k] = "map"      -> MapRef(k, s)
    [] op[k] = "flatten"  -> FlattenRef(s)
    [] op[k] = "on_completed" -> OnCompletedRef(k, s)
    [] op[k] = "pairwise" -> PairwiseRef(s)
    [] op[k] = "to_list"  -> ToListRef(s)

\* Stages k .. Len(op) applied in turn to s.
RECURSIVE Chain(_, _)
Chain(k, s) == IF k > Len(op) THEN s ELSE Chain(k + 1, Ref(k, s))

Output(s) == Chain(1, s)

Init ==
  /\ started = FALSE
  /\ consumed = << >>
  /\ out = << >>

\* The chain is subscribed, before the source emits anything.
Subscribe ==
  /\ ~started
  /\ started' = TRUE
  /\ out' = Output(consumed)
  /\ UNCHANGED <<op, map_fn, keep, raises, fin, build_raises, input, consumed>>

\* The source emits its next event and the chain's output catches up.
Step ==
  /\ started
  /\ Len(consumed) < Len(input)
  /\ consumed' = Append(consumed, input[Len(consumed) + 1])
  /\ out' = Output(consumed')
  /\ UNCHANGED <<op, map_fn, keep, raises, fin, build_raises, started, input>>

Spec == Init /\ [][Subscribe \/ Step]_vars

=============================================================================
