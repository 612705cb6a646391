---------------------------- MODULE TaggedService ----------------------------
(***************************************************************************)
(* The control-plane tag registry: srf::internal::control_plane::server::  *)
(* Tagged and TaggedService (src/src/internal/control_plane/server/        *)
(* tagged_service.hpp).  The header is in the source tree; the method      *)
(* bodies are not and are modelled from the spec (section 4.3).            *)
(*                                                                         *)
(* A tag is m_tag (from the process-wide Tagged::next()) in the upper bits *)
(* and the registry's std::uint16_t counter m_uid in the lower UidWidth    *)
(* bits.  Connected client instances register tags, drop them (possibly   *)
(* twice, or after the registry was replaced) and disconnect; the server   *)
(* drops an instance's tags on disconnect and may replace the registry.    *)
(***************************************************************************)
EXTENDS Naturals, Bags, BagsExt, FiniteSets, FiniteSetsExt

CONSTANTS
  Instances,          \* ClientInstance::instance_id_t values
  UidWidth,           \* width of m_uid in bits (16 in the code)
  MaxRegistries,      \* bound on TaggedService objects created
  MaxTagsPerRegistry  \* bound on register_instance_id calls per registry

ASSUME /\ UidWidth \in Nat \ {0}
       /\ MaxRegistries \in Nat \ {0}
       /\ MaxTagsPerRegistry \in Nat

UidSpan == 2 ^ UidWidth

VARIABLES
  next_tag_seed,    \* the static counter behind Tagged::next()
  m_tag,            \* Tagged::m_tag of the live registry
  m_uid,            \* Tagged::m_uid of the live registry
  m_instance_tags,  \* TaggedService::m_instance_tags, a bag of <<instance, tag>>
  service_tags,     \* the derived service's per-tag state, cleared by do_drop_tag
  status,           \* instance -> "new" | "connected" | "gone"
  held,             \* instance -> tags it was ever given (clients keep stale ones)
  issued            \* tags the live registry has issued (history)

vars == <<next_tag_seed, m_tag, m_uid, m_instance_tags, service_tags, status, held, issued>>

-----------------------------------------------------------------------------

\* Tagged::next(): each registry object takes a fresh upper part.
next == next_tag_seed * UidSpan

(* Mutant: the counter is not reduced to its width.                      *)
NextUid_unwrapped == m_uid + 1

\* Tagged::next_tag(): the registry's tag and the m_uid counter after it,
\* wrapping at the width of std::uint16_t.
NextTag == m_tag + m_uid
NextUid == (m_uid + 1) % UidSpan

lower_bound == m_tag
upper_bound == m_tag + UidSpan
valid_tag(tag) == lower_bound <= tag /\ tag < upper_bound

\* The live mappings of an instance, and the set of live tags.
MappingsOf(i) == {m \in BagToSet(m_instance_tags) : m[1] = i}
tag_count == BagCardinality(m_instance_tags)
tag_count_for_instance_id(i) == BagCardinality([m \in MappingsOf(i) |-> m_instance_tags[m]])

\* The bag of tags carried by a set of live mappings.
TagsOf(ms) ==
  [tag \in {m[2] : m \in ms} |->
     MapThenSumSet(LAMBDA m : IF m[2] = tag THEN m_instance_tags[m] ELSE 0, ms)]

\* Remove a set of mappings from the bag and the matching derived state.
RemoveMappings(ms) ==
  /\ m_instance_tags' = [m \in BagToSet(m_instance_tags) \ ms |-> m_instance_tags[m]]
  /\ service_tags' = service_tags (-) TagsOf(ms)

-----------------------------------------------------------------------------

\* A client instance connects to the server.
Connect(i) ==
  /\ status[i] = "new"
  /\ status' = [status EXCEPT ![i] = "connected"]
  /\ UNCHANGED <<next_tag_seed, m_tag, m_uid, m_instance_tags, service_tags, held, issued>>

\* register_instance_id(instance_id): next_tag(), record the mapping; the
\* derived service stores its state under the tag.
register_instance_id(i) ==
  /\ status[i] = "connected"
  /\ Cardinality(issued) < MaxTagsPerRegistry
  /\ m_uid' = NextUid
  /\ m_instance_tags' = BagAdd(m_instance_tags, <<i, NextTag>>)
  /\ service_tags' = BagAdd(service_tags, NextTag)
  /\ held' = [held EXCEPT ![i] = @ \cup {NextTag}]
  /\ issued' = issued \cup {NextTag}
  /\ UNCHANGED <<next_tag_seed, m_tag, status>>

\* drop_tag(tag) on behalf of instance i: removes one mapping carrying the
\* tag and calls do_drop_tag; a no-op when there is none.
drop_tag(i, tag) ==
  /\ status[i] = "connected"
  /\ tag \in held[i]
  /\ LET found == {m \in BagToSet(m_instance_tags) : m[2] = tag} IN
       IF found = {}
         THEN UNCHANGED <<m_instance_tags, service_tags>>
         ELSE \E m \in found :
                /\ m_instance_tags' = BagRemove(m_instance_tags, m)
                /\ service_tags' = BagRemove(service_tags, tag)
  /\ UNCHANGED <<next_tag_seed, m_tag, m_uid, status, held, issued>>

\* drop_instance(instance_id): every mapping of the instance, each through
\* drop_tag(iterator) and so do_drop_tag.
drop_instance(i) == RemoveMappings(MappingsOf(i))

\* The connection handler drops the instance's tags when it disconnects.
Disconnect(i) ==
  /\ status[i] = "connected"
  /\ status' = [status EXCEPT ![i] = "gone"]
  /\ drop_instance(i)
  /\ UNCHANGED <<next_tag_seed, m_tag, m_uid, held, issued>>

\* drop_all(): every mapping, each through do_drop_tag.
drop_all ==
  /\ RemoveMappings(BagToSet(m_instance_tags))
  /\ UNCHANGED <<next_tag_seed, m_tag, m_uid, status, held, issued>>

\* The server replaces the service: a new object takes m_tag from next()
\* and starts with m_uid = 1 and no mappings; clients keep their old tags.
Replace ==
  /\ next_tag_seed <= MaxRegistries
  /\ next_tag_seed' = next_tag_seed + 1
  /\ m_tag' = next
  /\ m_uid' = 1
  /\ m_instance_tags' = EmptyBag
  /\ service_tags' = EmptyBag
  /\ issued' = {}
  /\ UNCHANGED <<status, held>>

Init ==
  /\ next_tag_seed = 2
  /\ m_tag = 1 * UidSpan
  /\ m_uid = 1
  /\ m_instance_tags = EmptyBag
  /\ service_tags = EmptyBag
  /\ status = [i \in Instances |-> "new"]
  /\ held = [i \in Instances |-> {}]
  /\ issued = {}

Next ==
  \/ \E i \in Instances :
       \/ Connect(i) \/ register_instance_id(i) \/ Disconnect(i)
       \/ \E tag \in held[i] : drop_tag(i, tag)
  \/ drop_all
  \/ Replace

Spec == Init /\ [][Next]_vars

-----------------------------------------------------------------------------
(* Properties.                                                             *)

\* The variables' types: m_uid stays within its UidWidth-bit field.
TypeOK ==
  /\ next_tag_seed \in 2 .. MaxRegistries + 1
  /\ m_uid \in 0 .. UidSpan - 1
  /\ IsABag(m_instance_tags) /\ IsABag(service_tags)
  /\ BagToSet(m_instance_tags) \subseteq Instances \X Nat
  /\ status \in [Instances -> {"new", "connected", "gone"}]
  /\ held \in [Instances -> SUBSET Nat]

\* No two live mappings carry the same tag (spec section 3: tags are unique
\* within a live registry).
TagsUnique ==
  \A m1, m2 \in BagToSet(m_instance_tags) :
    /\ m_instance_tags[m1] = 1
    /\ m1[2] = m2[2] => m1 = m2

=============================================================================
