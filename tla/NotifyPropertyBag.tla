------------------------- MODULE NotifyPropertyBag -------------------------
(***************************************************************************)
(* OAF::CNotifyPropertyBag and OAF::CSlicePropertyBag                      *)
(* (libs/liboaf-core/src/CPropertyBag.cpp): a set of named values whose    *)
(* changes are announced to listeners, and a view of those of its keys     *)
(* that begin with a prefix, which announces their changes again.          *)
(*                                                                         *)
(* An announcement carries the old values (BEFORE, CANCELLED) or the new   *)
(* ones (AFTER).  It is about the keys that the call sets and may set, and *)
(* about every AUTONOTIFY key that has a value; a computed one only if the *)
(* subclass lists it in enumKeys.  The listeners hear it in the order of   *)
(* their addresses, which is any order; a veto goes out as CANCELLED to    *)
(* all, also to those who have not heard BEFORE.                           *)
(*                                                                         *)
(* The listeners are what the announcements are for: each keeps a copy of  *)
(* the values, and remembers what was announced BEFORE and is not settled. *)
(***************************************************************************)
EXTENDS Integers, FiniteSets

CONSTANTS
    Listener,   \* listeners of the bag
    View,       \* the listener of the slice
    Stored,     \* keys that m_values may hold
    Virtual,    \* keys with PROPERTY_VIRTUAL, computed by a subclass
    Base(_),    \* the stored key that a virtual one is computed from
    Listed,     \* virtual keys that the subclass lists in enumKeys
    Writeable, AutoNotify,  \* keys with PROPERTY_WRITEABLE, PROPERTY_AUTONOTIFY
    Prefixed,   \* keys that begin with the prefix of the slice
    Value, Invalid,     \* values, and the invalid QVariant
    AutoMayVanish,      \* TRUE: clients also remove AUTONOTIFY values
    KeysPerCall         \* bound on the keys of one setValues

Key == Stored \cup Virtual

ASSUME KeyAssumption ==
    /\ Stored \cap Virtual = {}
    /\ Writeable \cup AutoNotify \cup Prefixed \subseteq Key
    /\ Listed \subseteq Virtual /\ \A k \in Virtual : Base(k) \in Stored
ASSUME ValueAssumption == /\ Invalid \notin Value
                          /\ AutoMayVanish \in BOOLEAN
                          /\ KeysPerCall \in Nat
ASSUME ListenerAssumption == View \notin Listener /\ IsFiniteSet(Listener)

VARIABLES
    m_values,       \* Invalid where m_values does not contain the key
    m_listeners,    \* who listens: to the bag, or (View) to the attached slice
    event,          \* the announcement under way, or None
    copy,           \* copy[l]: the values as l knows them
    unsettled       \* unsettled[l]: keys that l heard of BEFORE and not since

vars == <<m_values, m_listeners, event, copy, unsettled>>

None == [when |-> "none"]
Idle == event = None

AllListeners == Listener \cup {View}
KeysOf(l) == IF l = View THEN Prefixed ELSE Key
Nothing(l) == [k \in KeysOf(l) |-> Invalid]

-----------------------------------------------------------------------------
(* CPropertyBag.                                                           *)

\* CPropertyBag::getValue, where m_values is `values'.
getValue(values, k) == values[IF k \in Virtual THEN Base(k) ELSE k]

\* Fault: the values with automatic notification are left out.
Announced_NoAuto(values, keys) ==
    [k \in keys \cap (Writeable \ AutoNotify) |-> getValue(values, k)]

\* The keys that getValues (_, PROPERTY_AUTONOTIFY) comes by: enumKeys lists what
\* is in m_values, and the computed keys that a subclass adds.
Automatic == {k \in AutoNotify : k \in Virtual => k \in Listed}

\* What is announced of a call that sets `keys', where m_values is `values'.
Announced(values, keys) ==
    LET always == {k \in Automatic : getValue(values, k) # Invalid}
    IN [k \in always \cup (keys \cap (Writeable \ AutoNotify)) |-> getValue(values, k)]

\* Fault: what is not writeable is set as well.
Stores_All(new) ==
    [k \in Stored |-> IF k \in DOMAIN new THEN new[k] ELSE m_values[k]]

\* CPropertyBag::setValues.  A computed value ignores being set.
Stores(new) ==
    [k \in Stored |-> IF k \in DOMAIN new \cap Writeable THEN new[k] ELSE m_values[k]]

-----------------------------------------------------------------------------
(* CNotifyPropertyBag.                                                     *)

\* What may lose its value: an AUTONOTIFY key, or what it is computed from.
Vital == (Automatic \cap Stored) \cup {Base(k) : k \in Automatic \cap Virtual}

\* setValue and setValues, up to their first announcement.
setValues(new) ==
    /\ Idle
    /\ ~ AutoMayVanish => \A k \in DOMAIN new \cap Vital : new[k] # Invalid
    /\ event' = [when |-> "BEFORE", new |-> new, told |-> {},
                 values |-> Announced(m_values, DOMAIN new)]
    /\ UNCHANGED <<m_values, m_listeners, copy, unsettled>>

\* The slice forwards what has its prefix, if there is any.
Heard(l) == DOMAIN event.values \cap KeysOf(l)

notify(l) ==
    /\ ~ Idle
    /\ l \in m_listeners \ event.told
    /\ copy' = IF event.when # "AFTER" THEN copy
               ELSE [copy EXCEPT ![l] = [k \in KeysOf(l) |->
                        IF k \in Heard(l) THEN event.values[k] ELSE @[k]]]
    /\ unsettled' = [unsettled EXCEPT ![l] =
                        IF event.when = "BEFORE" THEN @ \cup Heard(l) ELSE @ \ Heard(l)]
    /\ event' = [event EXCEPT !.told = @ \cup {l}]
    /\ UNCHANGED <<m_values, m_listeners>>

\* Fault: who vetoes ends the call at once.
Veto_Silent ==
    /\ ~ Idle /\ event.when = "BEFORE"
    /\ m_listeners # {}
    /\ event' = None
    /\ UNCHANGED <<m_values, m_listeners, copy, unsettled>>

\* A listener throws Cancel.
Veto ==
    /\ ~ Idle /\ event.when = "BEFORE"
    /\ m_listeners # {}
    /\ event' = [event EXCEPT !.when = "CANCELLED", !.told = {}]
    /\ UNCHANGED <<m_values, m_listeners, copy, unsettled>>

Commit ==
    /\ ~ Idle /\ event.when = "BEFORE" /\ event.told = m_listeners
    /\ m_values' = Stores(event.new)
    /\ event' = [event EXCEPT !.when = "AFTER", !.told = {},
                              !.values = Announced(Stores(event.new), DOMAIN event.new)]
    /\ UNCHANGED <<m_listeners, copy, unsettled>>

Return ==
    /\ ~ Idle /\ event.when # "BEFORE" /\ event.told = m_listeners
    /\ event' = None
    /\ UNCHANGED <<m_values, m_listeners, copy, unsettled>>

\* addListener, and CSlicePropertyBag::attach: the listener reads the values.
addListener(l) ==
    /\ Idle
    /\ l \notin m_listeners
    /\ m_listeners' = m_listeners \cup {l}
    /\ copy' = [copy EXCEPT ![l] = [k \in KeysOf(l) |-> getValue(m_values, k)]]
    /\ UNCHANGED <<m_values, event, unsettled>>

removeListener(l) ==
    /\ Idle
    /\ l \in m_listeners
    /\ m_listeners' = m_listeners \ {l}
    /\ copy' = [copy EXCEPT ![l] = Nothing(l)]
    /\ unsettled' = [unsettled EXCEPT ![l] = {}]
    /\ UNCHANGED <<m_values, event>>

-----------------------------------------------------------------------------
Init ==
    /\ m_values \in {v \in [Stored -> Value \cup {Invalid}] :
                        AutoMayVanish \/ \A k \in Vital : v[k] # Invalid}
    /\ m_listeners = {}
    /\ event = None
    /\ copy = [l \in AllListeners |-> Nothing(l)]
    /\ unsettled = [l \in AllListeners |-> {}]

Assignments ==
    UNION {[K -> Value \cup {Invalid}] :
              K \in {K \in SUBSET Key : Cardinality(K) \in 1 .. KeysPerCall}}

Next ==
    \/ \E new \in Assignments : setValues(new)
    \/ \E l \in AllListeners : notify(l) \/ addListener(l) \/ removeListener(l)
    \/ Veto \/ Commit \/ Return

Spec == Init /\ [][Next]_vars

-----------------------------------------------------------------------------
(* Properties.                                                             *)

\* IDL-PBG-005: all that changes is announced.  Between calls every listener, of
\* the bag or of a slice, that follows the announcements knows the values, the
\* computed ones too, whatever was vetoed by whom.
CopiesExact ==
    Idle => \A l \in m_listeners : \A k \in KeysOf(l) : copy[l][k] = getValue(m_values, k)

\* IDL-PBG-006: what a listener has heard BEFORE is settled by an AFTER or a
\* CANCELLED that names the same keys, so that it can undo its preparations.
NothingUnsettled == Idle => \A l \in m_listeners : unsettled[l] = {}

\* IDL-PBG-002: a call changes writeable attributes only, those it names only,
\* and none after a veto.
ChangesWhatItMay ==
    [][\A k \in Stored : m_values'[k] # m_values[k] =>
         /\ k \in Writeable
         /\ ~ Idle /\ event.when = "BEFORE" /\ k \in DOMAIN event.new]_vars

=============================================================================
