----------------------- MODULE NotifyPropertyBagProofs -----------------------
(***************************************************************************)
(* That the listeners of a bag and of its slices know its values, that     *)
(* what they prepared for is settled, and that a call changes what it may, *)
(* for any attributes and any number of listeners.                         *)
(*                                                                         *)
(* The first two are true of bags whose AUTONOTIFY attributes always have  *)
(* a value, and where no other computed attribute, nor one that enumKeys   *)
(* leaves out, depends on what clients may write.  Then BEFORE and AFTER   *)
(* name the same keys, and the keys that an AFTER names are all whose      *)
(* values the call has changed: so who has not yet heard of a change is    *)
(* behind in these keys only.                                              *)
(***************************************************************************)
EXTENDS NotifyPropertyBag, TLAPS

\* AUTONOTIFY attributes keep a value, and what is computed from writeable ones
\* is an AUTONOTIFY attribute that the subclass lists.
AutoComplete ==
    /\ ~ AutoMayVanish
    /\ \A k \in Virtual \ Automatic : Base(k) \notin Writeable

Shape ==
    /\ m_values \in [Stored -> Value \cup {Invalid}]
    /\ m_listeners \subseteq AllListeners
    /\ copy = [l \in AllListeners |-> copy[l]]
    /\ \A l \in AllListeners : copy[l] = [k \in KeysOf(l) |-> copy[l][k]]
    /\ unsettled \in [AllListeners -> SUBSET Key]

\* The announcement under way is about the values as they are now.
EventExact ==
    ~ Idle =>
        /\ event = [when |-> event.when, new |-> event.new, told |-> event.told,
                    values |-> event.values]
        /\ event.when \in {"BEFORE", "CANCELLED", "AFTER"}
        /\ event.new \in Assignments
        /\ event.told \subseteq m_listeners
        /\ event.values = Announced(m_values, DOMAIN event.new)

\* What is vital has a value, and the call under way does not take it away.
VitalKept ==
    ~ AutoMayVanish =>
        /\ \A k \in Vital : m_values[k] # Invalid
        /\ ~ Idle => \A k \in DOMAIN event.new \cap Vital : event.new[k] # Invalid

IInv == Shape /\ EventExact /\ VitalKept

\* A listener may be behind in a key between the change and its own AFTER.
Behind(l, k) ==
    /\ ~ Idle /\ event.when = "AFTER" /\ l \notin event.told
    /\ k \in DOMAIN event.values

CopiesFollow ==
    \A l \in m_listeners : \A k \in KeysOf(l) :
        Behind(l, k) \/ copy[l][k] = getValue(m_values, k)

\* A listener waits for the end of what it has heard of BEFORE, and of nothing else.
Waits(l) ==
    l \in m_listeners /\ ~ Idle /\ (event.when = "BEFORE" <=> l \in event.told)

WaitsExact ==
    \A l \in AllListeners :
        unsettled[l] \subseteq IF Waits(l) THEN Heard(l) ELSE {}

-----------------------------------------------------------------------------
(* Values and what is announced of them.                                   *)

LEMMA AutoCompleteStays == AutoComplete => AutoComplete'
BY DEF AutoComplete

LEMMA VitalStored == Vital \subseteq Stored
BY KeyAssumption DEF Vital

\* The assignments are functions on sets of keys.
LEMMA AssignmentType ==
    ASSUME NEW new \in Assignments
    PROVE  /\ DOMAIN new \subseteq Key
           /\ \A k \in DOMAIN new : new[k] \in Value \cup {Invalid}
<1>1. PICK K \in SUBSET Key : new \in [K -> Value \cup {Invalid}]
  BY DEF Assignments
<1> QED
  BY <1>1

\* AUTONOTIFY attributes have a value when what is vital has.
LEMMA AutoHasValue ==
    ASSUME NEW values, \A k \in Vital : values[k] # Invalid, NEW k \in Automatic
    PROVE  getValue(values, k) # Invalid
<1>1. CASE k \in Virtual
  <2>1. Base(k) \in Vital
    BY <1>1 DEF Vital
  <2> QED
    BY <1>1, <2>1 DEF getValue
<1>2. CASE k \notin Virtual
  <2>1. k \in Vital
    BY <1>2, KeyAssumption DEF Vital, Automatic, Key
  <2> QED
    BY <1>2, <2>1 DEF getValue
<1> QED
  BY <1>1, <1>2

LEMMA AnnouncedKeys ==
    ASSUME NEW values, NEW keys, \A k \in Vital : values[k] # Invalid
    PROVE  DOMAIN Announced(values, keys) = Automatic \cup (keys \cap (Writeable \ AutoNotify))
BY AutoHasValue DEF Announced

LEMMA AnnouncedValues ==
    ASSUME NEW values, NEW keys
    PROVE  /\ DOMAIN Announced(values, keys) \subseteq Key
           /\ \A k \in DOMAIN Announced(values, keys) :
                 Announced(values, keys)[k] = getValue(values, k)
BY KeyAssumption DEF Announced, Automatic, Key

LEMMA StoresType ==
    ASSUME IInv, ~ Idle
    PROVE  /\ Stores(event.new) \in [Stored -> Value \cup {Invalid}]
           /\ ~ AutoMayVanish => \A k \in Vital : Stores(event.new)[k] # Invalid
<1>1. event.new \in Assignments
  BY DEF IInv, EventExact
<1>2. \A k \in DOMAIN event.new : event.new[k] \in Value \cup {Invalid}
  BY <1>1, AssignmentType
<1>3. Stores(event.new) \in [Stored -> Value \cup {Invalid}]
  BY <1>2 DEF IInv, Shape, Stores
<1>4. ASSUME ~ AutoMayVanish, NEW k \in Vital PROVE Stores(event.new)[k] # Invalid
  BY <1>4, VitalStored DEF IInv, VitalKept, Stores
<1> QED
  BY <1>3, <1>4

\* The keys of an AFTER.
LEMMA KeysAfter ==
    ASSUME AutoComplete, IInv, ~ Idle
    PROVE  DOMAIN Announced(Stores(event.new), DOMAIN event.new)
             = Automatic \cup (DOMAIN event.new \cap (Writeable \ AutoNotify))
<1>1. \A k \in Vital : Stores(event.new)[k] # Invalid
  BY StoresType DEF AutoComplete
<1> HIDE DEF Stores
<1> QED
  BY <1>1, AnnouncedKeys

\* All values that a call changes are announced.
LEMMA AllIsAnnounced ==
    ASSUME AutoComplete, IInv, ~ Idle, NEW k \in Key,
           k \notin DOMAIN Announced(Stores(event.new), DOMAIN event.new)
    PROVE  getValue(Stores(event.new), k) = getValue(m_values, k)
<1>1. k \notin Automatic /\ (k \in AutoNotify \/ k \notin DOMAIN event.new \cap Writeable)
  BY KeysAfter
<1>2. CASE k \in Stored
  <2>1. k \notin AutoNotify
    BY <1>1, <1>2, KeyAssumption DEF Automatic
  <2> QED
    BY <1>1, <1>2, <2>1, KeyAssumption DEF getValue, Stores
<1>3. CASE k \in Virtual
  <2>1. Base(k) \in Stored /\ Base(k) \notin Writeable
    BY <1>1, <1>3, KeyAssumption DEF AutoComplete
  <2>2. Stores(event.new)[Base(k)] = m_values[Base(k)]
    BY <2>1 DEF Stores
  <2> QED
    BY <1>3, <2>2 DEF getValue
<1> QED
  BY <1>2, <1>3 DEF Key

-----------------------------------------------------------------------------
(* The invariant.                                                          *)

LEMMA InitInv == Init => IInv
<1> SUFFICES ASSUME Init PROVE IInv
  OBVIOUS
<1>1. Shape
  BY DEF Init, Shape, Nothing
<1> QED
  BY <1>1 DEF Init, IInv, EventExact, VitalKept, Idle

LEMMA NextInv == IInv /\ [Next]_vars => IInv'
<1> SUFFICES ASSUME IInv, [Next]_vars PROVE IInv'
  OBVIOUS
<1> USE DEF IInv, Idle
<1>1. ASSUME NEW new \in Assignments, setValues(new) PROVE IInv'
  <2>1. Shape'
    BY <1>1 DEF setValues, Shape
  <2>2. EventExact'
    BY <1>1 DEF setValues, EventExact, Announced, getValue
  <2> QED
    BY <1>1, <2>1, <2>2 DEF setValues, VitalKept
<1>2. ASSUME NEW l \in AllListeners, notify(l) PROVE IInv'
  <2>1. Heard(l) \subseteq Key
    BY <1>2, AnnouncedValues DEF notify, Heard, EventExact
  <2>2. Shape'
    BY <1>2, <2>1 DEF notify, Shape
  <2>3. EventExact'
    BY <1>2 DEF notify, EventExact, Announced, getValue
  <2> QED
    BY <1>2, <2>2, <2>3 DEF notify, VitalKept, EventExact
<1>3. ASSUME NEW l \in AllListeners, addListener(l) \/ removeListener(l) PROVE IInv'
  <2>1. Shape'
    BY <1>3 DEF addListener, removeListener, Shape, Nothing
  <2> QED
    BY <1>3, <2>1 DEF addListener, removeListener, EventExact, VitalKept
<1>4. CASE Veto
  <2>1. EventExact'
    BY <1>4 DEF Veto, EventExact, Announced, getValue
  <2> QED
    BY <1>4, <2>1 DEF Veto, Shape, VitalKept, EventExact
<1>5. CASE Commit
  <2>1. EventExact'
    BY <1>5 DEF Commit, EventExact, Announced, getValue
  <2>2. Shape'
    BY <1>5, StoresType DEF Commit, Shape
  <2> QED
    BY <1>5, <2>1, <2>2, StoresType DEF Commit, VitalKept, EventExact
<1>6. CASE Return
  BY <1>6 DEF Return, Shape, EventExact, VitalKept
<1>7. CASE UNCHANGED vars
  BY <1>7 DEF vars, Shape, EventExact, VitalKept, Announced, getValue
<1> QED
  BY <1>1, <1>2, <1>3, <1>4, <1>5, <1>6, <1>7 DEF Next

LEMMA Invariance == Spec => []IInv
BY InitInv, NextInv, PTL DEF Spec

\* Every listener knows the values of all keys but those that the announcement
\* under way is still to tell it.
LEMMA CopiesStep ==
    ASSUME AutoComplete, IInv, IInv', CopiesFollow, [Next]_vars
    PROVE  CopiesFollow'
<1> SUFFICES ASSUME NEW l \in m_listeners', NEW k \in KeysOf(l), ~ Behind(l, k)'
             PROVE  copy'[l][k] = getValue(m_values', k)
  BY DEF CopiesFollow
<1> USE DEF Idle, None
<1>0. l \in AllListeners /\ k \in Key
  BY KeyAssumption DEF IInv, Shape, KeysOf, Key
<1>1. ASSUME NEW new \in Assignments, setValues(new) PROVE copy'[l][k] = getValue(m_values', k)
  BY <1>1 DEF setValues, CopiesFollow, Behind
<1>2. ASSUME NEW m \in AllListeners, notify(m) PROVE copy'[l][k] = getValue(m_values', k)
  <2>1. CASE event.when = "AFTER" /\ l = m /\ k \in DOMAIN event.values
    <3>1. copy'[l][k] = event.values[k]
      BY <1>2, <2>1 DEF notify, Heard, IInv, Shape
    <3>2. event.values[k] = getValue(m_values, k)
      BY <1>2, <2>1, AnnouncedValues DEF notify, IInv, EventExact
    <3> QED
      BY <1>2, <3>1, <3>2 DEF notify
  <2>2. CASE event.when = "AFTER" /\ l = m /\ k \notin DOMAIN event.values
    BY <1>2, <2>2 DEF notify, Heard, IInv, Shape, CopiesFollow, Behind
  <2>3. CASE event.when # "AFTER" \/ l # m
    <3>1. copy'[l] = copy[l] /\ l \in m_listeners /\ m_values' = m_values
      BY <1>0, <1>2, <2>3 DEF notify, IInv, Shape
    <3>2. ~ Behind(l, k)
      BY <1>2, <2>3 DEF notify, Behind, IInv, EventExact
    <3> QED
      BY <3>1, <3>2 DEF CopiesFollow
  <2> QED
    BY <2>1, <2>2, <2>3
<1>3. ASSUME NEW m \in AllListeners, addListener(m) \/ removeListener(m)
      PROVE  copy'[l][k] = getValue(m_values', k)
  <2>1. CASE l = m
    BY <1>3, <2>1 DEF addListener, removeListener, IInv, Shape
  <2>2. CASE l # m
    <3>1. copy'[l] = copy[l] /\ l \in m_listeners /\ m_values' = m_values /\ Idle
      BY <1>3, <2>2, <1>0 DEF addListener, removeListener, IInv, Shape
    <3> QED
      BY <3>1 DEF CopiesFollow, Behind
  <2> QED
    BY <2>1, <2>2
<1>4. CASE Veto
  BY <1>4 DEF Veto, CopiesFollow, Behind
<1>5. CASE Commit
  <2>1. k \notin DOMAIN Announced(Stores(event.new), DOMAIN event.new)
    <3>1. event' = [when |-> "AFTER", new |-> event.new, told |-> {},
                    values |-> Announced(Stores(event.new), DOMAIN event.new)]
      BY <1>5 DEF Commit, IInv, EventExact
    <3> QED
      BY <3>1 DEF Behind
  <2>2. getValue(m_values', k) = getValue(m_values, k)
    BY <1>0, <1>5, <2>1, AllIsAnnounced DEF Commit
  <2> QED
    BY <1>5, <2>2 DEF Commit, CopiesFollow, Behind
<1>6. CASE Return
  BY <1>6 DEF Return, CopiesFollow, Behind
<1>7. CASE UNCHANGED vars
  BY <1>7 DEF vars, CopiesFollow, Behind, getValue
<1> QED
  BY <1>1, <1>2, <1>3, <1>4, <1>5, <1>6, <1>7 DEF Next

\* BEFORE and AFTER of one call name the same keys.
LEMMA SameKeys ==
    ASSUME AutoComplete, IInv, ~ Idle
    PROVE  DOMAIN Announced(Stores(event.new), DOMAIN event.new) = DOMAIN event.values
<1>1. \A k \in Vital : m_values[k] # Invalid
  BY DEF AutoComplete, IInv, VitalKept
<1>2. DOMAIN event.values = Automatic \cup (DOMAIN event.new \cap (Writeable \ AutoNotify))
  BY <1>1, AnnouncedKeys DEF IInv, EventExact
<1> QED
  BY <1>2, KeysAfter

\* What a listener prepared for is what the announcement under way will settle.
LEMMA WaitsStep ==
    ASSUME AutoComplete, IInv, IInv', WaitsExact, [Next]_vars
    PROVE  WaitsExact'
<1> SUFFICES ASSUME NEW l \in AllListeners
             PROVE  unsettled'[l] \subseteq IF Waits(l)' THEN Heard(l)' ELSE {}
  BY DEF WaitsExact
<1> USE DEF Idle, None
<1>1. ASSUME NEW new \in Assignments, setValues(new)
      PROVE  unsettled'[l] \subseteq IF Waits(l)' THEN Heard(l)' ELSE {}
  BY <1>1 DEF setValues, WaitsExact, Waits
<1>2. ASSUME NEW m \in AllListeners, notify(m)
      PROVE  unsettled'[l] \subseteq IF Waits(l)' THEN Heard(l)' ELSE {}
  <2>1. Heard(l)' = Heard(l) /\ ~ Idle /\ ~ Idle' /\ event'.when = event.when
    BY <1>2 DEF notify, Heard, IInv, EventExact
  <2>2. CASE l = m
    BY <1>2, <2>1, <2>2 DEF notify, WaitsExact, Waits, IInv, EventExact, Shape
  <2>3. CASE l # m
    <3>1. Waits(l)' = Waits(l) /\ unsettled'[l] = unsettled[l]
      BY <1>2, <2>1, <2>3 DEF notify, Waits, IInv, EventExact, Shape
    <3> QED
      BY <1>2, <2>1, <3>1 DEF notify, WaitsExact
  <2> QED
    BY <2>2, <2>3
<1>3. ASSUME NEW m \in AllListeners, addListener(m) \/ removeListener(m)
      PROVE  unsettled'[l] \subseteq IF Waits(l)' THEN Heard(l)' ELSE {}
  <2>1. CASE removeListener(m)
    BY <2>1 DEF removeListener, IInv, Shape, WaitsExact, Waits
  <2>2. CASE addListener(m)
    BY <2>2 DEF addListener, WaitsExact, Waits
  <2> QED
    BY <1>3, <2>1, <2>2
<1>4. CASE Veto
  <2>1. Heard(l)' = Heard(l) /\ (Waits(l) => Waits(l)')
    BY <1>4 DEF Veto, Heard, Waits, IInv, EventExact
  <2> QED
    BY <1>4, <2>1 DEF Veto, WaitsExact
<1>5. CASE Commit
  <2>1. event' = [when |-> "AFTER", new |-> event.new, told |-> {},
                  values |-> Announced(Stores(event.new), DOMAIN event.new)]
    BY <1>5 DEF Commit, IInv, EventExact
  <2>2. Heard(l)' = Heard(l)
    BY <1>5, <2>1, SameKeys DEF Commit, Heard
  <2>3. Waits(l) => Waits(l)'
    BY <1>5, <2>1 DEF Commit, Waits
  <2> QED
    BY <1>5, <2>2, <2>3 DEF Commit, WaitsExact
<1>6. CASE Return
  <2>1. ~ Waits(l)
    BY <1>6 DEF Return, Waits
  <2> QED
    BY <1>6, <2>1 DEF Return, WaitsExact
<1>7. CASE UNCHANGED vars
  BY <1>7 DEF vars, WaitsExact, Waits, Heard
<1> QED
  BY <1>1, <1>2, <1>3, <1>4, <1>5, <1>6, <1>7 DEF Next

-----------------------------------------------------------------------------
(* The theorems.                                                           *)

\* Between calls all that listen, to a bag or to a slice of it, have its values,
\* whoever listened since when and whatever was vetoed.
THEOREM ListenersKnow == AutoComplete /\ Spec => []CopiesExact
<1>1. Init => CopiesFollow
  BY DEF Init, CopiesFollow
<1>2. AutoComplete /\ IInv /\ IInv' /\ CopiesFollow /\ [Next]_vars => CopiesFollow'
  BY CopiesStep
<1>3. CopiesFollow => CopiesExact
  BY DEF CopiesFollow, CopiesExact, Behind
<1> QED
  BY <1>1, <1>2, <1>3, Invariance, AutoCompleteStays, PTL DEF Spec

\* Between calls nobody is left with what it prepared for at a BEFORE.
THEOREM PreparationsEnd == AutoComplete /\ Spec => []NothingUnsettled
<1>1. Init => WaitsExact
  BY DEF Init, WaitsExact
<1>2. AutoComplete /\ IInv /\ IInv' /\ WaitsExact /\ [Next]_vars => WaitsExact'
  BY WaitsStep
<1>3. IInv /\ WaitsExact => NothingUnsettled
  BY DEF WaitsExact, NothingUnsettled, Waits, IInv, Shape
<1> QED
  BY <1>1, <1>2, <1>3, Invariance, AutoCompleteStays, PTL DEF Spec

\* A value changes in the middle of a call that names its key and that nobody has
\* vetoed so far, and only if the key is writeable.
THEOREM CallsChangeTheirOwn == Spec => ChangesWhatItMay
<1> DEFINE A == \A k \in Stored : m_values'[k] # m_values[k] =>
                  /\ k \in Writeable
                  /\ ~ Idle /\ event.when = "BEFORE" /\ k \in DOMAIN event.new
<1>1. IInv /\ [Next]_vars => [A]_vars
  <2> SUFFICES ASSUME Next, NEW k \in Stored, m_values'[k] # m_values[k]
               PROVE  k \in Writeable /\ ~ Idle /\ event.when = "BEFORE" /\ k \in DOMAIN event.new
    OBVIOUS
  <2>1. Commit
    BY DEF Next, setValues, notify, addListener, removeListener, Veto, Return
  <2> QED
    BY <2>1 DEF Commit, Stores
<1> QED
  BY <1>1, Invariance, PTL DEF Spec, ChangesWhatItMay
=============================================================================
