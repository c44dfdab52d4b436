--------------------------- MODULE ProgressProofs ---------------------------
(***************************************************************************)
(* That the progress of an operation is not left on the screen, and that a *)
(* widget that has heard of the last change shows the operation as it is,  *)
(* for any number of threads and any length of the queue of signals.       *)
(*                                                                         *)
(* The mutex lets one report emit at a time, so that what is still to come *)
(* to the widget is one sequence, Pending: the signals queued and those    *)
(* that the report under way will queue.  What the widget shows in the end *)
(* depends on the last signals of each kind in it, or, if there is none, on *)
(* what the widget shows now.                                              *)
(***************************************************************************)
EXTENDS Progress, SequenceTheorems, TLAPS

ReportType ==
    {Resting} \cup [at : {"tryLock", "notify"}, status : {"PROCESSED", "OVER"}]
              \cup [at : {"emit"}, emits : Seq(SignalSet)]

\* Who holds the mutex notifies or emits.
MutexInv ==
    /\ report \in [Reporter -> ReportType]
    /\ \A r \in Reporter : report[r].at \in {"notify", "emit"} <=> m_notify_mutex = r

\* What is shown is shown by an active widget.
ShownInv ==
    /\ shown => m_is_active /\ activating # "off"
    /\ activating = "on" => m_is_active

TInv == TypeOK /\ MutexInv /\ ShownInv

-----------------------------------------------------------------------------
(* Types, and the mutex.                                                   *)

LEMMA ShortSequences ==
    ASSUME NEW S, NEW a \in S, NEW b \in S, NEW c \in S
    PROVE  <<a>> \in Seq(S) /\ <<a, b>> \in Seq(S) /\ <<a, b, c>> \in Seq(S)
OBVIOUS

LEMMA Joined ==
    ASSUME NEW a, NEW b, NEW c
    PROVE  /\ <<a>> \o <<>> \o <<>> = <<a>>
           /\ <<a>> \o <<b>> \o <<>> = <<a, b>>
           /\ <<a>> \o <<>> \o <<c>> = <<a, c>>
           /\ <<a>> \o <<b>> \o <<c>> = <<a, b, c>>
<1>1. /\ <<a>> \in Seq({a, b, c}) /\ <<b>> \in Seq({a, b, c}) /\ <<c>> \in Seq({a, b, c})
      /\ <<a, b>> \in Seq({a, b, c}) /\ <<a, c>> \in Seq({a, b, c})
      /\ <<a, b, c>> \in Seq({a, b, c})
  OBVIOUS
<1>2. \A s \in Seq({a, b, c}) : s \o <<>> = s
  BY ConcatEmptySeq
<1>3. ASSUME NEW x \in {a, b, c}, NEW y \in {a, b, c}
      PROVE  <<x>> \o <<y>> = <<x, y>>
  <2>1. /\ <<x>> \in Seq({a, b, c}) /\ <<y>> \in Seq({a, b, c}) /\ <<x, y>> \in Seq({a, b, c})
        /\ Len(<<x>>) = 1 /\ Len(<<y>>) = 1 /\ Len(<<x, y>>) = 2
    OBVIOUS
  <2>2. /\ <<x>> \o <<y>> \in Seq({a, b, c}) /\ Len(<<x>> \o <<y>>) = 2
        /\ (<<x>> \o <<y>>)[1] = x /\ (<<x>> \o <<y>>)[2] = y
    BY <2>1, ConcatProperties
  <2>3. \A i \in 1 .. Len(<<x>> \o <<y>>) : (<<x>> \o <<y>>)[i] = <<x, y>>[i]
    <3>1. \A i \in 1 .. 2 : i = 1 \/ i = 2
      OBVIOUS
    <3> QED
      BY <2>2, <3>1
  <2> QED
    BY <2>1, <2>2, <2>3, SeqEqual
<1>4. <<a, b>> \o <<c>> = <<a, b, c>>
  <2>1. Len(<<c>>) = 1 /\ Len(<<a, b>>) = 2 /\ Len(<<a, b, c>>) = 3
    OBVIOUS
  <2>2. /\ <<a, b>> \o <<c>> \in Seq({a, b, c}) /\ Len(<<a, b>> \o <<c>>) = 3
        /\ (<<a, b>> \o <<c>>)[1] = a /\ (<<a, b>> \o <<c>>)[2] = b
        /\ (<<a, b>> \o <<c>>)[3] = c
    BY <1>1, <2>1, ConcatProperties
  <2>3. \A i \in 1 .. Len(<<a, b>> \o <<c>>) : (<<a, b>> \o <<c>>)[i] = <<a, b, c>>[i]
    <3>1. \A i \in 1 .. 3 : i = 1 \/ i = 2 \/ i = 3
      OBVIOUS
    <3> QED
      BY <2>2, <3>1
  <2> QED
    BY <1>1, <2>1, <2>2, <2>3, SeqEqual
<1> QED
  BY <1>1, <1>2, <1>3, <1>4

\* What notify emits, one signal after the other.
LEMMA SignalsSpelled ==
    ASSUME NEW status
    PROVE  /\ status = "OVER" => Signals(status) = <<Show(FALSE), Value(0)>>
           /\ status # "OVER" =>
                 /\ m_max = Unset /\ m_value = Unset => Signals(status) = <<Show(TRUE)>>
                 /\ m_max # Unset /\ m_value = Unset =>
                       Signals(status) = <<Show(TRUE), Maximum(m_max)>>
                 /\ m_max = Unset /\ m_value # Unset =>
                       Signals(status) = <<Show(TRUE), Value(m_value)>>
                 /\ m_max # Unset /\ m_value # Unset =>
                       Signals(status) = <<Show(TRUE), Maximum(m_max), Value(m_value)>>
<1>1. /\ <<Show(TRUE)>> \o <<>> \o <<>> = <<Show(TRUE)>>
      /\ <<Show(TRUE)>> \o <<Maximum(m_max)>> \o <<>> = <<Show(TRUE), Maximum(m_max)>>
      /\ <<Show(TRUE)>> \o <<>> \o <<Value(m_value)>> = <<Show(TRUE), Value(m_value)>>
      /\ <<Show(TRUE)>> \o <<Maximum(m_max)>> \o <<Value(m_value)>> =
            <<Show(TRUE), Maximum(m_max), Value(m_value)>>
  BY Joined
<1>2. /\ NewMaximum = IF m_max = Unset THEN <<>> ELSE <<Maximum(m_max)>>
      /\ NewValue = IF m_value = Unset THEN <<>> ELSE <<Value(m_value)>>
  BY DEF NewMaximum, NewValue
<1>3. Signals(status) = IF status = "OVER" THEN <<Show(FALSE), Value(0)>>
                        ELSE <<Show(TRUE)>> \o NewMaximum \o NewValue
  BY DEF Signals
<1> QED
  BY <1>1, <1>2, <1>3, Zenon

LEMMA SignalType ==
    ASSUME TypeOK, NEW status \in {"PROCESSED", "OVER"}
    PROVE  Signals(status) \in Seq(SignalSet)
<1>1. Show(TRUE) \in SignalSet /\ Show(FALSE) \in SignalSet /\ Value(0) \in SignalSet
  <2>1. 0 \in 0 .. MaxProgress
    BY BoundsAssumption
  <2> QED
    BY <2>1, Zenon DEF SignalSet
<1>2. /\ m_max # Unset => Maximum(m_max) \in SignalSet
      /\ m_value # Unset => Value(m_value) \in SignalSet
  BY DEF SignalSet, TypeOK, Progresses
<1>3. CASE status = "OVER"
  BY <1>1, <1>3, SignalsSpelled, ShortSequences
<1>4. CASE status # "OVER" /\ m_max = Unset /\ m_value = Unset
  BY <1>1, <1>4, SignalsSpelled, ShortSequences
<1>5. CASE status # "OVER" /\ m_max # Unset /\ m_value = Unset
  BY <1>1, <1>2, <1>5, SignalsSpelled, ShortSequences
<1>6. CASE status # "OVER" /\ m_max = Unset /\ m_value # Unset
  BY <1>1, <1>2, <1>6, SignalsSpelled, ShortSequences
<1>7. CASE status # "OVER" /\ m_max # Unset /\ m_value # Unset
  BY <1>1, <1>2, <1>7, SignalsSpelled, ShortSequences
<1> QED
  BY <1>3, <1>4, <1>5, <1>6, <1>7

\* The bar keeps its value within its range, whatever it is told.
LEMMA BarType ==
    ASSUME NEW b \in Bars, InRange(b, b.value), NEW v \in 0 .. MaxProgress
    PROVE  /\ setValue(b, v) \in Bars /\ InRange(setValue(b, v), setValue(b, v).value)
           /\ setMaximum(b, v) \in Bars /\ InRange(setMaximum(b, v), setMaximum(b, v).value)
<1> USE BoundsAssumption DEF Bars, InRange, Reset, DefaultMaximum
<1>1. /\ b.maximum \in (0 .. MaxProgress) \cup {100} /\ b.value \in -1 .. MaxProgress
      /\ b = [maximum |-> b.maximum, value |-> b.value]
      /\ v \in Int
  OBVIOUS
<1>2. setValue(b, v) \in Bars /\ InRange(setValue(b, v), setValue(b, v).value)
  <2>1. CASE InRange(b, v)
    <3>1. setValue(b, v) = [maximum |-> b.maximum, value |-> v]
      BY <1>1, <2>1 DEF setValue
    <3> QED
      BY <1>1, <2>1, <3>1
  <2> QED
    BY <2>1 DEF setValue
<1>3. setMaximum(b, v) \in Bars /\ InRange(setMaximum(b, v), setMaximum(b, v).value)
  BY <1>1 DEF setMaximum
<1> QED
  BY <1>2, <1>3

LEMMA UpdatedType ==
    ASSUME TypeOK, NEW b \in Bars, InRange(b, b.value)
    PROVE  updateOperation(b) \in Bars /\ InRange(updateOperation(b), updateOperation(b).value)
<1>1. /\ m_max # Unset => m_max \in 0 .. MaxProgress
      /\ m_value # Unset => m_value \in 0 .. MaxProgress
  BY DEF TypeOK, Progresses
<1> DEFINE ranged == IF m_max = Unset THEN b ELSE setMaximum(b, m_max)
<1>2. ranged \in Bars /\ InRange(ranged, ranged.value)
  BY <1>1, BarType
<1>3. updateOperation(b) = IF m_value = Unset THEN ranged ELSE setValue(ranged, m_value)
  BY DEF updateOperation
<1> HIDE DEF ranged
<1> QED
  BY <1>1, <1>2, <1>3, BarType

LEMMA ClampedType ==
    ASSUME TypeOK, NEW v \in Nat
    PROVE  Clamped(v) \in 0 .. MaxProgress
BY BoundsAssumption DEF Clamped, TypeOK, Progresses

\* A report begins.
LEMMA BeginTypes ==
    ASSUME TInv, NEW r \in Reporter, Begin(r),
           m_status' \in {"PROCESSED", "OVER"}, m_max' \in Progresses, m_value' \in Progresses
    PROVE  TInv'
<1>1. /\ report[r] = Resting
      /\ report' = [report EXCEPT ![r] = [at |-> "tryLock", status |-> m_status']]
      /\ current' = FALSE
      /\ UNCHANGED <<m_notify_mutex, signals, m_is_active, shown, bar, activating>>
  BY DEF Begin, widget
<1>2. report' \in [Reporter -> ReportType]
  BY <1>1 DEF TInv, MutexInv, ReportType
<1>3. /\ report'[r] = [at |-> "tryLock", status |-> m_status']
      /\ \A s \in Reporter \ {r} : report'[s] = report[s]
  BY <1>1 DEF TInv, MutexInv
<1>4. \A s \in Reporter : report'[s].at \in {"notify", "emit"} <=> m_notify_mutex' = s
  BY <1>1, <1>3 DEF TInv, MutexInv, Resting
<1>5. TypeOK'
  <2>1. ASSUME NEW s \in Reporter
        PROVE  \/ report'[s] = Resting
               \/ report'[s].at \in {"tryLock", "notify"} /\ report'[s].status \in {"PROCESSED", "OVER"}
               \/ report'[s].at = "emit" /\ m_notify_mutex' = s /\ report'[s].emits \in Seq(SignalSet)
    <3>1. report'[s] \in ReportType /\ (report'[s].at = "emit" => m_notify_mutex' = s)
      BY <1>2, <1>4
    <3> QED
      BY <3>1 DEF ReportType
  <2> QED
    BY <1>1, <2>1 DEF TInv, TypeOK
<1>6. ShownInv'
  BY <1>1 DEF TInv, ShownInv
<1> QED
  BY <1>2, <1>4, <1>5, <1>6 DEF TInv, MutexInv

LEMMA ReportsTypes ==
    ASSUME TInv, NEW r \in Reporter, Reports(r)
    PROVE  TInv'
<1>1. Unset \in Progresses /\ 0 .. MaxProgress \subseteq Progresses
  BY DEF Progresses
<1>2. m_max \in Progresses /\ m_value \in Progresses /\ m_status \in {"PROCESSED", "OVER"}
  BY DEF TInv, TypeOK
<1>3. CASE progress(r)
  <2>1. PICK v \in (0 .. MaxProgress) \cup {IF m_value = Unset THEN 1 ELSE m_value + 1} :
           m_value' = Clamped(v)
    BY <1>3 DEF progress
  <2>2. v \in Nat
    BY <1>2, BoundsAssumption DEF Progresses
  <2>3. m_value' \in Progresses
    BY <1>1, <2>1, <2>2, ClampedType DEF TInv
  <2> QED
    BY <1>2, <1>3, <2>3, BeginTypes DEF progress
<1> QED
  BY <1>1, <1>2, <1>3, BeginTypes DEF Reports, started, finished, progressMaximum

LEMMA SendsTypes ==
    ASSUME TInv, NEW r \in Reporter, Sends(r)
    PROVE  TInv'
<1>1. /\ report[r] \in ReportType /\ r # Free
      /\ UNCHANGED <<m_status, m_max, m_value, m_is_active, shown, bar, activating>>
  BY NamesAssumption
     DEF TInv, MutexInv, Sends, Lock, Drop, notify, emit, Unlock, operation, widget
<1>2. ASSUME report' = [report EXCEPT ![r] = report'[r]], report'[r] \in ReportType,
             report'[r].at \in {"notify", "emit"} <=> m_notify_mutex' = r,
             m_notify_mutex' = m_notify_mutex \/ {m_notify_mutex, m_notify_mutex'} = {r, Free},
             signals' \in Seq(SignalSet), current' \in BOOLEAN
      PROVE  TInv'
  <2>1. \A s \in Reporter \ {r} : report'[s] = report[s]
    BY <1>2 DEF TInv, MutexInv
  <2>2. \A s \in Reporter \ {r} : m_notify_mutex' = s <=> m_notify_mutex = s
    BY <1>2, NamesAssumption
  <2>3. MutexInv'
    <3>1. report' \in [Reporter -> ReportType]
      BY <1>2 DEF TInv, MutexInv
    <3>2. \A s \in Reporter : report'[s].at \in {"notify", "emit"} <=> m_notify_mutex' = s
      BY <1>2, <2>1, <2>2 DEF TInv, MutexInv
    <3> QED
      BY <3>1, <3>2 DEF MutexInv
  <2>4. m_notify_mutex' \in Reporter \cup {Free}
    BY <1>2 DEF TInv, TypeOK
  <2>5. ASSUME NEW s \in Reporter
        PROVE  \/ report'[s] = Resting
               \/ report'[s].at \in {"tryLock", "notify"} /\ report'[s].status \in {"PROCESSED", "OVER"}
               \/ report'[s].at = "emit" /\ m_notify_mutex' = s /\ report'[s].emits \in Seq(SignalSet)
    <3>1. report'[s] \in ReportType /\ (report'[s].at = "emit" => m_notify_mutex' = s)
      BY <2>3 DEF MutexInv
    <3> QED
      BY <3>1 DEF ReportType
  <2>6. TypeOK'
    BY <1>1, <1>2, <2>4, <2>5 DEF TInv, TypeOK
  <2> QED
    BY <1>1, <2>3, <2>6 DEF TInv, ShownInv
<1> USE DEF Resting
<1>3. CASE Lock(r)
  <2>1. report[r].at = "tryLock" /\ report[r] \in [at : {"tryLock", "notify"}, status : {"PROCESSED", "OVER"}]
    BY <1>1, <1>3 DEF Lock, ReportType
  <2>2. /\ report' = [report EXCEPT ![r] = report'[r]]
        /\ report'[r] = [at |-> "notify", status |-> report[r].status]
    BY <1>3, <2>1 DEF Lock, TInv, MutexInv
  <2>3. report'[r] \in ReportType
    BY <2>1, <2>2 DEF ReportType
  <2> QED
    BY <1>2, <1>3, <2>2, <2>3 DEF Lock, TInv, TypeOK
<1>4. CASE Drop(r)
  <2>1. /\ report' = [report EXCEPT ![r] = report'[r]]
        /\ report'[r] = Resting /\ report'[r] \in ReportType
    BY <1>4 DEF Drop, TInv, MutexInv, ReportType
  <2>2. m_notify_mutex' = m_notify_mutex /\ m_notify_mutex # r
    BY <1>4 DEF Drop, TInv, MutexInv
  <2> QED
    BY <1>2, <1>4, <2>1, <2>2 DEF Drop, TInv, TypeOK
<1>5. CASE notify(r)
  <2>1. report[r] \in [at : {"tryLock", "notify"}, status : {"PROCESSED", "OVER"}]
    BY <1>1, <1>5 DEF notify, ReportType
  <2>2. Signals(report[r].status) \in Seq(SignalSet)
    BY <2>1, SignalType DEF TInv
  <2>3. \E e \in Seq(SignalSet) :
           report' = [report EXCEPT ![r] = [at |-> "emit", emits |-> e]]
    <3>1. CASE m_is_active
      BY <1>5, <2>2, <3>1 DEF notify
    <3>2. CASE ~ m_is_active
      <4>1. <<>> \in Seq(SignalSet)
        OBVIOUS
      <4> QED
        BY <1>5, <3>2, <4>1 DEF notify
    <3> QED
      BY <3>1, <3>2
  <2>4. /\ report' = [report EXCEPT ![r] = report'[r]]
        /\ report'[r].at = "emit" /\ report'[r] \in ReportType
    BY <2>3 DEF TInv, MutexInv, ReportType
  <2>5. m_notify_mutex' = m_notify_mutex /\ m_notify_mutex = r
    BY <1>5 DEF notify, TInv, MutexInv
  <2>6. current' \in BOOLEAN /\ signals' \in Seq(SignalSet)
    BY <1>5 DEF notify, TInv, TypeOK
  <2> QED
    BY <1>2, <2>4, <2>5, <2>6
<1>6. CASE emit(r)
  <2>1. report[r].at = "emit" /\ report[r] \in [at : {"emit"}, emits : Seq(SignalSet)]
    BY <1>1, <1>6 DEF emit, ReportType
  <2>2. Head(report[r].emits) \in SignalSet /\ Tail(report[r].emits) \in Seq(SignalSet)
    BY <1>6, <2>1, HeadTailProperties DEF emit
  <2>3. /\ report' = [report EXCEPT ![r] = report'[r]]
        /\ report'[r] = [at |-> "emit", emits |-> Tail(report[r].emits)]
    BY <1>6, <2>1 DEF emit, TInv, MutexInv
  <2>4. report'[r] \in ReportType
    BY <2>2, <2>3 DEF ReportType
  <2>5. signals' \in Seq(SignalSet)
    BY <1>6, <2>2, AppendProperties DEF emit, TInv, TypeOK
  <2>6. m_notify_mutex' = r /\ m_notify_mutex = r
    BY <1>6, <2>1 DEF emit, TInv, MutexInv
  <2> QED
    BY <1>2, <1>6, <2>3, <2>4, <2>5, <2>6 DEF emit, TInv, TypeOK
<1>7. CASE Unlock(r)
  <2>1. /\ report' = [report EXCEPT ![r] = report'[r]]
        /\ report'[r] = Resting /\ report'[r] \in ReportType
    BY <1>7 DEF Unlock, TInv, MutexInv, ReportType
  <2>2. m_notify_mutex' = Free /\ m_notify_mutex = r
    BY <1>7 DEF Unlock, TInv, MutexInv
  <2> QED
    BY <1>1, <1>2, <1>7, <2>1, <2>2 DEF Unlock, TInv, TypeOK
<1> QED
  BY <1>3, <1>4, <1>5, <1>6, <1>7 DEF Sends

LEMMA WidgetTypes ==
    ASSUME TInv, Handle \/ deactivate \/ activate \/ Returns
    PROVE  TInv'
<1> DEFINE BarFits(b) == b \in Bars /\ InRange(b, b.value)
<1>1. UNCHANGED <<m_status, m_max, m_value, m_notify_mutex, report>>
  BY DEF Handle, deactivate, activate, Returns, deactivateEnd, activateEnd, operation
<1>2. MutexInv'
  BY <1>1 DEF TInv, MutexInv
<1>3. ASSUME signals' \in Seq(SignalSet), m_is_active' \in BOOLEAN, shown' \in BOOLEAN,
             current' \in BOOLEAN, BarFits(bar'),
             activating' \in {"none", "on", "off"}
      PROVE  TypeOK'
  BY <1>1, <1>3 DEF TInv, TypeOK
<1>4. ASSUME NEW b \in BOOLEAN, aboutOperationActivate(b)
      PROVE  /\ shown' \in BOOLEAN /\ BarFits(bar')
             /\ shown' => m_is_active /\ b
  <2>1. BarFits(updateOperation(bar)) /\ BarFits(bar)
    BY UpdatedType DEF TInv, TypeOK
  <2>2. bar' = updateOperation(bar) \/ bar' = bar
    BY <1>4 DEF aboutOperationActivate
  <2> QED
    BY <1>4, <2>1, <2>2 DEF aboutOperationActivate, MayShow, TInv, TypeOK, ShownInv
<1>5. CASE Handle
  <2>1. Head(signals) \in SignalSet /\ Tail(signals) \in Seq(SignalSet)
    BY <1>5, HeadTailProperties DEF Handle, TInv, TypeOK
  <2>2. UNCHANGED <<m_is_active, activating, current>> /\ activating = "none" /\ signals' = Tail(signals)
    BY <1>5 DEF Handle
  <2>3. CASE Head(signals).sets = "shown"
    <3>1. Head(signals).to \in BOOLEAN
      BY <2>1, <2>3 DEF SignalSet, Show, Maximum, Value
    <3>2. aboutOperationActivate(Head(signals).to)
      BY <1>5, <2>3 DEF Handle
    <3>3. shown' \in BOOLEAN /\ BarFits(bar') /\ (shown' => m_is_active)
      BY <1>4, <3>1, <3>2
    <3>4. TypeOK'
      BY <1>3, <2>1, <2>2, <3>3 DEF TInv, TypeOK
    <3> QED
      BY <1>2, <2>2, <3>3, <3>4 DEF TInv, ShownInv
  <2>4. CASE Head(signals).sets # "shown"
    <3>1. /\ shown' = shown /\ Head(signals).to \in 0 .. MaxProgress
          /\ bar' \in {setMaximum(bar, Head(signals).to), setValue(bar, Head(signals).to)}
      BY <1>5, <2>1, <2>4 DEF Handle, SignalSet, Show, Maximum, Value
    <3>2. BarFits(bar')
      BY <3>1, BarType DEF TInv, TypeOK
    <3>3. TypeOK'
      BY <1>3, <2>1, <2>2, <3>1, <3>2 DEF TInv, TypeOK
    <3> QED
      BY <1>2, <2>2, <3>1, <3>3 DEF TInv, ShownInv
  <2> QED
    BY <2>3, <2>4
<1>6. CASE deactivate
  <2>1. shown' \in BOOLEAN /\ BarFits(bar') /\ ~ shown'
    BY <1>4, <1>6 DEF deactivate
  <2> QED
    BY <1>2, <1>3, <1>6, <2>1 DEF deactivate, TInv, TypeOK, ShownInv
<1>7. CASE activate
  <2>1. current' \in BOOLEAN
    BY <1>7 DEF activate, Undisturbed, TInv, TypeOK
  <2> QED
    BY <1>2, <1>3, <1>7, <2>1 DEF activate, TInv, TypeOK, ShownInv
<1>8. CASE deactivateEnd
  BY <1>2, <1>3, <1>8 DEF deactivateEnd, TInv, TypeOK, ShownInv
<1>9. CASE activateEnd
  <2>1. shown' \in BOOLEAN /\ BarFits(bar') /\ (shown' => m_is_active)
    BY <1>4, <1>9 DEF activateEnd
  <2> QED
    BY <1>2, <1>3, <1>9, <2>1 DEF activateEnd, TInv, TypeOK, ShownInv
<1> QED
  BY <1>5, <1>6, <1>7, <1>8, <1>9 DEF Returns

LEMMA TypesInvariant == Spec => []TInv
<1>1. Init => TInv
  <2> SUFFICES ASSUME Init
               PROVE  TInv
    OBVIOUS
  <2>1. \A r \in Reporter : report[r] = Resting
    BY DEF Init
  <2>2. MutexInv
    <3>1. report \in [Reporter -> ReportType]
      BY DEF Init, ReportType
    <3>2. \A r \in Reporter : report[r].at \in {"notify", "emit"} <=> m_notify_mutex = r
      BY <2>1, NamesAssumption DEF Init, Resting
    <3> QED
      BY <3>1, <3>2 DEF MutexInv
  <2>3. TypeOK
    <3>1. signals \in Seq(SignalSet)
      BY EmptySeq DEF Init
    <3>2. m_max \in Progresses /\ m_value \in Progresses /\ bar \in Bars /\ InRange(bar, bar.value)
      BY BoundsAssumption DEF Init, Progresses, Bars, InRange, DefaultMaximum, Reset
    <3> QED
      BY <2>1, <3>1, <3>2 DEF Init, TypeOK
  <2> QED
    BY <2>2, <2>3 DEF Init, TInv, ShownInv
<1>2. TInv /\ [Next]_vars => TInv'
  <2> SUFFICES ASSUME TInv, [Next]_vars
               PROVE  TInv'
    OBVIOUS
  <2>1. ASSUME NEW r \in Reporter, Reports(r) \/ Sends(r)
        PROVE  TInv'
    BY <2>1, ReportsTypes, SendsTypes
  <2>2. CASE UNCHANGED vars
    BY <2>2 DEF vars, operation, widget, TInv, TypeOK, MutexInv, ShownInv
  <2> QED
    BY <2>1, <2>2, WidgetTypes DEF Next
<1> QED
  BY <1>1, <1>2, PTL DEF Spec

\* The state has its types: in particular only the report that holds the mutex
\* emits signals, whatever the number of threads and however operations overlap.
THEOREM TypeCorrect == Spec => []TypeOK
<1>1. TInv => TypeOK
  BY DEF TInv
<1> QED
  BY <1>1, TypesInvariant, PTL

-----------------------------------------------------------------------------
(* An ended operation is not left on the screen.                           *)

Apart == ~ Overlap

Fresh(r) == report[r].at \in {"tryLock", "notify"}

Hides(s) == \E i \in 1 .. Len(s) : s[i] = Show(FALSE)

\* The report of an end is alone, and tells that it is one.
OrderInv ==
    /\ \A r \in Reporter : Fresh(r) => report[r].status = m_status \/ m_status = "PROCESSED"
    /\ m_status = "OVER" =>
          \A r, s \in Reporter : report[r] # Resting /\ report[s] # Resting => r = s

\* r will tell the widget to hide the progress.
WillHide(r) == Fresh(r) \/ (report[r].at = "emit" /\ Hides(report[r].emits))

\* What is shown of an ended operation will be hidden.
EndInv ==
    m_status = "OVER" /\ shown => Hides(signals) \/ \E r \in Reporter : WillHide(r)

LEMMA HidesAppended ==
    ASSUME NEW s \in Seq(SignalSet), NEW g \in SignalSet
    PROVE  Hides(Append(s, g)) <=> Hides(s) \/ g = Show(FALSE)
<1> DEFINE t == Append(s, g)
           x == Show(FALSE)
<1>1. /\ Len(s) \in Nat /\ Len(t) = Len(s) + 1
      /\ \A i \in 1 .. Len(s) : t[i] = s[i]
      /\ t[Len(s) + 1] = g
  BY AppendProperties, LenProperties
<1>2. /\ Hides(t) <=> \E i \in 1 .. Len(t) : t[i] = x
      /\ Hides(s) <=> \E i \in 1 .. Len(s) : s[i] = x
  BY DEF Hides
<1> HIDE DEF t, x
<1> SUFFICES Hides(t) <=> Hides(s) \/ g = x
  BY DEF t, x
<1> QED
  BY <1>1, <1>2

LEMMA HidesPair ==
    ASSUME NEW b
    PROVE  Hides(<<Show(FALSE), b>>)
<1> DEFINE x == Show(FALSE)
           t == <<x, b>>
<1>1. Hides(t) <=> \E i \in 1 .. Len(t) : t[i] = x
  BY DEF Hides
<1>2. Len(t) = 2 /\ t[1] = x
  <2> HIDE DEF x
  <2> QED
    OBVIOUS
<1> HIDE DEF x, t
<1>3. Hides(t)
  BY <1>1, <1>2
<1> QED
  BY <1>3 DEF x, t

LEMMA HidesHeadOrTail ==
    ASSUME NEW s \in Seq(SignalSet), s # <<>>
    PROVE  Hides(s) <=> Head(s) = Show(FALSE) \/ Hides(Tail(s))
<1> DEFINE t == Tail(s)
           h == Head(s)
           x == Show(FALSE)
<1>1. /\ Len(s) \in Nat /\ Len(t) = Len(s) - 1 /\ h = s[1] /\ Len(s) # 0
      /\ \A i \in 1 .. Len(t) : t[i] = s[i + 1]
  BY HeadTailProperties, LenProperties, EmptySeq
<1>2. /\ Hides(t) <=> \E i \in 1 .. Len(t) : t[i] = x
      /\ Hides(s) <=> \E i \in 1 .. Len(s) : s[i] = x
  BY DEF Hides
<1> HIDE DEF t, h, x
<1> SUFFICES Hides(s) <=> h = x \/ Hides(t)
  BY DEF t, h, x
<1>3. ASSUME NEW i \in 1 .. Len(s), i # 1
      PROVE  i - 1 \in 1 .. Len(t) /\ t[i - 1] = s[i]
  BY <1>1, <1>3
<1>4. ASSUME NEW i \in 1 .. Len(t)
      PROVE  i + 1 \in 1 .. Len(s) /\ t[i] = s[i + 1]
  BY <1>1, <1>4
<1>5. 1 \in 1 .. Len(s)
  BY <1>1
<1> QED
  BY <1>1, <1>2, <1>3, <1>4, <1>5

\* A report begins.
LEMMA ReportsEnd ==
    ASSUME TInv, OrderInv, EndInv, Apart, NEW r \in Reporter, Reports(r)
    PROVE  OrderInv' /\ EndInv'
<1>1. /\ report' = [report EXCEPT ![r] = [at |-> "tryLock", status |-> m_status']]
      /\ report[r] = Resting
      /\ UNCHANGED <<signals, shown>>
  BY DEF Reports, started, finished, progress, progressMaximum, Begin, widget
<1>2. /\ report'[r] = [at |-> "tryLock", status |-> m_status']
      /\ \A s \in Reporter \ {r} : report'[s] = report[s]
  BY <1>1 DEF TInv, MutexInv
<1>3. CASE m_status' = "PROCESSED"
  BY <1>3 DEF OrderInv, EndInv
<1>4. CASE m_status' # "PROCESSED"
  <2>1. m_status' = "OVER" /\ \A s \in Reporter : report[s] = Resting
    BY <1>4 DEF Apart, Reports, started, finished, progress, progressMaximum, BetweenReports
  <2>2. \A s \in Reporter \ {r} : report'[s] = Resting
    BY <1>2, <2>1
  <2>3. OrderInv'
    BY <1>2, <2>2 DEF OrderInv, Fresh, Resting
  <2>4. WillHide(r)'
    BY <1>2 DEF WillHide, Fresh
  <2> QED
    BY <2>3, <2>4 DEF EndInv
<1> QED
  BY <1>3, <1>4

LEMMA SendsEnd ==
    ASSUME TInv, OrderInv, EndInv, NEW r \in Reporter, Sends(r)
    PROVE  OrderInv' /\ EndInv'
<1> USE DEF Resting
<1>1. /\ report[r] \in ReportType /\ m_notify_mutex \in Reporter \cup {Free}
      /\ UNCHANGED <<m_status, m_is_active, shown>>
  BY DEF TInv, TypeOK, MutexInv, Sends, Lock, Drop, notify, emit, Unlock, operation, widget
<1>2. \A s \in Reporter \ {r} : report'[s] = report[s]
  BY DEF TInv, MutexInv, Sends, Lock, Drop, notify, emit, Unlock
<1>3. OrderInv'
  <2>1. report[r] # Resting
    BY DEF Sends, Lock, Drop, notify, emit, Unlock
  <2>2. Fresh(r)' => Fresh(r) /\ report'[r].status = report[r].status
    <3>1. CASE Lock(r)
      <4>1. report[r] \in [at : {"tryLock", "notify"}, status : {"PROCESSED", "OVER"}]
        BY <1>1, <3>1 DEF Lock, ReportType
      <4> QED
        BY <3>1, <4>1 DEF Lock, Fresh, TInv, MutexInv
    <3>2. CASE emit(r)
      <4>1. report[r] \in [at : {"emit"}, emits : Seq(SignalSet)]
        BY <1>1, <3>2 DEF emit, ReportType
      <4> QED
        BY <3>2, <4>1 DEF emit, Fresh, TInv, MutexInv
    <3>3. CASE Drop(r) \/ notify(r) \/ Unlock(r)
      BY <3>3 DEF Drop, notify, Unlock, Fresh, TInv, MutexInv
    <3> QED
      BY <3>1, <3>2, <3>3 DEF Sends
  <2> QED
    BY <1>1, <1>2, <2>1, <2>2 DEF OrderInv, Fresh
<1>4. ASSUME m_status = "OVER", shown
      PROVE  Hides(signals)' \/ \E s \in Reporter : WillHide(s)'
  <2>1. \A s \in Reporter \ {r} : report[s] = Resting
    <3>1. report[r] # Resting
      BY DEF Sends, Lock, Drop, notify, emit, Unlock
    <3> QED
      BY <1>4, <3>1 DEF OrderInv
  <2>2. Hides(signals) \/ WillHide(r)
    BY <1>4, <2>1 DEF EndInv, WillHide, Fresh
  <2>3. CASE Lock(r)
    <3>1. report[r] \in [at : {"tryLock", "notify"}, status : {"PROCESSED", "OVER"}]
      BY <1>1, <2>3 DEF Lock, ReportType
    <3>2. report'[r].at = "notify"
      BY <2>3, <3>1 DEF Lock, TInv, MutexInv
    <3> QED
      BY <3>2 DEF WillHide, Fresh
  <2>4. ~ Drop(r)
    BY <1>1, <2>1 DEF Drop, TInv, MutexInv
  <2>5. CASE notify(r)
    <3>1. m_is_active
      BY <1>4 DEF TInv, ShownInv
    <3>2. report[r].status = "OVER"
      BY <1>4, <2>5 DEF notify, OrderInv, Fresh
    <3> DEFINE e == <<Show(FALSE), Value(0)>>
    <3>3. report'[r] = [at |-> "emit", emits |-> e]
      BY <2>5, <3>1, <3>2 DEF notify, Signals, TInv, MutexInv
    <3>4. Hides(e)
      BY HidesPair
    <3> HIDE DEF e
    <3>5. report'[r].at = "emit" /\ report'[r].emits = e
      BY <3>3
    <3>6. WillHide(r)'
      BY <3>4, <3>5 DEF WillHide, Hides
    <3> QED
      BY <3>6
  <2>6. CASE emit(r)
    <3>1. report[r].emits \in Seq(SignalSet) /\ report[r].emits # <<>> /\ signals \in Seq(SignalSet)
      BY <1>1, <2>6 DEF emit, ReportType, TInv, TypeOK
    <3>2. report'[r].at = "emit" /\ report'[r].emits = Tail(report[r].emits)
      BY <1>1, <2>6 DEF emit, TInv, MutexInv, ReportType
    <3>3. signals' = Append(signals, Head(report[r].emits))
      BY <2>6 DEF emit
    <3>4. Head(report[r].emits) \in SignalSet
      BY <3>1, HeadTailProperties
    <3>5. Hides(signals') <=> Hides(signals) \/ Head(report[r].emits) = Show(FALSE)
      BY <3>1, <3>3, <3>4, HidesAppended
    <3>6. Hides(report[r].emits) <=> Head(report[r].emits) = Show(FALSE) \/ Hides(Tail(report[r].emits))
      BY <3>1, HidesHeadOrTail
    <3>7. Hides(signals) \/ Hides(report[r].emits)
      BY <2>2, <2>6 DEF WillHide, Fresh, emit
    <3>8. Hides(signals') \/ WillHide(r)'
      BY <3>2, <3>5, <3>6, <3>7 DEF WillHide
    <3> QED
      BY <3>8 DEF Hides
  <2>7. CASE Unlock(r)
    <3>1. ~ WillHide(r)
      BY <2>7, EmptySeq DEF Unlock, WillHide, Fresh, Hides
    <3> QED
      BY <2>2, <2>7, <3>1 DEF Unlock, Hides
  <2> QED
    BY <2>3, <2>4, <2>5, <2>6, <2>7 DEF Sends
<1> QED
  BY <1>1, <1>3, <1>4 DEF EndInv

LEMMA WidgetEnd ==
    ASSUME TInv, OrderInv, EndInv, Handle \/ deactivate \/ activate \/ Returns
    PROVE  OrderInv' /\ EndInv'
<1>1. UNCHANGED <<m_status, report>>
  BY DEF Handle, deactivate, activate, Returns, deactivateEnd, activateEnd, operation
<1>2. OrderInv'
  BY <1>1 DEF OrderInv, Fresh
<1>3. \A r \in Reporter : WillHide(r)' <=> WillHide(r)
  BY <1>1 DEF WillHide, Fresh
<1>4. ASSUME m_status = "OVER", shown'
      PROVE  shown /\ (Hides(signals) => Hides(signals'))
  <2>1. ASSUME NEW b, aboutOperationActivate(b)
        PROVE  shown /\ b
    BY <1>4, <2>1 DEF aboutOperationActivate, MayShow, TInv, ShownInv
  <2>2. CASE Handle
    <3>1. signals \in Seq(SignalSet) /\ signals # <<>> /\ signals' = Tail(signals)
      BY <2>2 DEF Handle, TInv, TypeOK
    <3>2. CASE Head(signals).sets = "shown"
      <4>1. shown /\ Head(signals).to
        BY <2>1, <2>2, <3>2 DEF Handle
      <4>2. Head(signals) # Show(FALSE)
        BY <4>1 DEF Show
      <4> QED
        BY <3>1, <4>1, <4>2, HidesHeadOrTail
    <3>3. CASE Head(signals).sets # "shown"
      <4>1. Show(FALSE).sets = "shown"
        BY DEF Show
      <4>2. shown /\ Head(signals) # Show(FALSE)
        BY <1>4, <2>2, <3>3, <4>1 DEF Handle
      <4> QED
        BY <3>1, <4>2, HidesHeadOrTail
    <3> QED
      BY <3>2, <3>3
  <2>3. CASE deactivate
    BY <2>1, <2>3 DEF deactivate
  <2>4. CASE activate \/ deactivateEnd
    BY <1>4, <2>4 DEF activate, deactivateEnd
  <2>5. CASE activateEnd
    BY <2>1, <2>5 DEF activateEnd
  <2> QED
    BY <2>2, <2>3, <2>4, <2>5 DEF Returns
<1> QED
  BY <1>1, <1>2, <1>3, <1>4 DEF EndInv, Hides

\* If an operation starts and ends between reports, its progress is not left on
\* the screen after its end or after the deactivation of the widget: the report
\* of the end is alone and is not dropped, and whatever signals and activations
\* are handled before its signals, only those of a progress in course show.
THEOREM NothingIsLeft == Apart /\ Spec => []NothingLeftShown
<1>1. Init => OrderInv /\ EndInv
  BY DEF Init, OrderInv, EndInv, Fresh, Resting
<1>2. TInv /\ Apart /\ OrderInv /\ EndInv /\ [Next]_vars => OrderInv' /\ EndInv'
  <2> SUFFICES ASSUME TInv, Apart, OrderInv, EndInv, [Next]_vars
               PROVE  OrderInv' /\ EndInv'
    OBVIOUS
  <2>1. ASSUME NEW r \in Reporter, Reports(r) \/ Sends(r)
        PROVE  OrderInv' /\ EndInv'
    BY <2>1, ReportsEnd, SendsEnd
  <2>2. CASE UNCHANGED vars
    BY <2>2 DEF vars, operation, widget, OrderInv, EndInv, Fresh, WillHide, Hides
  <2> QED
    BY <2>1, <2>2, WidgetEnd DEF Next
<1>3. TInv /\ EndInv => NothingLeftShown
  <2> SUFFICES ASSUME TInv, EndInv, Settled, shown
               PROVE  m_is_active /\ m_status = "PROCESSED"
    BY DEF NothingLeftShown
  <2>1. ~ Hides(signals)
    <3>1. signals = <<>> /\ Len(<<>>) = 0
      BY EmptySeq DEF Settled
    <3> QED
      BY <3>1 DEF Hides
  <2>2. ASSUME NEW r \in Reporter
        PROVE  ~ WillHide(r)
    <3>1. report[r].at = "rest"
      BY DEF Settled, Resting
    <3> QED
      BY <3>1 DEF WillHide, Fresh
  <2> QED
    BY <2>1, <2>2 DEF EndInv, TInv, TypeOK, ShownInv
<1>4. Apart => Apart'
  BY DEF Apart
<1> QED
  BY <1>1, <1>2, <1>3, <1>4, TypesInvariant, PTL DEF Spec

-----------------------------------------------------------------------------
(* A widget that is told shows the operation as it is.                     *)

\* Of the signals of s that set something of K, the last is x.
EndsAt(s, K, x) ==
    \E i \in 1 .. Len(s) :
        /\ s[i].sets \in K /\ s[i] = x
        /\ \A j \in 1 .. Len(s) : j > i => s[j].sets \notin K

Lacks(s, K) == \A i \in 1 .. Len(s) : s[i].sets \notin K

TheMaximum == {"maximum"}
TheBar == {"maximum", "value"}
TheFolder == {"shown"}

\* The signals that the report under way will still queue.
Emits ==
    IF m_notify_mutex \in Reporter /\ report[m_notify_mutex].at = "emit"
    THEN report[m_notify_mutex].emits ELSE <<>>

\* What e sets after s ends at x, or is left as it is now.
Reaches(e, s, K, x) == EndsAt(e, K, x) \/ (Lacks(e, K) /\ EndsAt(s, K, x))
Silent(e, s, K) == Lacks(e, K) /\ Lacks(s, K)

Fits(max, value) == max \in {Unset, 0} \/ value <= max

\* The widget shows the operation once it has got e after s.  A value that fits
\* comes after the maximum that makes room for it, so that the bar takes it.
Told(status, max, value, e, s, show, b, act) ==
    /\ status = "PROCESSED" =>
          \/ Reaches(e, s, TheFolder, Show(TRUE))
          \/ Silent(e, s, TheFolder) /\ (show \/ act = "on")
    /\ status = "PROCESSED" /\ max # Unset =>
          \/ Reaches(e, s, TheMaximum, Maximum(max))
          \/ Silent(e, s, TheMaximum) /\ (show => b.maximum = max)
    /\ status = "PROCESSED" /\ value # Unset /\ Fits(max, value) =>
          \/ Reaches(e, s, TheBar, Value(value))
          \/ Silent(e, s, TheBar) /\ (show => b.value = value)
    /\ status = "OVER" =>
          \/ Reaches(e, s, TheFolder, Show(FALSE))
          \/ Silent(e, s, TheFolder) /\ ~ show

CurrentInv ==
    current /\ m_is_active /\ activating # "off" =>
        Told(m_status, m_max, m_value, Emits, signals, shown, bar, activating)

\* Without a maximum the value is 0.
ZeroInv == m_max = Unset => m_value \in {Unset, 0}

LEMMA CurrentInvPrimed ==
    CurrentInv' <=>
        (current' /\ m_is_active' /\ activating' # "off" =>
            Told(m_status', m_max', m_value', Emits', signals', shown', bar', activating'))
BY DEF CurrentInv, Told, Reaches, Silent, EndsAt, Lacks, Fits

\* What the last signal of a sequence, or its first, does to where it ends.
LEMMA EndsAppended ==
    ASSUME NEW s \in Seq(SignalSet), NEW g \in SignalSet, NEW K, NEW x
    PROVE  /\ Lacks(Append(s, g), K) <=> Lacks(s, K) /\ g.sets \notin K
           /\ EndsAt(Append(s, g), K, x) <=>
                 \/ g.sets \in K /\ g = x
                 \/ g.sets \notin K /\ EndsAt(s, K, x)
<1> DEFINE t == Append(s, g)
<1>1. /\ Len(s) \in Nat /\ Len(t) = Len(s) + 1
      /\ \A i \in 1 .. Len(s) : t[i] = s[i]
      /\ t[Len(s) + 1] = g
  BY AppendProperties, LenProperties
<1> HIDE DEF t
<1> SUFFICES /\ Lacks(t, K) <=> Lacks(s, K) /\ g.sets \notin K
             /\ EndsAt(t, K, x) <=>
                   \/ g.sets \in K /\ g = x
                   \/ g.sets \notin K /\ EndsAt(s, K, x)
  BY DEF t
<1>2. 1 .. Len(t) = 1 .. Len(s) \cup {Len(s) + 1}
  BY <1>1
<1>3. Lacks(t, K) <=> Lacks(s, K) /\ g.sets \notin K
  BY <1>1, <1>2 DEF Lacks
<1>4. ASSUME g.sets \in K
      PROVE  EndsAt(t, K, x) <=> g = x
  BY <1>1, <1>2, <1>4 DEF EndsAt
<1>5. ASSUME g.sets \notin K
      PROVE  EndsAt(t, K, x) <=> EndsAt(s, K, x)
  BY <1>1, <1>2, <1>5 DEF EndsAt
<1> QED
  BY <1>3, <1>4, <1>5

LEMMA EndsHeadOrTail ==
    ASSUME NEW s \in Seq(SignalSet), s # <<>>, NEW K, NEW x
    PROVE  /\ Lacks(s, K) <=> Head(s).sets \notin K /\ Lacks(Tail(s), K)
           /\ EndsAt(s, K, x) <=>
                 \/ EndsAt(Tail(s), K, x)
                 \/ Lacks(Tail(s), K) /\ Head(s).sets \in K /\ Head(s) = x
<1> DEFINE t == Tail(s)
           h == Head(s)
<1>1. /\ Len(s) \in Nat /\ Len(t) = Len(s) - 1 /\ h = s[1] /\ Len(s) # 0
      /\ \A i \in 1 .. Len(t) : t[i] = s[i + 1]
  BY HeadTailProperties, LenProperties, EmptySeq
<1> HIDE DEF t, h
<1> SUFFICES /\ Lacks(s, K) <=> h.sets \notin K /\ Lacks(t, K)
             /\ EndsAt(s, K, x) <=>
                   \/ EndsAt(t, K, x)
                   \/ Lacks(t, K) /\ h.sets \in K /\ h = x
  BY DEF t, h
<1>2. ASSUME NEW i \in 1 .. Len(s), i # 1
      PROVE  i - 1 \in 1 .. Len(t) /\ t[i - 1] = s[i]
  BY <1>1, <1>2
<1>3. ASSUME NEW i \in 1 .. Len(t)
      PROVE  i + 1 \in 1 .. Len(s) /\ t[i] = s[i + 1] /\ i + 1 > 1
  BY <1>1, <1>3
<1>4. 1 \in 1 .. Len(s)
  BY <1>1
<1>5. Lacks(s, K) <=> h.sets \notin K /\ Lacks(t, K)
  BY <1>1, <1>2, <1>3, <1>4 DEF Lacks
<1>6. ASSUME EndsAt(t, K, x)
      PROVE  EndsAt(s, K, x)
  <2>1. PICK i \in 1 .. Len(t) :
           /\ t[i].sets \in K /\ t[i] = x
           /\ \A j \in 1 .. Len(t) : j > i => t[j].sets \notin K
    BY <1>6 DEF EndsAt
  <2>2. ASSUME NEW j \in 1 .. Len(s), j > i + 1
        PROVE  s[j].sets \notin K
    BY <1>2, <2>1, <2>2
  <2> QED
    BY <1>3, <2>1, <2>2 DEF EndsAt
<1>7. ASSUME Lacks(t, K), h.sets \in K, h = x
      PROVE  EndsAt(s, K, x)
  <2>1. \A j \in 1 .. Len(s) : j > 1 => s[j].sets \notin K
    BY <1>2, <1>7 DEF Lacks
  <2> QED
    BY <1>1, <1>4, <1>7, <2>1 DEF EndsAt
<1>8. ASSUME EndsAt(s, K, x)
      PROVE  EndsAt(t, K, x) \/ (Lacks(t, K) /\ h.sets \in K /\ h = x)
  <2>1. PICK i \in 1 .. Len(s) :
           /\ s[i].sets \in K /\ s[i] = x
           /\ \A j \in 1 .. Len(s) : j > i => s[j].sets \notin K
    BY <1>8 DEF EndsAt
  <2>2. ASSUME NEW j \in 1 .. Len(t), j > i - 1
        PROVE  t[j].sets \notin K
    <3>1. j + 1 > i
      BY <2>2
    <3> QED
      BY <1>3, <2>1, <3>1
  <2>3. CASE i = 1
    BY <1>1, <2>1, <2>2, <2>3 DEF Lacks
  <2>4. CASE i # 1
    BY <1>2, <2>1, <2>2, <2>4 DEF EndsAt
  <2> QED
    BY <2>3, <2>4
<1> QED
  BY <1>5, <1>6, <1>7, <1>8

LEMMA EndsEmpty ==
    ASSUME NEW K, NEW x
    PROVE  Lacks(<<>>, K) /\ ~ EndsAt(<<>>, K, x)
<1>1. 1 .. Len(<<>>) = {}
  BY EmptySeq
<1> QED
  BY <1>1 DEF Lacks, EndsAt

\* What is silent reaches nothing, and is silent in all its parts.
LEMMA SilentReachesNothing ==
    ASSUME NEW e, NEW s, NEW K, NEW x, Silent(e, s, K)
    PROVE  /\ ~ Reaches(e, s, K, x)
           /\ \A L \in SUBSET K : Silent(e, s, L)
BY DEF Silent, Reaches, Lacks, EndsAt

\* What notify emits tells the status, and the progress of an operation in course.
LEMMA SignalsTell ==
    ASSUME NEW status \in {"PROCESSED", "OVER"}
    PROVE  LET s == Signals(status)
           IN /\ status = "PROCESSED" => EndsAt(s, TheFolder, Show(TRUE))
              /\ status = "PROCESSED" /\ m_max # Unset => EndsAt(s, TheMaximum, Maximum(m_max))
              /\ status = "PROCESSED" /\ m_value # Unset => EndsAt(s, TheBar, Value(m_value))
              /\ status = "OVER" => EndsAt(s, TheFolder, Show(FALSE))
<1>1. \A x : Show(x).sets = "shown" /\ Maximum(x).sets = "maximum" /\ Value(x).sets = "value"
  BY DEF Show, Maximum, Value
<1>2. ASSUME NEW a, NEW K, a.sets \in K
      PROVE  EndsAt(<<a>>, K, a)
  <2> DEFINE s == <<a>>
  <2>1. Len(s) = 1 /\ s[1] = a
    OBVIOUS
  <2> HIDE DEF s
  <2>2. EndsAt(s, K, a)
    BY <1>2, <2>1 DEF EndsAt
  <2> QED
    BY <2>2 DEF s
<1>3. ASSUME NEW a, NEW c, NEW K
      PROVE  /\ a.sets \in K /\ c.sets \notin K => EndsAt(<<a, c>>, K, a)
             /\ c.sets \in K => EndsAt(<<a, c>>, K, c)
  <2> DEFINE s == <<a, c>>
  <2>1. Len(s) = 2 /\ s[1] = a /\ s[2] = c
    OBVIOUS
  <2> HIDE DEF s
  <2>2. /\ a.sets \in K /\ c.sets \notin K => EndsAt(s, K, a)
        /\ c.sets \in K => EndsAt(s, K, c)
    BY <2>1 DEF EndsAt
  <2> QED
    BY <2>2 DEF s
<1>4. ASSUME NEW a, NEW c, NEW d, NEW K
      PROVE  /\ a.sets \in K /\ c.sets \notin K /\ d.sets \notin K => EndsAt(<<a, c, d>>, K, a)
             /\ c.sets \in K /\ d.sets \notin K => EndsAt(<<a, c, d>>, K, c)
             /\ d.sets \in K => EndsAt(<<a, c, d>>, K, d)
  <2> DEFINE s == <<a, c, d>>
  <2>1. Len(s) = 3 /\ s[1] = a /\ s[2] = c /\ s[3] = d
    OBVIOUS
  <2> HIDE DEF s
  <2>2. /\ a.sets \in K /\ c.sets \notin K /\ d.sets \notin K => EndsAt(s, K, a)
        /\ c.sets \in K /\ d.sets \notin K => EndsAt(s, K, c)
        /\ d.sets \in K => EndsAt(s, K, d)
    BY <2>1 DEF EndsAt
  <2> QED
    BY <2>2 DEF s
<1> DEFINE s == Signals(status)
<1> SUFFICES /\ status = "PROCESSED" => EndsAt(s, TheFolder, Show(TRUE))
             /\ status = "PROCESSED" /\ m_max # Unset => EndsAt(s, TheMaximum, Maximum(m_max))
             /\ status = "PROCESSED" /\ m_value # Unset => EndsAt(s, TheBar, Value(m_value))
             /\ status = "OVER" => EndsAt(s, TheFolder, Show(FALSE))
  OBVIOUS
<1>5. CASE status = "OVER"
  <2>1. s = <<Show(FALSE), Value(0)>>
    BY <1>5, SignalsSpelled
  <2>2. EndsAt(<<Show(FALSE), Value(0)>>, TheFolder, Show(FALSE))
    BY <1>1, <1>3 DEF TheFolder
  <2> QED
    BY <1>5, <2>1, <2>2
<1>6. CASE status = "PROCESSED" /\ m_max = Unset /\ m_value = Unset
  <2>1. s = <<Show(TRUE)>>
    BY <1>6, SignalsSpelled
  <2>2. EndsAt(<<Show(TRUE)>>, TheFolder, Show(TRUE))
    BY <1>1, <1>2 DEF TheFolder
  <2> QED
    BY <1>6, <2>1, <2>2
<1>7. CASE status = "PROCESSED" /\ m_max # Unset /\ m_value = Unset
  <2>1. s = <<Show(TRUE), Maximum(m_max)>>
    BY <1>7, SignalsSpelled
  <2>2. /\ EndsAt(<<Show(TRUE), Maximum(m_max)>>, TheFolder, Show(TRUE))
        /\ EndsAt(<<Show(TRUE), Maximum(m_max)>>, TheMaximum, Maximum(m_max))
    BY <1>1, <1>3 DEF TheFolder, TheMaximum
  <2> QED
    BY <1>7, <2>1, <2>2
<1>8. CASE status = "PROCESSED" /\ m_max = Unset /\ m_value # Unset
  <2>1. s = <<Show(TRUE), Value(m_value)>>
    BY <1>8, SignalsSpelled
  <2>2. /\ EndsAt(<<Show(TRUE), Value(m_value)>>, TheFolder, Show(TRUE))
        /\ EndsAt(<<Show(TRUE), Value(m_value)>>, TheBar, Value(m_value))
    BY <1>1, <1>3 DEF TheFolder, TheBar
  <2> QED
    BY <1>8, <2>1, <2>2
<1>9. CASE status = "PROCESSED" /\ m_max # Unset /\ m_value # Unset
  <2>1. s = <<Show(TRUE), Maximum(m_max), Value(m_value)>>
    BY <1>9, SignalsSpelled
  <2> DEFINE u == <<Show(TRUE), Maximum(m_max), Value(m_value)>>
  <2>2. /\ EndsAt(u, TheFolder, Show(TRUE))
        /\ EndsAt(u, TheMaximum, Maximum(m_max))
        /\ EndsAt(u, TheBar, Value(m_value))
    BY <1>1, <1>4 DEF TheFolder, TheMaximum, TheBar
  <2> QED
    BY <1>9, <2>1, <2>2
<1> QED
  BY <1>5, <1>6, <1>7, <1>8, <1>9

\* A signal that is queued is still to come.
LEMMA ToldEmitted ==
    ASSUME NEW e \in Seq(SignalSet), e # <<>>, NEW s \in Seq(SignalSet),
           NEW status, NEW max, NEW value, NEW show, NEW b, NEW act,
           Told(status, max, value, e, s, show, b, act)
    PROVE  Told(status, max, value, Tail(e), Append(s, Head(e)), show, b, act)
<1>1. Head(e) \in SignalSet
  BY HeadTailProperties
<1>2. ASSUME NEW K, NEW x
      PROVE  /\ Silent(Tail(e), Append(s, Head(e)), K) <=> Silent(e, s, K)
             /\ Reaches(Tail(e), Append(s, Head(e)), K, x) <=> Reaches(e, s, K, x)
  BY <1>1, EndsAppended, EndsHeadOrTail DEF Silent, Reaches
<1> QED
  BY <1>2 DEF Told

LEMMA SendsTell ==
    ASSUME TInv, CurrentInv, NEW r \in Reporter, Sends(r)
    PROVE  CurrentInv'
<1> USE DEF Resting
<1>1. /\ report[r] \in ReportType /\ Free \notin Reporter
      /\ UNCHANGED <<m_status, m_max, m_value, m_is_active, shown, bar, activating>>
  BY NamesAssumption
     DEF TInv, MutexInv, Sends, Lock, Drop, notify, emit, Unlock, operation, widget
<1>2. ASSUME Emits' = Emits, signals' = signals, current' = current
      PROVE  CurrentInv'
  BY <1>1, <1>2, CurrentInvPrimed DEF CurrentInv
<1>3. CASE Lock(r)
  <2>1. Emits = <<>>
    BY <1>1, <1>3 DEF Lock, Emits
  <2>2. report[r] \in [at : {"tryLock", "notify"}, status : {"PROCESSED", "OVER"}]
    BY <1>1, <1>3 DEF Lock, ReportType
  <2>3. m_notify_mutex' = r /\ report'[r].at = "notify"
    BY <1>3, <2>2 DEF Lock, TInv, MutexInv
  <2> QED
    BY <1>2, <1>3, <2>1, <2>3 DEF Lock, Emits
<1>4. CASE Drop(r)
  <2>1. m_notify_mutex # r /\ m_notify_mutex' = m_notify_mutex
    BY <1>4 DEF Drop, TInv, MutexInv
  <2>2. \A s \in Reporter \ {r} : report'[s] = report[s]
    BY <1>4 DEF Drop, TInv, MutexInv
  <2> QED
    BY <1>2, <1>4, <2>1, <2>2 DEF Drop, Emits
<1>5. CASE notify(r)
  <2>1. CASE m_is_active
    <3>1. report[r].status \in {"PROCESSED", "OVER"}
      BY <1>1, <1>5 DEF notify, ReportType
    <3>2. CASE report[r].status = m_status
      <4> DEFINE e == Signals(m_status)
      <4>1. /\ m_status = "PROCESSED" => EndsAt(e, TheFolder, Show(TRUE))
            /\ m_status = "PROCESSED" /\ m_max # Unset => EndsAt(e, TheMaximum, Maximum(m_max))
            /\ m_status = "PROCESSED" /\ m_value # Unset => EndsAt(e, TheBar, Value(m_value))
            /\ m_status = "OVER" => EndsAt(e, TheFolder, Show(FALSE))
        BY <3>1, <3>2, SignalsTell
      <4>2. report'[r] = [at |-> "emit", emits |-> e]
        BY <1>5, <2>1, <3>2 DEF notify, TInv, MutexInv
      <4> HIDE DEF e
      <4>3. m_notify_mutex' = r
        BY <1>5 DEF notify, TInv, MutexInv
      <4>4. Emits' = e
        BY <4>2, <4>3 DEF Emits
      <4>5. Told(m_status, m_max, m_value, e, signals', shown', bar', activating')
        BY <4>1 DEF Told, Reaches
      <4> QED
        BY <1>1, <4>4, <4>5, CurrentInvPrimed
    <3>3. CASE report[r].status # m_status
      BY <1>5, <2>1, <3>3, CurrentInvPrimed DEF notify
    <3> QED
      BY <3>2, <3>3
  <2>2. CASE ~ m_is_active
    BY <1>1, <2>2, CurrentInvPrimed
  <2> QED
    BY <2>1, <2>2
<1>6. CASE emit(r)
  <2> DEFINE e == report[r].emits
  <2>1. report[r] \in [at : {"emit"}, emits : Seq(SignalSet)] /\ m_notify_mutex = r
    BY <1>1, <1>6 DEF emit, ReportType, TInv, MutexInv
  <2>2. /\ e \in Seq(SignalSet) /\ e # <<>> /\ signals \in Seq(SignalSet)
        /\ signals' = Append(signals, Head(e))
        /\ current' = current /\ m_notify_mutex' = r
    BY <1>6, <2>1 DEF emit, TInv, TypeOK
  <2>3. Emits = e
    BY <2>1 DEF Emits
  <2>4. report'[r].at = "emit" /\ report'[r].emits = Tail(e)
    BY <1>6, <2>1 DEF emit, TInv, MutexInv
  <2>5. Emits' = Tail(e)
    BY <2>2, <2>4 DEF Emits
  <2> HIDE DEF e
  <2>6. Told(m_status, m_max, m_value, e, signals, shown, bar, activating) =>
           Told(m_status, m_max, m_value, Tail(e), Append(signals, Head(e)), shown, bar, activating)
    BY <2>2, ToldEmitted
  <2> QED
    BY <1>1, <2>2, <2>3, <2>5, <2>6, CurrentInvPrimed DEF CurrentInv
<1>7. CASE Unlock(r)
  <2>1. m_notify_mutex = r /\ Emits = <<>>
    BY <1>7 DEF Unlock, Emits, TInv, MutexInv
  <2>2. Emits' = <<>>
    BY <1>1, <1>7 DEF Unlock, Emits
  <2> QED
    BY <1>2, <1>7, <2>1, <2>2 DEF Unlock
<1> QED
  BY <1>3, <1>4, <1>5, <1>6, <1>7 DEF Sends

\* Shown anew, the bar has the maximum and the value of the operation.
LEMMA UpdateTells ==
    ASSUME TInv, ZeroInv
    PROVE  /\ m_max # Unset => updateOperation(bar).maximum = m_max
           /\ m_value # Unset /\ Fits(m_max, m_value) => updateOperation(bar).value = m_value
<1>1. /\ bar = [maximum |-> bar.maximum, value |-> bar.value]
      /\ bar.maximum \in Nat
      /\ m_max \in Nat \cup {Unset} /\ m_value \in Nat \cup {Unset}
  BY BoundsAssumption DEF TInv, TypeOK, Bars, Progresses, DefaultMaximum
<1> DEFINE ranged == IF m_max = Unset THEN bar ELSE setMaximum(bar, m_max)
<1>2. /\ ranged = [maximum |-> ranged.maximum, value |-> ranged.value]
      /\ ranged.maximum = IF m_max = Unset THEN bar.maximum ELSE m_max
  BY <1>1 DEF setMaximum
<1>3. updateOperation(bar) = IF m_value = Unset THEN ranged ELSE setValue(ranged, m_value)
  BY DEF updateOperation
<1> HIDE DEF ranged
<1>4. setValue(ranged, m_value).maximum = ranged.maximum
  BY <1>2 DEF setValue
<1>5. ASSUME m_value # Unset, Fits(m_max, m_value)
      PROVE  setValue(ranged, m_value).value = m_value
  <2>1. InRange(ranged, m_value)
    BY <1>1, <1>2, <1>5 DEF Fits, InRange, ZeroInv
  <2> QED
    BY <1>2, <2>1 DEF setValue
<1> QED
  BY <1>2, <1>3, <1>4, <1>5

LEMMA HandleTells ==
    ASSUME TInv, ZeroInv, CurrentInv, Handle
    PROVE  CurrentInv'
<1> DEFINE h == Head(signals)
           t == Tail(signals)
<1>1. /\ UNCHANGED <<m_status, m_max, m_value, m_notify_mutex, report, m_is_active, activating, current>>
      /\ activating = "none" /\ signals' = t
      /\ signals \in Seq(SignalSet) /\ signals # <<>> /\ h \in SignalSet
      /\ shown \in BOOLEAN
  BY HeadTailProperties DEF Handle, operation, TInv, TypeOK
<1>2. Emits' = Emits
  BY <1>1 DEF Emits
<1>3. ASSUME NEW K, NEW x
      PROVE  /\ Silent(Emits, signals, K) <=> Silent(Emits, t, K) /\ h.sets \notin K
             /\ Reaches(Emits, signals, K, x) <=>
                   \/ Reaches(Emits, t, K, x)
                   \/ Silent(Emits, t, K) /\ h.sets \in K /\ h = x
  BY <1>1, EndsHeadOrTail DEF Silent, Reaches
<1>4. \/ h.sets = "shown" /\ aboutOperationActivate(h.to)
      \/ h.sets = "maximum" /\ bar' = setMaximum(bar, h.to) /\ shown' = shown
      \/ h.sets = "value" /\ bar' = setValue(bar, h.to) /\ shown' = shown
  BY DEF Handle
<1>5. h.sets = "shown" => h.to \in BOOLEAN
  BY <1>1 DEF SignalSet, Show, Maximum, Value
<1>6. \A x : /\ Show(x).sets = "shown" /\ Show(x).to = x
             /\ Maximum(x).sets = "maximum" /\ Maximum(x).to = x
             /\ Value(x).sets = "value" /\ Value(x).to = x
  BY DEF Show, Maximum, Value
<1>7. /\ bar = [maximum |-> bar.maximum, value |-> bar.value]
      /\ bar.maximum \in Nat
      /\ m_max \in Nat \cup {Unset} /\ m_value \in Nat \cup {Unset}
  BY BoundsAssumption DEF TInv, TypeOK, Bars, Progresses, DefaultMaximum
<1> HIDE DEF h, t
<1> DEFINE S(s, K) == Silent(Emits, s, K)
           R(s, K, x) == Reaches(Emits, s, K, x)
<1>8. ASSUME NEW K, NEW x
      PROVE  /\ S(signals, K) <=> S(t, K) /\ h.sets \notin K
             /\ R(signals, K, x) <=> R(t, K, x) \/ (S(t, K) /\ h.sets \in K /\ h = x)
  BY <1>3
<1>9. ASSUME m_is_active, Told(m_status, m_max, m_value, Emits, signals, shown, bar, "none")
      PROVE  Told(m_status, m_max, m_value, Emits, t, shown', bar', "none")
  <2>1. CASE h.sets = "shown" /\ h.to = TRUE
    <3>1. /\ shown' = (shown \/ MayShow)
          /\ bar' = IF MayShow THEN updateOperation(bar) ELSE bar
      BY <1>4, <1>9, <2>1 DEF aboutOperationActivate
    <3>2. /\ ~ S(signals, TheFolder)
          /\ R(signals, TheFolder, Show(FALSE)) => R(t, TheFolder, Show(FALSE))
          /\ R(signals, TheFolder, Show(TRUE)) => R(t, TheFolder, Show(TRUE)) \/ S(t, TheFolder)
          /\ S(signals, TheMaximum) => S(t, TheMaximum)
          /\ R(signals, TheMaximum, Maximum(m_max)) => R(t, TheMaximum, Maximum(m_max))
          /\ S(signals, TheBar) => S(t, TheBar)
          /\ R(signals, TheBar, Value(m_value)) => R(t, TheBar, Value(m_value))
      BY <1>6, <1>8, <2>1 DEF TheFolder, TheMaximum, TheBar
    <3> QED
      BY <1>1, <1>9, <3>1, <3>2, UpdateTells DEF Told, MayShow
  <2>2. CASE h.sets = "shown" /\ h.to = FALSE
    <3>1. ~ shown' /\ bar' = bar
      BY <1>4, <1>9, <2>2 DEF aboutOperationActivate
    <3>2. /\ ~ S(signals, TheFolder)
          /\ R(signals, TheFolder, Show(FALSE)) => R(t, TheFolder, Show(FALSE)) \/ S(t, TheFolder)
          /\ R(signals, TheFolder, Show(TRUE)) => R(t, TheFolder, Show(TRUE))
          /\ S(signals, TheMaximum) => S(t, TheMaximum)
          /\ R(signals, TheMaximum, Maximum(m_max)) => R(t, TheMaximum, Maximum(m_max))
          /\ S(signals, TheBar) => S(t, TheBar)
          /\ R(signals, TheBar, Value(m_value)) => R(t, TheBar, Value(m_value))
      BY <1>6, <1>8, <2>2 DEF TheFolder, TheMaximum, TheBar
    <3> QED
      BY <1>1, <1>9, <3>1, <3>2 DEF Told
  <2>3. ASSUME h.sets \in TheBar
        PROVE  /\ S(signals, TheFolder) => S(t, TheFolder)
               /\ R(signals, TheFolder, Show(FALSE)) => R(t, TheFolder, Show(FALSE))
               /\ R(signals, TheFolder, Show(TRUE)) => R(t, TheFolder, Show(TRUE))
               /\ ~ S(signals, TheBar)
    BY <1>8, <2>3 DEF TheFolder, TheBar
  <2>4. CASE h.sets = "maximum"
    <3>1. shown' = shown /\ bar'.maximum = h.to
      BY <1>4, <2>4 DEF setMaximum
    <3>2. /\ ~ S(signals, TheMaximum)
          /\ R(signals, TheMaximum, Maximum(m_max)) =>
                R(t, TheMaximum, Maximum(m_max)) \/ (S(t, TheMaximum) /\ h.to = m_max)
          /\ R(signals, TheBar, Value(m_value)) => R(t, TheBar, Value(m_value))
      BY <1>6, <1>8, <2>4 DEF TheMaximum, TheBar
    <3>3. h.sets \in TheBar
      BY <2>4 DEF TheBar
    <3> QED
      BY <1>9, <2>3, <3>1, <3>2, <3>3 DEF Told
  <2>5. CASE h.sets = "value"
    <3>1. shown' = shown /\ bar' = setValue(bar, h.to)
      BY <1>4, <2>5
    <3>2. bar'.maximum = bar.maximum
      BY <1>7, <3>1 DEF setValue
    <3>3. /\ S(signals, TheMaximum) <=> S(t, TheMaximum)
          /\ R(signals, TheMaximum, Maximum(m_max)) <=> R(t, TheMaximum, Maximum(m_max))
          /\ R(signals, TheBar, Value(m_value)) =>
                R(t, TheBar, Value(m_value)) \/ (S(t, TheBar) /\ h.to = m_value)
      BY <1>6, <1>8, <2>5 DEF TheMaximum, TheBar
    <3>4. h.sets \in TheBar
      BY <2>5 DEF TheBar
    <3>5. ASSUME m_status = "PROCESSED", m_value # Unset, Fits(m_max, m_value), shown,
                 S(t, TheBar), h.to = m_value
          PROVE  bar'.value = m_value
      <4>1. S(signals, TheMaximum)
        BY <3>3, <3>5, SilentReachesNothing DEF TheBar, TheMaximum
      <4>2. m_max # Unset => bar.maximum = m_max
        BY <1>9, <3>5, <4>1, SilentReachesNothing DEF Told
      <4>3. InRange(bar, m_value)
        BY <1>7, <3>5, <4>2 DEF InRange, Fits, ZeroInv
      <4> QED
        BY <1>7, <3>1, <3>5, <4>3 DEF setValue
    <3> QED
      BY <1>9, <2>3, <3>1, <3>2, <3>3, <3>4, <3>5 DEF Told
  <2> QED
    BY <1>4, <1>5, <2>1, <2>2, <2>4, <2>5
<1> QED
  BY <1>1, <1>2, <1>9, CurrentInvPrimed DEF CurrentInv

LEMMA WidgetTells ==
    ASSUME TInv, ZeroInv, CurrentInv, Handle \/ deactivate \/ activate \/ Returns
    PROVE  CurrentInv'
<1>1. UNCHANGED <<m_status, m_max, m_value, m_notify_mutex, report>>
  BY DEF Handle, deactivate, activate, Returns, deactivateEnd, activateEnd, operation
<1>2. Emits' = Emits
  BY <1>1 DEF Emits
<1>3. CASE deactivate
  BY <1>3, CurrentInvPrimed DEF deactivate
<1>4. CASE deactivateEnd
  BY <1>4, CurrentInvPrimed DEF deactivateEnd
<1>5. CASE activate
  <2>1. CASE m_is_active
    <3>1. Told(m_status, m_max, m_value, Emits, signals, shown, bar, activating) =>
             Told(m_status, m_max, m_value, Emits, signals, shown, bar, "on")
      BY DEF Told
    <3> QED
      BY <1>1, <1>2, <1>5, <2>1, <3>1, CurrentInvPrimed DEF activate, CurrentInv
  <2>2. CASE ~ m_is_active
    <3>1. ~ shown
      BY <2>2 DEF TInv, ShownInv
    <3>2. ASSUME Undisturbed
          PROVE  Told(m_status, m_max, m_value, Emits, signals, shown, bar, "on")
      <4>1. signals = <<>> /\ Emits = <<>>
        BY <3>2 DEF Undisturbed, Emits
      <4>2. \A K : Silent(Emits, signals, K)
        BY <4>1, EndsEmpty DEF Silent
      <4> QED
        BY <3>1, <4>2 DEF Told
    <3> QED
      BY <1>1, <1>2, <1>5, <2>2, <3>2, CurrentInvPrimed DEF activate
  <2> QED
    BY <2>1, <2>2
<1>6. CASE activateEnd
  <2>1. /\ shown' = (shown \/ MayShow) /\ m_is_active
        /\ bar' = IF MayShow THEN updateOperation(bar) ELSE bar
        /\ UNCHANGED <<signals, m_is_active, current>>
        /\ activating = "on" /\ activating' = "none"
        /\ shown \in BOOLEAN
    BY <1>6 DEF activateEnd, aboutOperationActivate, TInv, TypeOK, ShownInv
  <2>2. Told(m_status, m_max, m_value, Emits, signals, shown, bar, "on") =>
           Told(m_status, m_max, m_value, Emits, signals, shown', bar', "none")
    BY <2>1, UpdateTells DEF Told, MayShow
  <2> QED
    BY <1>1, <1>2, <2>1, <2>2, CurrentInvPrimed DEF CurrentInv
<1> QED
  BY <1>3, <1>4, <1>5, <1>6, HandleTells DEF Returns

\* However the reports of any number of threads overlap, and whichever of them
\* are dropped: a widget that has heard of the last change while active, or was
\* activated after it with no signals under way, shows the operation as it is:
\* the bar has its maximum, and its value unless the maximum is below that.
THEOREM OperationIsShown == Spec => []ShowsTheOperation
<1>1. Init => CurrentInv /\ ZeroInv
  BY DEF Init, CurrentInv, ZeroInv
<1>2. TInv /\ ZeroInv /\ CurrentInv /\ [Next]_vars => CurrentInv'
  <2> SUFFICES ASSUME TInv, ZeroInv, CurrentInv, [Next]_vars
               PROVE  CurrentInv'
    OBVIOUS
  <2>1. ASSUME NEW r \in Reporter, Reports(r)
        PROVE  CurrentInv'
    <3>1. current' = FALSE
      BY <2>1 DEF Reports, started, finished, progress, progressMaximum, Begin
    <3> QED
      BY <3>1, CurrentInvPrimed
  <2>2. ASSUME NEW r \in Reporter, Sends(r)
        PROVE  CurrentInv'
    BY <2>2, SendsTell
  <2>3. CASE UNCHANGED vars
    <3>1. /\ UNCHANGED <<m_status, m_max, m_value, m_notify_mutex, report, signals>>
          /\ UNCHANGED <<m_is_active, shown, bar, activating, current>>
      BY <2>3 DEF vars, operation, widget
    <3>2. Emits' = Emits
      BY <3>1 DEF Emits
    <3> QED
      BY <3>1, <3>2, CurrentInvPrimed DEF CurrentInv
  <2> QED
    BY <2>1, <2>2, <2>3, WidgetTells DEF Next
<1>3. TInv /\ ZeroInv /\ [Next]_vars => ZeroInv'
  <2> SUFFICES ASSUME TInv, ZeroInv, [Next]_vars
               PROVE  ZeroInv'
    OBVIOUS
  <2>1. ASSUME NEW r \in Reporter, Reports(r)
        PROVE  ZeroInv'
    <3>1. CASE started(r) \/ finished(r)
      BY <3>1 DEF started, finished, ZeroInv
    <3>2. CASE progress(r)
      BY <3>2 DEF progress, Clamped, ZeroInv
    <3>3. CASE progressMaximum(r)
      <4>1. m_max' \in Nat /\ m_max' # Unset
        BY <3>3, NamesAssumption, BoundsAssumption DEF progressMaximum
      <4> QED
        BY <4>1 DEF ZeroInv
    <3> QED
      BY <2>1, <3>1, <3>2, <3>3 DEF Reports
  <2>2. ASSUME UNCHANGED <<m_max, m_value>>
        PROVE  ZeroInv'
    BY <2>2 DEF ZeroInv
  <2>3. ASSUME NEW r \in Reporter, Sends(r)
        PROVE  UNCHANGED <<m_max, m_value>>
    BY <2>3 DEF Sends, Lock, Drop, notify, emit, Unlock, operation
  <2>4. CASE Handle \/ deactivate \/ activate \/ Returns
    BY <2>2, <2>4 DEF Handle, deactivate, activate, Returns, deactivateEnd, activateEnd, operation
  <2>5. CASE UNCHANGED vars
    BY <2>2, <2>5 DEF vars, operation
  <2> QED
    BY <2>1, <2>2, <2>3, <2>4, <2>5 DEF Next
<1>4. TInv /\ CurrentInv => ShowsTheOperation
  <2> SUFFICES ASSUME TInv, CurrentInv, Settled, current, m_is_active
               PROVE  /\ shown <=> m_status = "PROCESSED"
                      /\ shown /\ m_max # Unset => bar.maximum = m_max
                      /\ shown /\ m_value # Unset /\ (m_max \in {Unset, 0} \/ m_value <= m_max) =>
                            bar.value = m_value
    BY DEF ShowsTheOperation
  <2>1. signals = <<>> /\ activating = "none" /\ Emits = <<>>
    BY DEF Settled, Emits, Resting
  <2>2. Told(m_status, m_max, m_value, <<>>, <<>>, shown, bar, "none")
    BY <2>1 DEF CurrentInv
  <2>3. ASSUME NEW K, NEW x
        PROVE  ~ Reaches(<<>>, <<>>, K, x)
    BY EndsEmpty DEF Reaches
  <2>4. m_status \in {"PROCESSED", "OVER"}
    BY DEF TInv, TypeOK
  <2> QED
    BY <2>2, <2>3, <2>4 DEF Told, Fits
<1> QED
  BY <1>1, <1>2, <1>3, <1>4, TypesInvariant, PTL DEF Spec

=============================================================================
