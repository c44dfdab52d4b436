------------------------------ MODULE Progress ------------------------------
(***************************************************************************)
(* OAF::CProgressWatcher (libs/liboaf-std/src/CProgressWatcher.cpp) and    *)
(* OAF::CProgressWidget (libs/liboaf-gui/src/CProgressWidget.cpp).         *)
(*                                                                         *)
(* The threads of a long operation report to the watcher: each report      *)
(* changes m_status or m_values, then tries to lock m_notify_mutex, and is *)
(* dropped if another is being sent.  What is sent reaches the widget's    *)
(* notify in the thread that reports, which turns it into queued signals   *)
(* of Qt.  The GUI thread handles these one by one, and it activates and   *)
(* deactivates the widget whenever it likes, which handles its own signal  *)
(* at once, ahead of those in the queue.                                   *)
(*                                                                         *)
(* The bar is a QProgressBar, which has a range: a value out of it is      *)
(* refused, and a maximum below its value resets the bar.  Maxima are not  *)
(* negative here, so that its minimum is 0 throughout and the signal that  *)
(* sets it to 0, ahead of every maximum, changes nothing and is left out.  *)
(*                                                                         *)
(* FINISHED, CANCELLED and ABORTED are one status here, "OVER".            *)
(***************************************************************************)
EXTENDS Integers, Sequences

CONSTANTS
    Reporter,       \* threads that report on the operation
    Overlap,        \* FALSE: an operation starts and ends between reports
    MaxProgress,    \* bound on the values of the progress
    MaxSignals,     \* bound on the signals still to be handled when a report begins
    Free, Unset     \* no owner of the mutex; a key that m_values lacks

ASSUME BoundsAssumption == MaxProgress \in Nat /\ MaxSignals \in Nat \ {0}
ASSUME NamesAssumption ==
    /\ Overlap \in BOOLEAN
    /\ Free \notin Reporter /\ Unset \notin Nat

VARIABLES
    m_status,           \* "PROCESSED" or "OVER"
    m_max, m_value,     \* "progress_max" and "progress_value" of m_values
    m_notify_mutex,     \* the reporter who holds it, or Free
    report,             \* report[r]: what r has to send, and how far it is
    signals,            \* signals queued for the GUI thread
    m_is_active,
    shown,              \* m_id_operation_status is not null
    bar,                \* the maximum and the value of the progress bar
    activating,         \* the activate call of the GUI thread, or "none"
    current             \* the widget knows all, or the signals will tell it

operation == <<m_status, m_max, m_value>>
widget == <<m_is_active, shown, bar, activating>>
vars == <<operation, m_notify_mutex, report, signals, widget, current>>

Resting == [at |-> "rest"]

-----------------------------------------------------------------------------
(* CProgressWatcher.                                                       *)

\* The signals that wait for the GUI thread, with those that r has still to queue.
Unhandled(r) == Len(signals) + IF report[r].at = "emit" THEN Len(report[r].emits) ELSE 0

\* A report begins: the state is changed, the widget does not know it yet.
Begin(r) ==
    /\ report[r] = Resting
    /\ \A s \in Reporter : Unhandled(s) <= MaxSignals
    /\ report' = [report EXCEPT ![r] = [at |-> "tryLock", status |-> m_status']]
    /\ current' = FALSE
    /\ UNCHANGED <<m_notify_mutex, signals, widget>>

BetweenReports == Overlap \/ \A r \in Reporter : report[r] = Resting

started(r) ==
    /\ m_status = "OVER" /\ BetweenReports
    /\ m_status' = "PROCESSED"
    /\ m_max' = Unset /\ m_value' = Unset
    /\ Begin(r)

\* finished, cancelled and aborted.
finished(r) ==
    /\ m_status = "PROCESSED" /\ BetweenReports
    /\ m_status' = "OVER"
    /\ UNCHANGED <<m_max, m_value>>
    /\ Begin(r)

\* Fault: the value may grow beyond the maximum.
Clamped_Not(v) == IF m_max = Unset THEN 0 ELSE v

Clamped(v) == IF m_max = Unset THEN 0 ELSE IF v <= m_max THEN v ELSE m_max

\* progressMinimum and progress, with v; progressStep.
progress(r) ==
    /\ m_status = "PROCESSED"
    /\ \E v \in (0 .. MaxProgress) \cup {IF m_value = Unset THEN 1 ELSE m_value + 1} :
          m_value' = Clamped(v)
    /\ UNCHANGED <<m_status, m_max>>
    /\ Begin(r)

progressMaximum(r) ==
    /\ m_status = "PROCESSED"
    /\ m_max' \in 0 .. MaxProgress
    /\ UNCHANGED <<m_status, m_value>>
    /\ Begin(r)

\* tryLock succeeds, and the listeners are called.
Lock(r) ==
    /\ report[r].at = "tryLock"
    /\ m_notify_mutex = Free
    /\ m_notify_mutex' = r
    /\ report' = [report EXCEPT ![r].at = "notify"]
    /\ UNCHANGED <<operation, signals, widget, current>>

Drop(r) ==
    /\ report[r].at = "tryLock"
    /\ m_notify_mutex # Free
    /\ report' = [report EXCEPT ![r] = Resting]
    /\ UNCHANGED <<operation, m_notify_mutex, signals, widget, current>>

Unlock(r) ==
    /\ report[r].at = "emit" /\ report[r].emits = <<>>
    /\ m_notify_mutex' = Free
    /\ report' = [report EXCEPT ![r] = Resting]
    /\ UNCHANGED <<operation, signals, widget, current>>

-----------------------------------------------------------------------------
(* CProgressWidget, in the thread that reports.                            *)

Show(b)    == [sets |-> "shown", to |-> b]
Maximum(v) == [sets |-> "maximum", to |-> v]
Value(v)   == [sets |-> "value", to |-> v]

\* updateOperation: the values are those at the time.
NewMaximum == IF m_max = Unset THEN <<>> ELSE <<Maximum(m_max)>>
NewValue   == IF m_value = Unset THEN <<>> ELSE <<Value(m_value)>>

\* Fault: the end of an operation resets the bar, and does not hide it.
Signals_KeepShown(status) ==
    IF status = "OVER" THEN <<Value(0)>> ELSE <<Show(TRUE)>> \o NewMaximum \o NewValue

\* Fault: the value goes before the maximum that makes room for it.
Signals_ValueFirst(status) ==
    IF status = "OVER" THEN <<Show(FALSE), Value(0)>>
    ELSE <<Show(TRUE)>> \o NewValue \o NewMaximum

\* The signals that notify emits.
Signals(status) ==
    IF status = "OVER" THEN <<Show(FALSE), Value(0)>>
    ELSE <<Show(TRUE)>> \o NewMaximum \o NewValue

\* notify: out of the active mode it does nothing.
notify(r) ==
    /\ report[r].at = "notify"
    /\ report' = [report EXCEPT ![r] =
                    [at |-> "emit",
                     emits |-> IF m_is_active THEN Signals(@.status) ELSE <<>>]]
    /\ current' = IF m_is_active THEN report[r].status = m_status ELSE current
    /\ UNCHANGED <<operation, m_notify_mutex, signals, widget>>

emit(r) ==
    /\ report[r].at = "emit" /\ report[r].emits # <<>>
    /\ signals' = Append(signals, Head(report[r].emits))
    /\ report' = [report EXCEPT ![r].emits = Tail(@)]
    /\ UNCHANGED <<operation, m_notify_mutex, widget, current>>

-----------------------------------------------------------------------------
(* CProgressWidget, in the GUI thread, and its QProgressBar.               *)

\* The bar as Qt makes it, and the value of one that was reset.
DefaultMaximum == 100
Reset == -1

InRange(b, v) == v <= b.maximum \/ b.maximum = 0

\* QProgressBar::setValue; a bar whose range is 0 to 0 takes any value.
setValue(b, v) == IF InRange(b, v) THEN [b EXCEPT !.value = v] ELSE b

\* QProgressBar::setMaximum.
setMaximum(b, v) ==
    [maximum |-> v, value |-> IF v # b.maximum /\ b.value > v THEN Reset ELSE b.value]

\* updateOperation, whose signals are handled at once in this thread.
updateOperation(b) ==
    LET ranged == IF m_max = Unset THEN b ELSE setMaximum(b, m_max)
    IN IF m_value = Unset THEN ranged ELSE setValue(ranged, m_value)

\* Fault: the status of the operation is not looked at.
MayShow_Always == ~ shown

MayShow == ~ shown /\ m_status = "PROCESSED"

\* The slot aboutOperationActivate(b).
aboutOperationActivate(b) ==
    /\ shown' = IF ~ m_is_active THEN shown
                ELSE IF b THEN shown \/ MayShow ELSE FALSE
    /\ bar' = IF m_is_active /\ b /\ MayShow THEN updateOperation(bar) ELSE bar

\* The event loop: the signals in their order.
Handle ==
    /\ activating = "none" /\ signals # <<>>
    /\ LET signal == Head(signals) IN
          \/ signal.sets = "shown" /\ aboutOperationActivate(signal.to)
          \/ signal.sets = "maximum" /\ bar' = setMaximum(bar, signal.to) /\ UNCHANGED shown
          \/ signal.sets = "value" /\ bar' = setValue(bar, signal.to) /\ UNCHANGED shown
    /\ signals' = Tail(signals)
    /\ UNCHANGED <<operation, m_notify_mutex, report, m_is_active, activating, current>>

\* Nothing under way that was meant for the widget as it was before.
Undisturbed ==
    signals = <<>> /\ \A r \in Reporter : report[r].at = "emit" => report[r].emits = <<>>

\* activate(FALSE) hides, then deactivates.
deactivate ==
    /\ activating = "none"
    /\ aboutOperationActivate(FALSE)
    /\ activating' = "off"
    /\ UNCHANGED <<operation, m_notify_mutex, report, signals, m_is_active, current>>

deactivateEnd ==
    /\ activating = "off"
    /\ m_is_active' = FALSE
    /\ activating' = "none"
    /\ current' = FALSE
    /\ UNCHANGED <<operation, m_notify_mutex, report, signals, shown, bar>>

\* activate(TRUE) activates, then shows what there is.
activate ==
    /\ activating = "none"
    /\ m_is_active' = TRUE
    /\ activating' = "on"
    /\ current' = IF m_is_active THEN current ELSE Undisturbed
    /\ UNCHANGED <<operation, m_notify_mutex, report, signals, shown, bar>>

activateEnd ==
    /\ activating = "on"
    /\ aboutOperationActivate(TRUE)
    /\ activating' = "none"
    /\ UNCHANGED <<operation, m_notify_mutex, report, signals, m_is_active, current>>

-----------------------------------------------------------------------------
Init ==
    /\ m_status = "OVER" /\ m_max = Unset /\ m_value = Unset
    /\ m_notify_mutex = Free
    /\ report = [r \in Reporter |-> Resting]
    /\ signals = <<>>
    /\ m_is_active = FALSE /\ shown = FALSE
    /\ bar = [maximum |-> DefaultMaximum, value |-> Reset]
    /\ activating = "none"
    /\ current = FALSE

Reports(r) == started(r) \/ finished(r) \/ progress(r) \/ progressMaximum(r)
Sends(r) == Lock(r) \/ Drop(r) \/ notify(r) \/ emit(r) \/ Unlock(r)
Returns == deactivateEnd \/ activateEnd

Next ==
    \/ \E r \in Reporter : Reports(r) \/ Sends(r)
    \/ Handle \/ deactivate \/ activate \/ Returns

\* A report that has begun goes on, a call of activate returns, and the event
\* loop, which each round delivers the signals that are queued, comes back to
\* them however often the widget is activated in between.
Spec ==
    /\ Init /\ [][Next]_vars
    /\ \A r \in Reporter : WF_vars(Sends(r))
    /\ WF_vars(Returns) /\ SF_vars(Handle)

-----------------------------------------------------------------------------
(* Properties.                                                             *)

Settled ==
    /\ \A r \in Reporter : report[r] = Resting
    /\ signals = <<>> /\ activating = "none"

Progresses == (0 .. MaxProgress) \cup {Unset}
SignalSet ==
    {Show(b) : b \in BOOLEAN} \cup {Maximum(v) : v \in 0 .. MaxProgress}
                              \cup {Value(v) : v \in 0 .. MaxProgress}
Bars == [maximum : (0 .. MaxProgress) \cup {DefaultMaximum}, value : Reset .. MaxProgress]

\* The state has its types; the bar keeps its value within its range.
TypeOK ==
    /\ m_status \in {"PROCESSED", "OVER"}
    /\ m_max \in Progresses /\ m_value \in Progresses
    /\ m_notify_mutex \in Reporter \cup {Free}
    /\ \A r \in Reporter :
          \/ report[r] = Resting
          \/ report[r].at \in {"tryLock", "notify"} /\ report[r].status \in {"PROCESSED", "OVER"}
          \/ report[r].at = "emit" /\ m_notify_mutex = r /\ report[r].emits \in Seq(SignalSet)
    /\ signals \in Seq(SignalSet)
    /\ m_is_active \in BOOLEAN /\ shown \in BOOLEAN /\ current \in BOOLEAN
    /\ bar \in Bars /\ InRange(bar, bar.value)
    /\ activating \in {"none", "on", "off"}

\* The progress of an operation is not left on the screen after its end, or
\* after the widget was deactivated, in whatever order reports and activations
\* were handled.
NothingLeftShown == Settled /\ shown => m_is_active /\ m_status = "PROCESSED"

\* A widget that has heard of the last change while active, or was activated
\* after it with no signals under way, shows the operation as it is: the bar has
\* the range of the operation and, if it lies in the range, its value.
ShowsTheOperation ==
    Settled /\ current /\ m_is_active =>
        /\ shown <=> m_status = "PROCESSED"
        /\ shown /\ m_max # Unset => bar.maximum = m_max
        /\ shown /\ m_value # Unset /\ (m_max \in {Unset, 0} \/ m_value <= m_max) =>
              bar.value = m_value

\* The bar has the value of the operation, whatever the maximum: not true of a
\* maximum that shrinks, since progressMaximum leaves the value as it is.
ShowsTheValue ==
    Settled /\ current /\ m_is_active /\ shown /\ m_value # Unset => bar.value = m_value

\* The widget does not keep the progress of an ended operation for ever.
HidesInTheEnd == (shown /\ m_status = "OVER") ~> (~ shown \/ m_status = "PROCESSED")

=============================================================================
