------------------------ MODULE MCNotifyPropertyBag ------------------------
(* Small instances of NotifyPropertyBag for TLC: a plain attribute outside *)
(* the slice, a plain one inside, a read-only one, an AUTONOTIFY one and   *)
(* two computed AUTONOTIFY ones, of which enumKeys lists that in the slice *)
(* and not that of the read-only attribute.                                *)
EXTENDS NotifyPropertyBag, TLC

CONSTANTS l1, l2, v1, v2, plain, inner, fixed, auto, computed, unlisted

Listeners    == {l1, l2}
StoredKeys   == {plain, inner, fixed, auto}
VirtualKeys  == {computed, unlisted}
BaseOf(k)    == IF k = computed THEN auto ELSE fixed
ListedKeys   == {computed}
CanWrite     == {plain, inner, auto}
AutoKeysSet  == {auto, computed, unlisted}
InSlice      == {inner, computed}
Values       == {v1, v2}
Symmetry     == Permutations(Listener) \cup Permutations(Value)

=============================================================================
