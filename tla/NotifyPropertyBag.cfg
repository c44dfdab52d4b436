\* Two listeners of the bag and one of a slice, six kinds of attributes.
SPECIFICATION Spec
CONSTANTS
  l1 = l1
  l2 = l2
  v1 = v1
  v2 = v2
  plain = plain
  inner = inner
  fixed = fixed
  auto = auto
  computed = computed
  unlisted = unlisted
  View = View
  Invalid = Invalid
  Listener <- Listeners
  Stored <- StoredKeys
  Virtual <- VirtualKeys
  Base <- BaseOf
  Listed <- ListedKeys
  Writeable <- CanWrite
  AutoNotify <- AutoKeysSet
  Prefixed <- InSlice
  Value <- Values
  AutoMayVanish = FALSE
  KeysPerCall = 2
SYMMETRY Symmetry
INVARIANTS CopiesExact NothingUnsettled
PROPERTIES ChangesWhatItMay
