---------------------------- MODULE MCComponents ----------------------------
(* A small instance of Components for TLC. *)
EXTENDS Components

CONSTANTS o1, o2, o3, o4, o5, o6, o7, o8, o9, o10, o11, o12

\* Three factories, the links of the longest chain, a device, and what is held.
Objects == {o1, o2, o3, o4, o5, o6, o7, o8, o9, o10, o11, o12}

Characters == {":", "#", "!", "a"}

\* Every name of up to two characters; names of links of every kind, alone and in
\* chains, with a colon in a suffix, an escape, and monikers that there are not.
Names ==
    UNION {[1 .. n -> Characters] : n \in 0 .. 2}
    \cup {<<"file", ":", "a">>, <<"zip", ":", "a", "#", "file", ":", "\\", "b", ":", "a">>,
          <<"cid", ":", "Device">>, <<"cid", ":", "Document">>, <<"cid", ":", "a">>,
          <<"cid", ":", "IoFactory", "#", "new", ":", "Device">>,
          <<"file", ":", "a", "!", "b">>}

\* What NameRestored is said of.
ASSUME PlainAssumption == Name = Names => PlainSuffixes

\* Names with an escaped separator in a suffix.
EscapedNames == Names \cup {<<"file", ":", "a", "\\", "#", "b">>}
=============================================================================
