------------------------------ MODULE MCQuery ------------------------------
(* A small instance of Query for TLC: three classes with attributes of    *)
(* every type, and some without a value.                                   *)
EXTENDS Query, TLC

CONSTANTS c1, c2, c3

Classes == <<c1, c2, c3>>
Variables == {"prio", "name", "tags"}

AttributeOf(c, n) ==
    CASE n = "prio" -> CASE c = c1 -> <<"int", 1>> [] c = c2 -> <<"int", 0>>
                          [] OTHER -> <<"int", 2>>
      [] n = "tags" -> CASE c = c1 -> <<"list", <<"a", "b">>>> [] c = c2 -> <<"list", <<"b">>>>
                          [] OTHER -> Null
      [] n = "name" -> CASE c = c1 -> <<"str", "b">> [] c = c2 -> <<"str", "a">>
                          [] OTHER -> <<"str", "b">>
      [] OTHER -> Null

Literals == {<<"int", 1>>, <<"str", "b">>, Null}
NoLiterals == {}

RankOf(s) == CASE s = "0" -> 48 [] s = "1" -> 49 [] s = "a" -> 97 [] s = "b" -> 98
               [] s = "false" -> 102 [] OTHER -> 116
NumberOf(s) == CASE s = "0" -> 0 [] s = "1" -> 1 [] OTHER -> NaN
Functions == {"AND", "OR", "XOR", "NOT", "EQ", "LT", "GE", "DEFINED", "HAS", "HAS_ONE",
              "HAS_ALL", "PREFER", "IF", "IFNULL", "NE", "GT", "LE"}
\* HAS is called with too many arguments as well, IFNULL with none.
ArityOf(f) == CASE f \in {"AND", "OR"} -> {2, 3}
                [] f \in {"NOT", "DEFINED"} -> {1}
                [] f = "IF" -> {3}
                [] f = "HAS" -> {2, 3}
                [] f = "IFNULL" -> {0, 2}
                [] OTHER -> {2}
=============================================================================
