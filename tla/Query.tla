------------------------------- MODULE Query -------------------------------
(***************************************************************************)
(* OAF::query (libs/liboaf/src/OAF.cpp) and what it is made of: the        *)
(* expressions that the parser builds (libs/liboaf-oql), the functions     *)
(* they call (libs/liboaf/src/CFunctionFactory.cpp) and the comparator of  *)
(* the answer.  A query selects classes by an expression over their        *)
(* attributes, sorts them by further expressions and gives the first few;  *)
(* monikers, devices and documents find their classes this way.            *)
(*                                                                         *)
(* The text of a query is any sequence of literals, names and calls, each  *)
(* token one step of the parser: operands are pushed, a call replaces its  *)
(* arguments.  An expression is what the code can tell of it: its type and *)
(* its value for every class.  A call with constant arguments is replaced  *)
(* by its value at once.  Beside it stands what the expression means, by   *)
(* the three-valued logic of the comments and without that replacement.    *)
(***************************************************************************)
EXTENDS Integers, FiniteSets, SequencesExt, FiniteSetsExt

CONSTANTS
    Class,          \* the CIDs, as a sequence in the order of the map of classes
    Variable,       \* names of attributes
    attribute(_, _),    \* the value of a variable for a class
    Literal,        \* values written in queries
    Rank(_),        \* the code of a string's first character, by which it is compared
    Number(_),      \* the integer that a string is read as, or NaN
    NaN,
    Function,       \* the functions that queries call
    MaxTokens,      \* bound on the tokens of a query
    Arity(_),       \* with how many arguments queries call a function
    MaxKeys,        \* bound on the expressions of ORDER BY
    MixedKeys       \* whether keys of ORDER BY may be undefined or of several types

ASSUME BoundAssumption == MaxTokens \in Nat /\ MaxKeys \in Nat /\ MixedKeys \in BOOLEAN

VARIABLES
    clause,     \* where the parser or the query is
    stack,      \* the expressions of the parser
    where, order, limit,    \* the clauses parsed; None if absent
    tokens,     \* how many tokens were read
    row,        \* the class that is looked at next
    result      \* the classes selected, at the end the answer

vars == <<clause, stack, where, order, limit, tokens, row, result>>

Cids == ToSet(Class)

\* What an expression is evaluated for: a class, or no variables at all.
NoVars == "no variables"
Scope == Cids \cup {NoVars}

None == [type |-> "none"]

-----------------------------------------------------------------------------
(* Values: QVariants of the types that attributes and literals have.       *)

Null == <<"null">>
Thrown == <<"thrown">>      \* in place of a value: EvaluateException
Bool(b) == <<"bool", b>>
Int_(n) == <<"int", n>>

\* castAs, to Bool, StringList and String.
AsBool(v) ==
    CASE v[1] = "int" -> Bool(v[2] # 0)
      [] v[1] = "str" -> Bool(v[2] \notin {"0", "false"})
      [] v[1] = "list" -> Null
      [] OTHER -> v

AsList(v) ==
    CASE v[1] = "str" -> <<"list", <<v[2]>>>>
      [] v[1] \in {"int", "bool"} -> Null
      [] OTHER -> v

\* Of the lists, one with a single string only becomes a string.
AsString(v) ==
    CASE v[1] = "list" -> IF Len(v[2]) = 1 THEN <<"str", v[2][1]>> ELSE Null
      [] v[1] = "bool" -> <<"str", IF v[2] THEN "true" ELSE "false">>
      [] v[1] = "int" -> <<"str", ToString(v[2])>>
      [] OTHER -> v

\* toInt: what cannot be converted is 0.
ToInt(v) ==
    CASE v[1] = "int" -> v[2]
      [] v[1] = "bool" -> IF v[2] THEN 1 ELSE 0
      [] v[1] = "str" -> IF Number(v[2]) = NaN THEN 0 ELSE Number(v[2])
      [] OTHER -> 0

\* toString, as a rank: no string is before any other.
ToRank(v) ==
    CASE v[1] = "str" -> Rank(v[2])
      [] v[1] = "list" /\ Len(v[2]) = 1 -> Rank(v[2][1])
      [] v[1] = "bool" -> Rank(IF v[2] THEN "true" ELSE "false")
      [] OTHER -> 0

Incomparable == -2

Sign(n) == IF n < 0 THEN -1 ELSE IF n > 0 THEN 1 ELSE 0

\* compareType and compare: integers before strings, and nothing else.  Of two
\* strings QString::compare gives the difference of the characters.
compare(v1, v2) ==
    LET types == {v1[1], v2[1]}
    IN IF "null" \in types THEN Incomparable
       ELSE IF "int" \in types THEN Sign(ToInt(v1) - ToInt(v2))
       ELSE IF "str" \in types THEN ToRank(v1) - ToRank(v2)
       ELSE Incomparable

-----------------------------------------------------------------------------
(* CFunctionFactory.  The arguments come as values; those that the code    *)
(* does not evaluate may be Thrown.                                        *)

\* The value of a function that needs all its arguments.
Strict(args, v) == IF Thrown \in ToSet(args) THEN Thrown ELSE v

\* Fault: the last argument decides whether the result is undefined.
Until_Last(args, b) ==
    LET stop == SelectInSeq(args, LAMBDA v : v = Thrown \/ AsBool(v) = Bool(b))
    IN IF stop # 0 THEN (IF args[stop] = Thrown THEN Thrown ELSE Bool(b))
       ELSE IF AsBool(Last(args)) = Null THEN Null ELSE Bool(~ b)

\* The loop of _and and _or: b at the first argument that is b, else the
\* opposite, unless an argument was undefined.
Until(args, b) ==
    LET stop == SelectInSeq(args, LAMBDA v : v = Thrown \/ AsBool(v) = Bool(b))
    IN IF stop # 0 THEN (IF args[stop] = Thrown THEN Thrown ELSE Bool(b))
       ELSE IF \E v \in ToSet(args) : AsBool(v) = Null THEN Null ELSE Bool(~ b)

_and(args) == Until(args, FALSE)
_or(args) == Until(args, TRUE)

\* The first argument that throws or is undefined, or the second that is true.
_xor(args) ==
    LET Trues(i) == Cardinality({j \in 1 .. i : AsBool(args[j]) = Bool(TRUE)})
        stops == {i \in DOMAIN args : \/ args[i] = Thrown
                                      \/ AsBool(args[i]) = Null
                                      \/ Trues(i) > 1}
    IN IF stops = {} THEN Bool(Trues(Len(args)) = 1)
       ELSE LET v == args[Min(stops)]
            IN IF v = Thrown THEN Thrown ELSE IF AsBool(v) = Null THEN Null ELSE Bool(FALSE)

_not(args) == LET v == AsBool(args[1])
              IN IF v[1] = "bool" THEN Bool(~ v[2]) ELSE v

\* _eq, _ne, _lt, _gt, _le and _ge: what the comparison may give.
Signs == [EQ |-> {0}, NE |-> {-1, 1}, LT |-> {-1}, GT |-> {1}, LE |-> {-1, 0}, GE |-> {0, 1}]

Compares(args, signs) ==
    LET r == compare(args[1], args[2])
    IN Strict(args, IF r = Incomparable THEN Null ELSE Bool(Sign(r) \in signs))

_defined(args) == Strict(args, Bool(args[1] # Null))

\* _has, _has_one and _has_all, and _prefer.
OfLists(args, v1, v2, v) ==
    Strict(args, IF v1 = Null \/ v2 = Null THEN Null ELSE v)

_has(args) == LET v1 == AsList(args[1])
                  v2 == AsString(args[2])
              IN OfLists(args, v1, v2, Bool(Contains(v1[2], v2[2])))

_has_one(args) == LET v1 == AsList(args[1])
                      v2 == AsList(args[2])
                  IN OfLists(args, v1, v2, Bool(\E s \in ToSet(v2[2]) : Contains(v1[2], s)))

_has_all(args) == LET v1 == AsList(args[1])
                      v2 == AsList(args[2])
                  IN OfLists(args, v1, v2, Bool(\A s \in ToSet(v2[2]) : Contains(v1[2], s)))

\* The sooner in the list, the greater; -1 if it is not there.
_prefer(args) ==
    LET v1 == AsString(args[1])
        v2 == AsList(args[2])
    IN OfLists(args, v1, v2, Int_(LET i == SelectInSeq(v2[2], LAMBDA s : s = v1[2])
                                  IN IF i = 0 THEN -1 ELSE Len(v2[2]) - i + 1))

\* Only the branch that is taken is evaluated.
_if(args) == LET check == AsBool(args[1])
             IN IF check[1] # "bool" THEN check
                ELSE IF check[2] THEN args[2] ELSE args[3]

_ifnull(args) == LET i == SelectInSeq(args, LAMBDA v : v # Null)
                 IN IF i = 0 THEN Null ELSE args[i]

\* How many arguments a function takes; the others throw.
Takes(f, n) ==
    CASE f \in {"AND", "OR", "XOR"} -> n >= 2
      [] f \in {"NOT", "DEFINED"} -> n = 1
      [] f = "IF" -> n = 3
      [] f = "IFNULL" -> TRUE
      [] OTHER -> n = 2

Apply(f, args) ==
    IF ~ Takes(f, Len(args)) THEN Thrown
    ELSE CASE f = "AND" -> _and(args)
           [] f = "OR" -> _or(args)
           [] f = "XOR" -> _xor(args)
           [] f = "NOT" -> _not(args)
           [] f \in DOMAIN Signs -> Compares(args, Signs[f])
           [] f = "DEFINED" -> _defined(args)
           [] f = "HAS" -> _has(args)
           [] f = "HAS_ONE" -> _has_one(args)
           [] f = "HAS_ALL" -> _has_all(args)
           [] f = "PREFER" -> _prefer(args)
           [] f = "IF" -> _if(args)
           [] f = "IFNULL" -> _ifnull(args)

-----------------------------------------------------------------------------
(* What the functions mean: the logic of three values as numbers.          *)

Truth(v) == LET b == AsBool(v) IN IF b = Null THEN 1 ELSE IF b[2] THEN 2 ELSE 0
OfTruth(t) == IF t = 1 THEN Null ELSE Bool(t = 2)

\* Whether two values can be compared is a matter of their types.
Compared(v1, v2) ==
    IF Null \in {v1, v2} \/ {v1[1], v2[1]} \cap {"int", "str"} = {} THEN Incomparable
    ELSE Sign(compare(v1, v2))

Means(f, args) ==
    LET truths == {Truth(v) : v \in ToSet(args)}
        Trues  == Cardinality({i \in DOMAIN args : Truth(args[i]) = 2})
    IN IF Thrown \in ToSet(args) \/ ~ Takes(f, Len(args)) THEN Thrown
       ELSE CASE f = "AND" -> OfTruth(Min(truths))
              [] f = "OR" -> OfTruth(Max(truths))
              [] f = "XOR" -> IF 1 \in truths THEN Null ELSE Bool(Trues = 1)
              [] f = "NOT" -> OfTruth(2 - Truth(args[1]))
              [] f \in DOMAIN Signs -> IF Compared(args[1], args[2]) = Incomparable THEN Null
                                      ELSE Bool(Compared(args[1], args[2]) \in Signs[f])
              [] f = "IF" -> (CASE Truth(args[1]) = 2 -> args[2]
                                [] Truth(args[1]) = 0 -> args[3]
                                [] OTHER -> Null)
              [] OTHER -> Apply(f, args)

-----------------------------------------------------------------------------
(* Expressions.                                                            *)

Const(v) == [type |-> "const", at |-> [s \in Scope |-> v], means |-> [c \in Cids |-> v]]

Named(n) ==
    [type |-> "variable",
     at |-> [s \in Scope |-> IF s = NoVars THEN Null ELSE attribute(s, n)],
     means |-> [c \in Cids |-> attribute(c, n)]]

\* Fault: one constant argument is enough.
isConstArgs_Some(args) == \E e \in ToSet(args) : e.type = "const"

isConstArgs(args) == \A e \in ToSet(args) : e.type = "const"

\* CExpressionFunction: all functions are IMMUTABLE.
Calls(f, args) ==
    [type |-> IF isConstArgs(args) THEN "const" ELSE "function",
     at |-> [s \in Scope |-> Apply(f, [i \in DOMAIN args |-> args[i].at[s]])],
     means |-> [c \in Cids |-> Means(f, [i \in DOMAIN args |-> args[i].means[c]])]]

\* What is constant is evaluated once, without variables.
optimize(e) ==
    IF e.type = "const" THEN [e EXCEPT !.at = [s \in Scope |-> e.at[NoVars]]] ELSE e

-----------------------------------------------------------------------------
(* The parser.                                                             *)

Parsing == clause \in {"where", "order", "limit"}
Reads == Parsing /\ tokens < MaxTokens /\ tokens' = tokens + 1

\* A literal or the name of an attribute.
Operand ==
    /\ Reads
    /\ \E e \in {Const(v) : v \in Literal} \cup {Named(n) : n \in Variable} :
          stack' = Append(stack, e)
    /\ UNCHANGED <<clause, where, order, limit, row, result>>

Throws(e) == e.type = "const" /\ e.at[NoVars] = Thrown

\* An operator or a function takes the last n expressions; where all of them are
\* constant it is evaluated, and an exception is that of the whole query.
Call(f, n) ==
    /\ Reads
    /\ n <= Len(stack)
    /\ LET rest == SubSeq(stack, 1, Len(stack) - n)
           e    == optimize(Calls(f, SubSeq(stack, Len(stack) - n + 1, Len(stack))))
       IN IF Throws(e)
          THEN clause' = "failed" /\ stack' = <<>>
          ELSE stack' = Append(rest, e) /\ UNCHANGED clause
    /\ UNCHANGED <<where, order, limit, row, result>>

\* The end of a clause, which takes what is on the stack.
Clause(next) == clause' = next /\ stack' = <<>>

OrderBy ==
    /\ Parsing /\ clause = "where"
    /\ Len(stack) <= 1
    /\ where' = IF stack = <<>> THEN None ELSE stack[1]
    /\ Clause("order")
    /\ UNCHANGED <<order, limit, tokens, row, result>>

\* An expression whose values for all classes can be compared.
Comparable(e) == \A c, d \in Cids : compare(e.at[c], e.at[d]) # Incomparable

\* CExpressionOrder: an expression and its direction.
OrderKey(desc) ==
    /\ clause = "order"
    /\ Len(stack) = 1
    /\ Len(order) < MaxKeys
    /\ MixedKeys \/ Comparable(stack[1])
    /\ order' = Append(order, [key |-> stack[1], desc |-> desc])
    /\ Clause("order")
    /\ UNCHANGED <<where, limit, tokens, row, result>>

Limit ==
    /\ \/ /\ clause = "where" /\ Len(stack) <= 1
          /\ where' = IF stack = <<>> THEN None ELSE stack[1]
       \/ /\ clause = "order" /\ stack = <<>> /\ order # <<>>
          /\ UNCHANGED where
    /\ Clause("limit")
    /\ UNCHANGED <<order, limit, tokens, row, result>>

\* The end of the text.
Parsed ==
    /\ CASE clause = "where" -> /\ Len(stack) <= 1
                                /\ where' = IF stack = <<>> THEN None ELSE stack[1]
                                /\ UNCHANGED limit
         [] clause = "order" -> /\ stack = <<>> /\ order # <<>>
                                /\ UNCHANGED <<where, limit>>
         [] clause = "limit" -> /\ Len(stack) = 1
                                /\ limit' = stack[1]
                                /\ UNCHANGED where
         [] OTHER -> FALSE
    /\ Clause("check")
    /\ UNCHANGED <<order, tokens, row, result>>

-----------------------------------------------------------------------------
(* The query.                                                              *)

Fails == /\ clause' = "failed"
         /\ UNCHANGED <<stack, where, order, limit, tokens, row, result>>

\* Whether convert to Int succeeds.
IsInt(v) == v[1] \in {"int", "bool"} \/ (v[1] = "str" /\ Number(v[2]) # NaN)

LimitOf == IF limit = None THEN 0 ELSE ToInt(limit.at[NoVars])

\* The limit must be a constant that is an integer.
CheckLimit ==
    /\ clause = "check"
    /\ IF limit # None /\ (limit.type # "const" \/ ~ IsInt(limit.at[NoVars]))
       THEN Fails
       ELSE /\ clause' = "select"
            /\ UNCHANGED <<stack, where, order, limit, tokens, row, result>>

WhereOf(c) == IF where = None THEN Bool(TRUE)
              ELSE IF where.at[c] = Null THEN Bool(FALSE) ELSE where.at[c]

KeysOf(c) == [i \in DOMAIN order |-> order[i].key.at[c]]

\* Fault: the limit ends the search of a query that sorts as well.
Enough_Sorted(found) == LimitOf > 0 /\ found >= LimitOf

\* Without ORDER BY the search ends at the limit.
Enough(found) == order = <<>> /\ LimitOf > 0 /\ found >= LimitOf

\* One turn of the loop over the classes.
Select ==
    /\ clause = "select"
    /\ row <= Len(Class)
    /\ LET c == Class[row]
           w == WhereOf(c)
       IN IF \/ w = Thrown
             \/ AsBool(w) = Null
             \/ AsBool(w)[2] /\ Thrown \in ToSet(KeysOf(c))
          THEN Fails
          ELSE LET found == IF AsBool(w)[2] THEN Append(result, c) ELSE result
               IN /\ result' = found
                  /\ row' = IF AsBool(w)[2] /\ Enough(Len(found)) THEN Len(Class) + 1
                            ELSE row + 1
                  /\ UNCHANGED <<clause, stack, where, order, limit, tokens>>

\* Comparator: every key must be less; a comparison that is undefined is neither
\* equal nor greater.
Less(c, d) ==
    \A i \in DOMAIN order :
        LET comp == compare(KeysOf(c)[i], KeysOf(d)[i])
        IN ~ (IF order[i].desc THEN comp <= 0 ELSE comp >= 0)

\* What std::sort asks of the comparator; otherwise it may do anything.
StrictWeakOrder(rows) ==
    LET Same(c, d) == ~ Less(c, d) /\ ~ Less(d, c)
    IN \A c, d, e \in rows :
        /\ ~ Less(c, c)
        /\ Less(c, d) /\ Less(d, e) => Less(c, e)
        /\ Same(c, d) /\ Same(d, e) => Same(c, e)

Sorted(rows) ==
    {p \in SetToSeqs(rows) :
        StrictWeakOrder(rows) => \A i, j \in DOMAIN p : i < j => ~ Less(p[j], p[i])}

\* Fault: the limit is forgotten where there is an order.
Shown_All(found) == Len(found)

Shown(found) == IF LimitOf = 0 \/ Len(found) < LimitOf THEN Len(found) ELSE LimitOf

\* Sorts, and gives as many as asked for; a negative limit gives none.
Answer ==
    /\ clause = "select"
    /\ row > Len(Class)
    /\ \E found \in IF order = <<>> THEN {result} ELSE Sorted(ToSet(result)) :
          result' = SubSeq(found, 1, Shown(found))
    /\ clause' = "done"
    /\ UNCHANGED <<stack, where, order, limit, tokens, row>>

-----------------------------------------------------------------------------
Init ==
    /\ clause = "where"
    /\ stack = <<>> /\ order = <<>> /\ result = <<>>
    /\ where = None /\ limit = None
    /\ tokens = 0 /\ row = 1

Next ==
    \/ Operand
    \/ \E f \in Function : \E n \in Arity(f) : Call(f, n)
    \/ OrderBy \/ \E desc \in BOOLEAN : OrderKey(desc)
    \/ Limit \/ Parsed
    \/ CheckLimit \/ Select \/ Answer

Spec == Init /\ [][Next]_vars

-----------------------------------------------------------------------------
(* Properties.                                                             *)

Meaning(e, c) == IF e.means[c] = Thrown THEN e.at[c] ELSE e.means[c]

\* An expression has the value that its text means, for every class, although
\* constants were replaced when it was parsed, evaluation stops at the first
\* argument that decides, and undefined values mix with false ones.
MeansWhatItSays ==
    \A e \in ToSet(stack) : \A c \in Cids : e.at[c] = Meaning(e, c)

\* The first key that differs decides.
Before(c, d) ==
    \E i \in DOMAIN order :
        LET comp(j) == Compared(Meaning(order[j].key, c), Meaning(order[j].key, d))
        IN /\ \A j \in 1 .. i - 1 : comp(j) = 0
           /\ comp(i) = IF order[i].desc THEN 1 ELSE -1

Selected == {c \in Cids : where = None \/ AsBool(Meaning(where, c)) = Bool(TRUE)}

\* An answer has the classes that the query selects, no more than it asks for,
\* in the order of its keys, and none that is left out comes before one in it.
AnswerExact ==
    clause = "done" =>
        LET n    == LimitOf
            rest == Selected \ ToSet(result)
        IN /\ ToSet(result) \subseteq Selected
           /\ Len(result) = (IF n < 0 THEN 0
                             ELSE IF n = 0 \/ n > Cardinality(Selected)
                                  THEN Cardinality(Selected) ELSE n)
           /\ \A i, j \in DOMAIN result : i < j => ~ Before(result[j], result[i])
           /\ \A c \in rest : \A d \in ToSet(result) : ~ Before(c, d)
           /\ order = <<>> => IsPrefix(result, SelectSeq(Class, LAMBDA c : c \in Selected))
=============================================================================
