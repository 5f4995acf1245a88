----------------------------- MODULE FlowParser -----------------------------
(***************************************************************************)
(* The recursive-descent parser of pulsate-flow over token kinds, and the  *)
(* grammar it is meant to accept.  The kinds are the punctuation, "arrow", *)
(* "sep", "lit" (a string or an environment reference) and the atoms,      *)
(* among which the parser itself tells only "route" and "~" apart from the *)
(* rest.  The syntax tree is written down as its leaves in source order,   *)
(* each with its role, the index of its token and its nesting depth.       *)
(***************************************************************************)
EXTENDS Integers, Sequences, FiniteSetsExt

Words == {"atom", "route", "~"}
Values == Words \cup {"lit"}

(* peek_kind; the lexer always ends the stream with Eof. *)
Kind(t, p) == IF p \in DOMAIN t THEN t[p] ELSE "eof"

SkipSeps(t, p) == Min({q \in p..Len(t) + 1 : Kind(t, q) # "sep"})

(* Results: parsing goes on at pos, or failed there. *)
Done(p) == [ok |-> TRUE, pos |-> p, leaves |-> <<>>]
Fail(p) == [ok |-> FALSE, pos |-> p, leaves |-> <<>>]
Leaf(role, p, d) == [ok |-> TRUE, pos |-> p + 1, leaves |-> <<[role |-> role, at |-> p, depth |-> d]>>]
Expect(t, p, kind) == IF Kind(t, p) = kind THEN Done(p + 1) ELSE Fail(p)
Then(r, Rest(_)) == IF ~r.ok THEN r
                    ELSE LET s == Rest(r.pos) IN [s EXCEPT !.leaves = r.leaves \o s.leaves]

RECURSIVE ParseValue(_, _, _), ParseItems(_, _, _, _), ParseSpaceArgs(_, _, _),
          ParseSteps(_, _, _), ParseStmts(_, _, _)

Closing(list) == IF list = "args" THEN ")" ELSE "]"

(* parse_value and parse_array *)
ParseValue(t, p, d) ==
    CASE Kind(t, p) \in Values -> Leaf("value", p, d)
      [] Kind(t, p) = "["      -> Then(ParseItems(t, p + 1, d, "array"), LAMBDA q : Expect(t, q, "]"))
      [] OTHER                 -> Fail(p)

(* parse_arg: name=value where an atom is followed by an equals sign. *)
ParseArg(t, p, d) ==
    IF Kind(t, p) \in Words /\ Kind(t, p + 1) = "="
    THEN Then(Leaf("name", p, d), LAMBDA q : ParseValue(t, q + 1, d))
    ELSE ParseValue(t, p, d)

(* One predicate of parse_predicates: a key, with a value or on its own. *)
ParsePredicate(t, p, d) ==
    IF Kind(t, p) \notin Words THEN Fail(p)
    ELSE Then(Leaf("key", p, d),
              LAMBDA q : IF Kind(t, q) = "=" THEN ParseValue(t, q + 1, d) ELSE Done(q))

(* Fault: a comma promises one more item. *)
ParseItemsNoTrailing(t, p, d, list) ==
    LET q == SkipSeps(t, p)
        item == CASE list = "array" -> ParseValue(t, q, d)
                  [] list = "args"  -> ParseArg(t, q, d)
                  [] OTHER          -> ParsePredicate(t, q, d)
    IN IF Kind(t, q) = Closing(list) /\ Kind(t, p - 1) # "," THEN Done(q)
       ELSE Then(item, LAMBDA r : LET s == SkipSeps(t, r)
                                  IN IF Kind(t, s) = "," THEN ParseItems(t, s + 1, d, list) ELSE Done(s))

(* The loops of parse_array, parse_predicates and parse_step: items and     *)
(* commas up to the closing token, which may follow a comma.                *)
ParseItems(t, p, d, list) ==
    LET q == SkipSeps(t, p)
        item == CASE list = "array" -> ParseValue(t, q, d)
                  [] list = "args"  -> ParseArg(t, q, d)
                  [] OTHER          -> ParsePredicate(t, q, d)
    IN IF Kind(t, q) = Closing(list) THEN Done(q)
       ELSE Then(item, LAMBDA r : LET s == SkipSeps(t, r)
                                  IN IF Kind(t, s) = "," THEN ParseItems(t, s + 1, d, list) ELSE Done(s))

ParseSpaceArgs(t, p, d) ==
    IF Kind(t, p) \in Values \cup {"["}
    THEN Then(ParseArg(t, p, d), LAMBDA q : ParseSpaceArgs(t, q, d))
    ELSE Done(p)

ParseStep(t, p, d) ==
    IF Kind(t, p) \notin Words THEN Fail(p)
    ELSE Then(Leaf("step", p, d), LAMBDA q :
             IF Kind(t, q) # "(" THEN Done(q)
             ELSE Then(ParseItems(t, q + 1, d, "args"), LAMBDA r : Expect(t, r, ")")))

(* parse_matcher: an exact or regex mark, the pattern, the predicates. *)
ParseMatcher(t, p, d) ==
    LET mark == CASE Kind(t, p) = "=" -> Done(p + 1)
                  [] Kind(t, p) = "~" -> Leaf("regex", p, d)
                  [] OTHER            -> Done(p)
    IN Then(mark, LAMBDA q :
           IF Kind(t, q) \notin Words THEN Fail(q)
           ELSE Then(Leaf("pattern", q, d), LAMBDA r :
                    IF Kind(t, r) # "[" THEN Done(r)
                    ELSE Then(ParseItems(t, r + 1, d, "predicates"), LAMBDA s : Expect(t, s, "]"))))

(* The pipeline of parse_route: separators may stand around each arrow. *)
ParseSteps(t, p, d) ==
    LET q == SkipSeps(t, p)
    IN IF Kind(t, q) # "arrow" THEN Done(q)
       ELSE Then(ParseStep(t, SkipSeps(t, q + 1), d), LAMBDA r : ParseSteps(t, r, d))

ParseRoute(t, p, d) ==
    Then(Leaf("route", p, d), LAMBDA q :
        Then(ParseMatcher(t, q, d), LAMBDA r : ParseSteps(t, r, d)))

(* parse_stmt: a route, a block or a directive. *)
ParseStmt(t, p, d) ==
    CASE Kind(t, p) \notin Words -> Fail(p)
      [] Kind(t, p) = "route"    -> ParseRoute(t, p, d)
      [] OTHER -> Then(Leaf("keyword", p, d), LAMBDA q :
                      Then(ParseSpaceArgs(t, q, d), LAMBDA r :
                          IF Kind(t, r) = "{" THEN ParseStmts(t, r + 1, d + 1) ELSE Done(r)))

(* parse_stmts: to the end of input at the top, to the closing brace below. *)
ParseStmts(t, p, d) ==
    LET q == SkipSeps(t, p)
    IN CASE Kind(t, q) = "eof" -> IF d > 0 THEN Fail(q) ELSE Done(q)
         [] Kind(t, q) = "}"   -> IF d > 0 THEN Done(q + 1) ELSE Fail(q)
         [] OTHER -> Then(ParseStmt(t, q, d), LAMBDA r : ParseStmts(t, r, d))

(* parse_document *)
Parse(t) == ParseStmts(t, 1, 0)

----------------------------------------------------------------------------
(* The grammar of docs/04-configuration.md, as a predicate on the tokens    *)
(* from i to j - 1, independent of the parser: every way of cutting the     *)
(* tokens up is tried.  Newlines end a directive and are free inside        *)
(* brackets, around arrows and between statements.                          *)
RECURSIVE IsValue(_, _, _), IsList(_, _, _, _), IsArgs(_, _, _), IsSteps(_, _, _), IsStmts(_, _, _)

Bare(t, i, j) == CHOOSE r \in (i..j) \X (i..j) :
    /\ r[1] <= r[2]
    /\ \A k \in (i..r[1] - 1) \cup (r[2]..j - 1) : t[k] = "sep"
    /\ r[1] < r[2] => t[r[1]] # "sep" /\ t[r[2] - 1] # "sep"

IsValue(t, i, j) == \/ j = i + 1 /\ t[i] \in Values
                    \/ j > i + 1 /\ t[i] = "[" /\ t[j - 1] = "]" /\ IsList(t, i + 1, j - 1, "array")
IsNamed(t, i, j) == j > i + 2 /\ t[i] \in Words /\ t[i + 1] = "=" /\ IsValue(t, i + 2, j)
IsItem(t, i, j, list) ==
    CASE list = "array" -> IsValue(t, i, j)
      [] list = "args"  -> IsValue(t, i, j) \/ IsNamed(t, i, j)
      [] OTHER          -> (j = i + 1 /\ t[i] \in Words) \/ IsNamed(t, i, j)
IsList(t, i, j, list) ==
    LET b == Bare(t, i, j)
    IN \/ b[1] = b[2]
       \/ IsItem(t, b[1], b[2], list)
       \/ \E k \in b[1]..b[2] - 1 :
             /\ t[k] = ","
             /\ LET c == Bare(t, b[1], k) IN IsItem(t, c[1], c[2], list)
             /\ IsList(t, k + 1, b[2], list)
IsArgs(t, i, j) == i = j \/ \E k \in i + 1..j : IsItem(t, i, k, "args") /\ IsArgs(t, k, j)
IsStep(t, i, j) == /\ i < j /\ t[i] \in Words
                   /\ j = i + 1 \/ (j > i + 2 /\ t[i + 1] = "(" /\ t[j - 1] = ")" /\ IsList(t, i + 2, j - 1, "args"))
IsMatcher(t, i, j) ==
    LET IsPattern(k) == /\ k < j /\ t[k] \in Words
                        /\ \/ j = k + 1
                           \/ j > k + 2 /\ t[k + 1] = "[" /\ t[j - 1] = "]" /\ IsList(t, k + 2, j - 1, "predicates")
    IN i < j /\ IF t[i] \in {"=", "~"} THEN IsPattern(i + 1) ELSE IsPattern(i)
IsSteps(t, i, j) ==
    i = j \/ \E k \in i..j - 1 : \E m \in k + 2..j :
        /\ t[k] = "arrow" /\ \A n \in i..k - 1 : t[n] = "sep"
        /\ LET b == Bare(t, k + 1, m) IN b[2] = m /\ IsStep(t, b[1], b[2])
        /\ IsSteps(t, m, j)
IsRoute(t, i, j) == /\ i < j /\ t[i] = "route"
                    /\ \E k \in i + 1..j : IsMatcher(t, i + 1, k) /\ IsSteps(t, k, j)
IsBlock(t, i, j) == /\ j > i + 2 /\ t[i] \in Words \ {"route"} /\ t[j - 1] = "}"
                    /\ \E k \in i + 1..j - 2 : t[k] = "{" /\ IsArgs(t, i + 1, k) /\ IsStmts(t, k + 1, j - 1)
IsDirective(t, i, j) == /\ i < j /\ t[i] \in Words \ {"route"} /\ IsArgs(t, i + 1, j)
                        /\ j > Len(t) \/ t[j] \in {"sep", "}"}
IsStmts(t, i, j) == \/ i = j
                    \/ t[i] = "sep" /\ IsStmts(t, i + 1, j)
                    \/ \E k \in i + 1..j : /\ IsBlock(t, i, k) \/ IsDirective(t, i, k) \/ IsRoute(t, i, k)
                                           /\ IsStmts(t, k, j)

InGrammar(t) == IsStmts(t, 1, Len(t) + 1)
=============================================================================
