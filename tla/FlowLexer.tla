------------------------------ MODULE FlowLexer ------------------------------
(***************************************************************************)
(* The lexer of pulsate-flow.  Source text is a sequence of bytes; a byte  *)
(* is one of the structural characters, "sp" (space, tab, carriage        *)
(* return), "nl", "a" (any other ASCII byte), or one half of a two-byte    *)
(* character: "lead" then "cont".  Each operator here says where one of    *)
(* the lexer's loops, started at p, stops.                                 *)
(***************************************************************************)
EXTENDS Integers, Sequences, FiniteSets, FiniteSetsExt

Punctuation == {"{", "}", "(", ")", "[", "]", ",", "="}
AtomStops == Punctuation \cup {"sp", "nl", "#", "quote", ";"}

(* The first of the positions where a loop stops; Len + 1 where it does not. *)
First(text, hits) == IF hits = {} THEN Len(text) + 1 ELSE Min(hits)

(* peek and peek2: the byte at p, if there is one. *)
Peek(text, p) == IF p \in DOMAIN text THEN text[p] ELSE "end"

(* A line comment runs to the end of its line. *)
LineEnd(text, p) == First(text, {i \in p..Len(text) : text[i] = "nl"})

(* Blanks are skipped. *)
BlanksEnd(text, p) == First(text, {i \in p..Len(text) : text[i] # "sp"})

(* Fault: a comment takes the newline that ends it along. *)
SkipHorizontalAndNewline(text, p) ==
    LET q == BlanksEnd(text, p)
    IN IF Peek(text, q) = "#" /\ LineEnd(text, q) <= Len(text) THEN LineEnd(text, q) + 1
       ELSE IF Peek(text, q) = "#" THEN LineEnd(text, q) ELSE q

(* skip_horizontal: blanks, then a comment, which ends at a newline. *)
SkipHorizontal(text, p) ==
    LET q == BlanksEnd(text, p)
    IN IF Peek(text, q) = "#" THEN LineEnd(text, q) ELSE q

(* consume_separator_run: newlines, semicolons, blanks and comments. *)
ConsumeSeparatorRun(text, p) ==
    First(text, {i \in p..Len(text) :
        /\ text[i] \notin {"nl", ";", "sp", "#"}
        /\ \A j \in p..i : text[j] = "#" => \E k \in j..i : text[k] = "nl"})

(* A byte of a string literal is escaped when an odd number of backslashes *)
(* stands before it.                                                       *)
Escaped(text, open, i) ==
    LET run == {j \in open + 1..i - 1 : \A k \in j..i - 1 : text[k] = "bslash"}
    IN Cardinality(run) % 2 = 1

(* lex_string: one past the closing quote, 0 where there is none.  The     *)
(* escape arm takes one byte, and the copying arm slices the text from the *)
(* next byte on: a slice that starts inside a character panics.            *)
LexString(text, p) ==
    LET close == First(text, {i \in p + 1..Len(text) : text[i] = "quote" /\ ~Escaped(text, p, i)})
        torn == \E i \in p + 1..close - 1 :
                    Peek(text, i) = "lead" /\ Escaped(text, p, i)
    IN [end |-> IF close > Len(text) THEN 0 ELSE close + 1, torn |-> torn]

(* lex_env: one past the closing brace, 0 where there is none. *)
LexEnv(text, p) ==
    LET close == First(text, {i \in p + 2..Len(text) : text[i] = "}"})
    IN IF close > Len(text) THEN 0 ELSE close + 1

(* lex_atom: one past the atom. *)
LexAtom(text, p) ==
    First(text, {i \in p..Len(text) : \/ text[i] \in AtomStops
                                      \/ text[i] = "~" /\ Peek(text, i + 1) = ">"})

(* bump, over the bytes from p to q - 1: the line and column at q. *)
Bump(text, at, p, q) ==
    LET breaks == {i \in p..q - 1 : text[i] = "nl"}
    IN IF breaks = {} THEN [line |-> at.line, col |-> at.col + (q - p)]
       ELSE [line |-> at.line + Cardinality(breaks), col |-> q - Max(breaks)]
=============================================================================
