------------------------------- MODULE Lexing -------------------------------
(***************************************************************************)
(* pulsate_flow::lex: the lexer runs over a source text, a token at a step. *)
(***************************************************************************)
EXTENDS FlowLexer

CONSTANT Texts  \* the source texts

ASSUME TextsAssumption == Texts \subseteq Seq(STRING)

VARIABLES text,    \* the source
          pos,     \* Lexer.pos, from 1
          at,      \* Lexer.line and Lexer.col
          tokens,  \* the tokens so far; a span is the bytes from off to end - 1
          stream,  \* the token kinds the parser sees
          status   \* lexing, lexed, error, panic; feeding for a stream without text

vars == <<text, pos, at, tokens, stream, status>>

(* new *)
LexerNew(t, s) == /\ text = t /\ status = s
                  /\ pos = 1 /\ at = [line |-> 1, col |-> 1]
                  /\ tokens = <<>> /\ stream = <<>>

LexInit == \E t \in Texts : LexerNew(t, "lexing")

----------------------------------------------------------------------------
(* The start of the next token, past blanks and comments. *)
Start == SkipHorizontal(text, pos)
Byte == Peek(text, Start)

(* What the parser makes of a token. *)
KindOf(k, from) == CASE k \in {"str", "env"} -> "lit"
                     [] k = "atom" -> IF text[from] = "~" THEN "~" ELSE "atom"
                     [] OTHER -> k

(* A token from Start to q - 1 is pushed. *)
Push(k, q) ==
    LET here == Bump(text, at, pos, Start)
    IN /\ tokens' = Append(tokens, [kind |-> k, off |-> Start, end |-> q,
                                    line |-> here.line, col |-> here.col])
       /\ stream' = Append(stream, KindOf(k, Start))
       /\ pos' = q
       /\ at' = Bump(text, at, pos, q)
       /\ UNCHANGED <<text, status>>

Stop(s) == status' = s /\ UNCHANGED <<text, pos, at, tokens, stream>>

(* run: the end of input, a separator run, or next_token. *)
LexEof == Byte = "end" /\ Stop("lexed")

LexSep == Byte \in {"nl", ";"} /\ Push("sep", ConsumeSeparatorRun(text, Start))

LexPunctuation == Byte \in Punctuation /\ Push(Byte, Start + 1)

LexArrow == Byte = "~" /\ Peek(text, Start + 1) = ">" /\ Push("arrow", Start + 2)

LexQuoted == /\ Byte = "quote"
             /\ LET s == LexString(text, Start)
                IN CASE s.torn    -> Stop("panic")
                     [] s.end = 0 -> Stop("error")
                     [] OTHER     -> Push("str", s.end)

LexReference == /\ Byte = "$" /\ Peek(text, Start + 1) = "{"
                /\ IF LexEnv(text, Start) = 0 THEN Stop("error") ELSE Push("env", LexEnv(text, Start))

LexWord == /\ Byte \notin Punctuation \cup {"end", "nl", ";", "quote"}
           /\ ~(Byte = "~" /\ Peek(text, Start + 1) = ">")
           /\ ~(Byte = "$" /\ Peek(text, Start + 1) = "{")
           /\ Push("atom", LexAtom(text, Start))

Lex == status = "lexing" /\ (\/ LexEof \/ LexSep \/ LexPunctuation \/ LexArrow
                             \/ LexQuoted \/ LexReference \/ LexWord)

LexSpec == LexInit /\ [][Lex]_vars

----------------------------------------------------------------------------
(* Where the search for token i began, and the line breaks before p. *)
Resumed(i) == IF i = 1 THEN 1 ELSE tokens[i - 1].end
Newlines(p) == {k \in 1..p - 1 : text[k] = "nl"}

(* run, skip_horizontal and bump: the tokens tile the text.  Their spans    *)
(* are not empty and follow one another, what lies between two of them, or  *)
(* before the first, is blanks and comments only, so no byte of the source  *)
(* is lost or read twice, and the line and column each carries into the     *)
(* diagnostics are those of its first byte.                                 *)
TokensTileTheText ==
    \A i \in DOMAIN tokens :
        LET token == tokens[i] IN
        /\ Resumed(i) <= token.off /\ token.off < token.end /\ token.end <= pos
        /\ \A k \in Resumed(i)..token.off - 1 :
              \/ text[k] = "sp"
              \/ \E j \in Resumed(i)..k : text[j] = "#" /\ \A n \in j..k : text[n] # "nl"
        /\ token.line = 1 + Cardinality(Newlines(token.off))
        /\ token.col = token.off - (IF Newlines(token.off) = {} THEN 0 ELSE Max(Newlines(token.off)))
=============================================================================
