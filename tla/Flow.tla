-------------------------------- MODULE Flow --------------------------------
(***************************************************************************)
(* pulsate_flow::parse: the lexer runs over a source text, then the parser *)
(* over the tokens.  The parser is also fed token streams that no short    *)
(* text would produce, one token at a time: every stream up to AnyLen, and *)
(* beyond it every stream the parser has not rejected yet.                 *)
(***************************************************************************)
EXTENDS Lexing, FlowParser

CONSTANTS AnyLen,  \* bound: every token stream up to this length is tried
          MaxLen   \* bound: no stream is longer

Kinds == Punctuation \cup {"arrow", "sep", "lit"} \cup Words

Init == LexInit \/ LexerNew(<<>>, "feeding")

----------------------------------------------------------------------------
(* One more token in a stream the parser may still accept. *)
Feed(k) == /\ status = "feeding"
           /\ Len(stream) < MaxLen
           /\ Len(stream) < AnyLen \/ Parse(stream).ok \/ Parse(stream).pos > Len(stream)
           /\ stream' = Append(stream, k)
           /\ UNCHANGED <<text, pos, at, tokens, status>>

Finished == status # "lexing" /\ UNCHANGED vars

Next == Lex \/ (\E k \in Kinds : Feed(k)) \/ Finished

Spec == Init /\ [][Next]_vars

----------------------------------------------------------------------------
(* parse_document and everything below it: the parser accepts exactly the   *)
(* streams the grammar derives, and the syntax tree of an accepted one      *)
(* holds every value token of it once, in source order, at the depth of the *)
(* braces around it: nothing the operator wrote is dropped or moved into    *)
(* another block.                                                           *)
ParsesTheGrammar ==
    status \in {"feeding", "lexed"} =>
        LET parsed == Parse(stream)
            leaves == parsed.leaves
            Depth(p) == Cardinality({i \in 1..p : stream[i] = "{"})
                        - Cardinality({i \in 1..p : stream[i] = "}"})
        IN /\ parsed.ok <=> InGrammar(stream)
           /\ parsed.ok =>
                 /\ {leaves[i].at : i \in DOMAIN leaves} = {p \in DOMAIN stream : stream[p] \in Values}
                 /\ \A i \in DOMAIN leaves : leaves[i].depth = Depth(leaves[i].at)
                 /\ \A i \in 1..Len(leaves) - 1 : leaves[i].at < leaves[i + 1].at
=============================================================================
