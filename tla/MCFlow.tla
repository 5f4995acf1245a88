------------------------------- MODULE MCFlow -------------------------------
(* Instances of Flow for TLC. *)
EXTENDS Flow

CONSTANT MaxText  \* bound on the length of a source text, in bytes

(* One closing and one opening brace stand for all punctuation. *)
Alphabet == {"sp", "nl", ";", "#", "{", "}", "~", ">", "quote", "bslash", "$", "a", "lead", "cont"}

(* A text is valid UTF-8: a lead byte and a continuation byte come together.*)
WellFormed(s) == \A i \in DOMAIN s : /\ s[i] = "lead" => Peek(s, i + 1) = "cont"
                                     /\ s[i] = "cont" => i > 1 /\ s[i - 1] = "lead"

MCTexts == {s \in UNION {[1..n -> Alphabet] : n \in 1..MaxText} : WellFormed(s)}
=============================================================================
