---------------------------- MODULE TokenStream ----------------------------
(***************************************************************************)
(* The reversal of tokens in a streamed answer (tokenization.py            *)
(* .detokenize_stream), which the gateway puts between a provider's chunks *)
(* and its client.  A chunk may end anywhere, also inside a token, so what *)
(* may be the beginning of one is carried over to the next chunk.          *)
(*                                                                         *)
(* A character stands for both its cases and is one of those the patterns  *)
(* tell apart; the lengths of a slug and of the hex run are parameters.    *)
(***************************************************************************)
EXTENDS Naturals, Sequences

CONSTANTS
    Texts,              \* the answers a provider may send
    Mapping,            \* the values of the tokens this exchange minted
    SlugMin, SlugMax,   \* the length of a slug (2 to 12)
    HexLen              \* the length of the hex run (6)

Literal == <<"P", "L", "V", "_">>
InSlug  == {"P", "L", "V", "A"}
InHex   == {"A"}
NewLine == "n"

LengthsAssumption ==
    /\ SlugMin \in Nat \ {0} /\ SlugMax \in Nat /\ SlugMin <= SlugMax
    /\ HexLen \in Nat \ {0}

VARIABLES
    text,     \* the answer the provider sends
    arrived,  \* how much of it has arrived
    carry,    \* what is held back
    out,      \* what the client was sent
    stream    \* open, ended, or broken off by the provider

tokenVars == <<text, arrived, carry, out, stream>>

TokenMax == Len(Literal) + SlugMax + 1 + HexLen

TypeOK ==
    /\ text \in Texts
    /\ arrived \in 0 .. Len(text)
    /\ carry \in Seq(InSlug \cup {"_", NewLine})
    /\ stream \in {"open", "ended", "broken"}

Init ==
    /\ text \in Texts
    /\ arrived = 0 /\ carry = <<>> /\ out = <<>>
    /\ stream = "open"

-----------------------------------------------------------------------------
AllIn(t, first, last, chars) == \A j \in first .. last : t[j] \in chars

\* t begins with the literal and a slug of k characters, and an underscore if it goes on.
Headed(t, k) ==
    /\ SubSeq(t, 1, 4) = Literal
    /\ AllIn(t, 5, 4 + k, InSlug)
    /\ Len(t) > 4 + k => t[5 + k] = "_" /\ AllIn(t, 6 + k, Len(t), InHex)

\* TOKEN_RE matches the whole of t.
IsToken(t) ==
    \E k \in SlugMin .. SlugMax : Len(t) = 5 + k + HexLen /\ Headed(t, k)

\* Mutant of IsPartial: only what follows the whole literal is taken for a beginning.
IsPartialOfLiteral(t) ==
    \E k \in 0 .. SlugMax : Len(t) \in 4 + k .. 4 + k + HexLen /\ Headed(t, k)

\* _PARTIAL_RE_B matches the whole of t: the beginning of a token, short of its last digit.
IsPartial(t) ==
    \/ t # <<>> /\ Len(t) <= 4 /\ t = SubSeq(Literal, 1, Len(t))
    \/ \E k \in 1 .. SlugMax : Len(t) \in 4 + k .. 4 + k + HexLen /\ Headed(t, k)

TokenAt(s, i) == {e \in i .. Len(s) : IsToken(SubSeq(s, i, e))}

\* detokenize: from left to right, the tokens of this exchange give way to their values.
Reversed(s) ==
    LET from[i \in 1 .. Len(s) + 1] ==
            IF i > Len(s) THEN <<>>
            ELSE IF TokenAt(s, i) = {} THEN <<s[i]>> \o from[i + 1]
            ELSE LET e == CHOOSE e \in TokenAt(s, i) : TRUE
                     t == SubSeq(s, i, e)
                 IN  (IF t \in DOMAIN Mapping THEN <<Mapping[t]>> ELSE t) \o from[e + 1]
    IN  from[1]

\* Where the pattern's $ matches: at the end, and before a newline that is the end.
Ends(s) ==
    {Len(s)} \cup (IF s # <<>> /\ s[Len(s)] = NewLine THEN {Len(s) - 1} ELSE {})

(***************************************************************************)
(* How much of the buffer is let go: up to the leftmost beginning of a     *)
(* token that runs to the end, unless a whole token starts there as well.  *)
(***************************************************************************)
EmitUpto(s) ==
    LET starts == {i \in 1 .. Len(s) : \E e \in Ends(s) : IsPartial(SubSeq(s, i, e))}
    IN  IF starts = {} THEN Len(s)
        ELSE LET i == CHOOSE i \in starts : \A j \in starts : i <= j
             IN  IF TokenAt(s, i) = {} THEN i - 1 ELSE Len(s)

\* The next n characters arrive as one chunk.
Chunk(n) ==
    LET buf == carry \o SubSeq(text, arrived + 1, arrived + n)
        cut == EmitUpto(buf)
    IN  /\ stream = "open"
        /\ arrived' = arrived + n
        /\ out' = out \o Reversed(SubSeq(buf, 1, cut))
        /\ carry' = SubSeq(buf, cut + 1, Len(buf))
        /\ UNCHANGED <<text, stream>>

\* The provider is done: what is held back goes out.
EndStream ==
    /\ stream = "open" /\ arrived = Len(text)
    /\ out' = out \o Reversed(carry)
    /\ carry' = <<>> /\ stream' = "ended"
    /\ UNCHANGED <<text, arrived>>

\* The provider's connection fails, and the generator with it.
BreakOff ==
    /\ stream = "open"
    /\ stream' = "broken"
    /\ UNCHANGED <<text, arrived, carry, out>>

Next ==
    \/ \E n \in 1 .. Len(text) - arrived : Chunk(n)
    \/ EndStream
    \/ BreakOff

Spec == Init /\ [][Next]_tokenVars

-----------------------------------------------------------------------------
\* A token whose slug ends in the literal's letters, so that another seems to begin in it.
SeemsNested(t) ==
    IsToken(t) /\ SubSeq(t, Len(t) - HexLen - 3, Len(t) - HexLen) = Literal

Prefix(s, t) == Len(s) <= Len(t) /\ s = SubSeq(t, 1, Len(s))

(***************************************************************************)
(* However an answer is cut into chunks, the client is sent what it would  *)
(* be sent if the answer came in one piece, and never more than a token's  *)
(* length is held back.  The exception is an answer with a token whose     *)
(* slug ends in PLV: a chunk that ends with it is cut inside it            *)
(* (tokenization.py _emit_upto, detokenize_stream).                        *)
(***************************************************************************)
RestoredWhole ==
    /\ Len(carry) <= TokenMax
    /\ \/ \E i, j \in 1 .. Len(text) : i < j /\ SeemsNested(SubSeq(text, i, j))
       \/ /\ Prefix(out, Reversed(text))
          /\ stream = "ended" => out = Reversed(text)

=============================================================================
