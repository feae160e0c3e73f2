---------------------------- MODULE Detokenizer ----------------------------
(***************************************************************************)
(* IncrementalDetokenizer (cuinfer/tokenizer.py): the text of a completion *)
(* in pieces, one per output of the engine, although a token may be a part *)
(* of a character and its text may depend on what precedes it.             *)
(***************************************************************************)
EXTENDS Integers, SequencesExt

CONSTANTS
    ContextLen,   \* tokens of the prompt that are kept: 5
    MaxPrompt,    \* bound on the length of prompts
    MaxTokens     \* bound on the number of generated tokens

ASSUME DetokenizerAssumption == {ContextLen, MaxPrompt, MaxTokens} \subseteq Nat

VARIABLES
    prompt,        \* prompt_token_ids
    tokenIds,      \* token_ids
    prefixOffset,  \* prefix_offset
    readOffset,    \* read_offset
    emitted,       \* the pieces returned so far, joined
    finished       \* an output with a finish reason was pushed

detokenizerVars == <<prompt, tokenIds, prefixOffset, readOffset, emitted, finished>>

-----------------------------------------------------------------------------
(* The tokenizer's decode, skipping special tokens.                         *)

\* A word with a space in front, which is dropped where the text begins; the
\* first byte of a character of three and the other two; a special token.
Word == "word"
Lead == "lead"
Rest == "rest"
Special == "special"
Tokens == {Word, Lead, Rest, Special}

\* What text consists of; bytes that make up no character are decoded as one
\* replacement character for each attempt.
Space == "space"
Character == "character"
Replacement == "replacement"

\* "open" counts the bytes of the character that is not complete.
Closed(d) == IF d.open = 0 THEN d.text ELSE Append(d.text, Replacement)

DecodeToken(d, token) ==
    CASE token = Special -> d
      [] token = Lead -> [text |-> Closed(d), open |-> 1]
      [] token = Rest ->
            IF d.open = 0 THEN [d EXCEPT !.text = Append(@, Replacement)]
            ELSE IF d.open = 1 THEN [d EXCEPT !.open = 2]
            ELSE [text |-> Append(d.text, Character), open |-> 0]
      [] token = Word ->
            [text |-> Closed(d) \o (IF Closed(d) = <<>> THEN <<Word>> ELSE <<Space, Word>>),
             open |-> 0]

Scan(tokens) ==
    LET after[i \in 0 .. Len(tokens)] ==
            IF i = 0 THEN [text |-> <<>>, open |-> 0] ELSE DecodeToken(after[i - 1], tokens[i])
    IN  after[Len(tokens)]

Decode(tokens) == Closed(Scan(tokens))

-----------------------------------------------------------------------------

\* The end of the prompt that is kept: prompt_token_ids[-5:].
Context ==
    SubSeq(prompt, IF Len(prompt) > ContextLen THEN Len(prompt) - ContextLen + 1 ELSE 1,
           Len(prompt))

\* The tokens from offset "from" up to but not including "to".
Slice(tokens, from, to) == SubSeq(tokens, from + 1, to)

\* variant: a character that is not complete is not kept back.
IncompleteNever(text) == FALSE

Incomplete(text) == text # <<>> /\ Last(text) = Replacement

\* push of one output's token.  The token that stopped the sequence has no text.
Push(token, stop) ==
    LET tokens == IF stop THEN tokenIds ELSE Append(tokenIds, token)
        prefix == Decode(Slice(tokens, prefixOffset, readOffset))
        text   == Decode(Slice(tokens, prefixOffset, Len(tokens)))
    IN  /\ ~ finished
        /\ Len(tokenIds) < Len(Context) + MaxTokens
        /\ tokenIds' = tokens
        /\ IF Len(text) <= Len(prefix) \/ Incomplete(text)
             THEN UNCHANGED <<prefixOffset, readOffset, emitted>>
             ELSE /\ emitted' = emitted \o Slice(text, Len(prefix), Len(text))
                  /\ prefixOffset' = readOffset
                  /\ readOffset' = Len(tokens)
        /\ UNCHANGED prompt

PushRunning(token) == Push(token, FALSE) /\ finished' = FALSE
PushStop(token) == Push(token, TRUE) /\ finished' = TRUE
PushLength(token) == Push(token, FALSE) /\ finished' = TRUE

DetokenizerInit ==
    /\ \E n \in 1 .. MaxPrompt : prompt \in [1 .. n -> Tokens]
    /\ tokenIds = Context
    /\ prefixOffset = 0
    /\ readOffset = Len(Context)
    /\ emitted = <<>>
    /\ finished = FALSE

DetokenizerNext ==
    \E token \in Tokens : PushRunning(token) \/ PushStop(token) \/ PushLength(token)

DetokenizerSpec == DetokenizerInit /\ [][DetokenizerNext]_detokenizerVars

-----------------------------------------------------------------------------

Generated == SubSeq(tokenIds, Len(Context) + 1, Len(tokenIds))

\* What a single decode of everything after "start" adds to the text of "start".
TextAfter(start) ==
    Slice(Decode(start \o Generated), Len(Decode(start)), Len(Decode(start \o Generated)))

EndsWhole(text) == text = <<>> \/ Last(text) # Replacement

\* Nothing is missing in the pieces but what follows the last whole character.
FaithfulAfter(start) ==
    /\ IsPrefix(emitted, TextAfter(start))
    /\ EndsWhole(Decode(start \o Generated)) => emitted = TextAfter(start)

\* The pieces joined are the text of the completion as a single decode gives it
\* after the kept tokens; and after the whole prompt, if that ends with a whole
\* character and some kept token has a text (tokenizer.py:68 and :89-94,
\* test_tokenizer.py:127-142).
PiecesFaithful ==
    /\ FaithfulAfter(Context)
    /\ EndsWhole(Decode(prompt)) /\ Decode(Context) # <<>> => FaithfulAfter(prompt)
=============================================================================
