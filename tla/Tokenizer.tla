----------------------------- MODULE Tokenizer -----------------------------
(***************************************************************************)
(* How a text is cut into tokens (textHandling/tokenizer.go).  Entities,   *)
(* that is addresses found by regular expressions, are taken first; what   *)
(* is left between them is cut where the kind of the characters changes.   *)
(*                                                                         *)
(* A string is the sequence of its characters, which are lower-case here   *)
(* and take one byte.  The positions kept in tokens are left out: those of *)
(* a fragment are never advanced, and nothing reads them.                  *)
(*                                                                         *)
(* Definitions marked Variant are faulty forms of a definition below them, *)
(* which the properties tell apart; nothing else uses them.                *)
(***************************************************************************)
EXTENDS Naturals, Sequences, SequencesExt

\* Matches[text]: what the regular expressions find in the text, as records with
\* Type, start, end (as for slices, the characters start + 1 to end) and Priority;
\* nothing in a text outside its domain.
CONSTANT Matches

Entities(text) == IF text \in DOMAIN Matches THEN Matches[text] ELSE {}

Digits == {"0", "1", "2", "3", "4", "5", "6", "7", "8", "9"}

getRuneType(r) ==
  CASE r \in Digits -> "NUMBER"
    [] r \in {" ", "\t", "\n"} -> "WHITESPACE"
    [] r \in {".", ",", ":", "/", "@", "_", "-"} -> "SYMBOL"
    [] OTHER -> "WORD"

Characters(text) == [i \in 1..Len(text) |-> SubSeq(text, i, i)]

Alphanumeric == {"WORD", "NUMBER", "ALPHANUMERIC"}

\* Variant: only the second character may make a token alphanumeric.
CombineOnce(type, rType) ==
  CASE rType = type -> {type}
    [] {type, rType} = {"WORD", "NUMBER"} -> {"ALPHANUMERIC"}
    [] OTHER -> {}

\* The type of a token after a character of rType has been added to it, if it may be.
Combine(type, rType) ==
  CASE rType = type -> {type}
    [] type # rType /\ {type, rType} \subseteq Alphanumeric -> {"ALPHANUMERIC"}
    [] OTHER -> {}

\* The last token is the one in the buffer.
fragmentTokenize(textFragment) ==
  LET Read(tokens, r) ==
        LET rType == getRuneType(r)
            buffer == Last(tokens)
        IN  IF tokens # <<>> /\ Combine(buffer.Type, rType) # {}
              THEN Append(Front(tokens), [Type |-> CHOOSE t \in Combine(buffer.Type, rType) : TRUE,
                                          Value |-> buffer.Value \o r])
              ELSE Append(tokens, [Type |-> rType, Value |-> r])
  IN  FoldLeft(Read, <<>>, Characters(textFragment))

\* Variant: the priority comes before the place.
BeforeByPriority(m, n) ==
  \/ m.Priority > n.Priority
  \/ m.Priority = n.Priority /\ m.start < n.start

\* The comparison of sort.SliceStable: of two that start together and have one
\* priority the shorter comes first.
Before(m, n) ==
  \/ m.start < n.start
  \/ m.start = n.start /\ m.Priority > n.Priority
  \/ m.start = n.start /\ m.Priority = n.Priority /\ m.end < n.end

\* The matches in that order, without those that start in one already taken, and what
\* lies between them.
entityTokenize(input) ==
  LET from[pos \in 0..Len(input)] ==
        LET left  == {m \in Entities(input) : m.start >= pos}
            first == CHOOSE m \in left : \A n \in left \ {m} : Before(m, n)
        IN  IF left = {} THEN fragmentTokenize(SubSeq(input, pos + 1, Len(input)))
            ELSE fragmentTokenize(SubSeq(input, pos + 1, first.start))
                   \o <<[Type |-> first.Type, Value |-> SubSeq(input, first.start + 1, first.end)]>>
                   \o from[first.end]
  IN  from[0]
-----------------------------------------------------------------------------
(* What the tokens of a text are to be *)

Kind(r) == IF getRuneType(r) \in Alphanumeric THEN "ALPHANUMERIC" ELSE getRuneType(r)

\* Where token k of the text starts.
Start(tokens, k) == FoldLeft(LAMBDA sum, t : sum + Len(t.Value), 0, SubSeq(tokens, 1, k - 1))

IsEntity(input, tokens, k) ==
  \E m \in Entities(input) : /\ m.Type = tokens[k].Type /\ m.start = Start(tokens, k)
                            /\ m.end = m.start + Len(tokens[k].Value)

\* Side by side the tokens are the text.  One that is no entity is as long as it can be
\* with characters of one kind, and is called a word or a number if it has letters or
\* digits only.  An entity is left out only for another it overlaps, which starts
\* earlier or takes precedence.
Tokenized(input, tokens) ==
  /\ FoldLeft(LAMBDA text, t : text \o t.Value, "", tokens) = input
  /\ \A k \in DOMAIN tokens : ~IsEntity(input, tokens, k) =>
       LET types == {getRuneType(r) : r \in ToSet(Characters(tokens[k].Value))}
       IN  /\ types = {tokens[k].Type}
              \/ (types = {"WORD", "NUMBER"} /\ tokens[k].Type = "ALPHANUMERIC")
           /\ k > 1 /\ ~IsEntity(input, tokens, k - 1) =>
                Kind(Head(Characters(tokens[k].Value))) # Kind(Last(Characters(tokens[k - 1].Value)))
  /\ \A m \in Entities(input) : \E k \in DOMAIN tokens :
       /\ IsEntity(input, tokens, k)
       /\ Start(tokens, k) <= m.start /\ m.start < Start(tokens, k) + Len(tokens[k].Value)
       /\ Start(tokens, k) = m.start =>
            \E n \in Entities(input) : n.start = m.start /\ n.Type = tokens[k].Type /\ n.Priority >= m.Priority
=============================================================================
