------------------------------ MODULE Stemmer ------------------------------
(***************************************************************************)
(* English words and their stems (textHandling/stemmer.go).  Each step     *)
(* replaces at most one suffix.  Its rules are a Go map: when several      *)
(* suffixes fit a word, which one is replaced differs from call to call,   *)
(* so that stem is the set of the stems a word may get.                    *)
(*                                                                         *)
(* Definitions marked Variant are faulty forms of a definition below them, *)
(* which the properties tell apart; nothing else uses them.                *)
(***************************************************************************)
EXTENDS Tokenizer, FiniteSets

stopWords ==
  {"a", "an", "and", "are", "as", "at", "be", "by", "for", "from", "has", "he", "in", "is",
   "it", "its", "of", "on", "that", "the", "to", "was", "were", "will", "with", "this", "but",
   "they", "have", "had", "what", "when", "where", "who", "which", "why", "how", "all", "any",
   "both", "each", "few", "more", "most", "other", "some", "such", "no", "nor", "not", "only",
   "own", "same", "so", "than", "too", "very"}

step1aRules == [sses |-> "ss", ies |-> "i", ss |-> "ss", s |-> ""]

step1bRules == [eed |-> "ee", ed |-> "", ing |-> ""]

step2Rules ==
  [ational |-> "ate", tional |-> "tion", enci |-> "ence", anci |-> "ance", izer |-> "ize",
   abli |-> "able", alli |-> "al", entli |-> "ent", eli |-> "e", ousli |-> "ous",
   ization |-> "ize", ation |-> "ate", ator |-> "ate", alism |-> "al", iveness |-> "ive",
   fulness |-> "ful", ousness |-> "ous", aliti |-> "al", iviti |-> "ive", biliti |-> "ble"]

step3Rules ==
  [icate |-> "ic", ative |-> "", alize |-> "al", iciti |-> "ic", ical |-> "ic", ful |-> "",
   ness |-> ""]

step4Rules ==
  [s \in {"al", "ance", "ence", "er", "ic", "able", "ible", "ant", "ement", "ment", "ent",
          "ion", "ou", "ism", "ate", "iti", "ous", "ive", "ize"} |-> ""]

hasSuffix(word, suffix) ==
  /\ Len(word) > Len(suffix)
  /\ SubSeq(word, Len(word) - Len(suffix) + 1, Len(word)) = suffix

TrimSuffix(word, suffix) == SubSeq(word, 1, Len(word) - Len(suffix))

isVowel(c) == c \in {"a", "e", "i", "o", "u"}

\* How often a consonant follows a vowel.
measure(word) ==
  LET c == Characters(word)
  IN  Cardinality({i \in 2..Len(word) : isVowel(c[i - 1]) /\ ~isVowel(c[i])})

\* One step for each of the words; what is left of a word has at least this measure.
Step(words, rules, least) ==
  UNION {LET fit == {s \in DOMAIN rules : hasSuffix(w, s) /\ measure(TrimSuffix(w, s)) >= least}
         IN  IF fit = {} THEN {w} ELSE {TrimSuffix(w, s) \o rules[s] : s \in fit} : w \in words}

\* A stop word has none: "".
stem(word) ==
  CASE word \in stopWords -> {""}
    [] word \notin stopWords /\ Len(word) <= 2 -> {word}
    [] OTHER -> Step(Step(Step(Step(Step({word}, step1aRules, 0), step1bRules, 1),
                               step2Rules, 1), step3Rules, 1), step4Rules, 2)

Kept(t) ==
  \/ t.Type = "WORD" /\ stem(t.Value) # {""}
  \/ t.Type \in {"ALPHANUMERIC", "NUMBER", "EMAIL_ADDR", "URL_ADDR"}

\* The tokens TokenizeAndStem keeps, before they are stemmed ...
KeptTokens(text) == SelectSeq(entityTokenize(text), Kept)

\* Variant: stop words are kept as candidates, as the comment at this line of the code
\* considers.
WordTokensAll(text) ==
  LET words == SelectSeq(entityTokenize(text), LAMBDA t : t.Type = "WORD")
  IN  [k \in DOMAIN words |-> words[k].Value]

\* ... the words among them, its first result ...
WordTokens(text) ==
  LET words == SelectSeq(KeptTokens(text), LAMBDA t : t.Type = "WORD")
  IN  [k \in DOMAIN words |-> words[k].Value]

\* ... and the values its second result may have.
Stemmings(tokens) ==
  LET Values(t) == IF t.Type = "WORD" THEN stem(t.Value) ELSE {t.Value}
  IN  FoldLeft(LAMBDA all, t : {Append(s, v) : s \in all, v \in Values(t)}, {<<>>}, tokens)
=============================================================================
