----------------------------- MODULE MCTextIndex -----------------------------
(***************************************************************************)
(* Three short documents and queries that misspell their words, with       *)
(* numbers, addresses and stop words between.                              *)
(***************************************************************************)
EXTENDS TextIndex

CONSTANTS d1, d2, d3

SomePassages ==
  (d1 :> <<"the cats of rome", "route 66, rune4me">>)
    @@ (d2 :> <<"cast dogs ran", "c_d@io.eu">>)
    @@ (d3 :> <<"ponies", "at http://1.2.3.4.eu/c, running">>)

SomeQueries ==
  { "cats ran", "7 kats", "the 8 9 dogz", "7 dogz, kats rume", "ponies", "of the", "c dogs",
    "c_d@io.eu", "rute http://io.eu/c rume", "1.2.3.4 http://io.eu", "to r2d2 ronning", "ccats in roma" }

\* What the expressions find, among them a number that is part of a longer address.
SomeMatches ==
  LET Entity(type, start, end, p) == [Type |-> type, start |-> start, end |-> end, Priority |-> p]
  IN  [x \in UNION {ToSet(SomePassages[d]) : d \in {d1, d2, d3}} \cup SomeQueries |->
         CASE x = "c_d@io.eu" -> {Entity("EMAIL_ADDR", 0, 9, 2)}
           [] x = "at http://1.2.3.4.eu/c, running" ->
                {Entity("URL_ADDR", 3, 23, 2), Entity("IP_V4_ADDR", 10, 17, 1)}
           [] x = "rute http://io.eu/c rume" -> {Entity("URL_ADDR", 5, 19, 2)}
           [] x = "1.2.3.4 http://io.eu" ->
                {Entity("IP_V4_ADDR", 0, 7, 1), Entity("URL_ADDR", 8, 20, 2)}
           [] OTHER -> {}]
=============================================================================
