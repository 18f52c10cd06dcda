---------------------------- MODULE MCSearchData ----------------------------
(* SearchData for TLC: two letters, two Chinese characters and the digits.   *)
EXTENDS SearchData

MCDigits == <<"0", "1", "2", "3", "4", "5", "6", "7", "8", "9">>
MCLetters == {"a", "b"}
MCCharacters == MCDigits \o <<"a", "b", "guo", "zhong">>

\* The third Chinese text has words that are not Chinese only, two of which
\* share a piece that holds the position of the first.
MCTexts ==
  [En |-> {<< <<"a", "b">>, <<"b">>, <<"a", "b">> >>, << <<"b", "a">>, <<"a">>, <<"a", "b">> >>},
   Cn |-> {<< <<"guo">>, <<"zhong", "guo">> >>, << <<"zhong">>, <<"guo">>, <<"guo">> >>,
           << <<"1", "zhong">>, <<"1", "zhong", "guo">>, <<"1">> >>}]
MCStops == [En |-> {<<"a">>}, Cn |-> {}]
MCQueries == {<<"a">>, <<"b", "a">>, <<"guo">>, <<"zhong", "guo", "zhong">>, <<"b", "guo">>}
=============================================================================
