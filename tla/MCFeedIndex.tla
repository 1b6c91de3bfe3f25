---------------------------- MODULE MCFeedIndex ----------------------------
(* Small instances of FeedIndex for TLC. *)
EXTENDS FeedIndex

\* b.c is listed, a.b.c and d.c are below it or beside it; e.f has its hash.
MCDomains == {<<"b", "c">>, <<"a", "b", "c">>, <<"d", "c">>, <<"x", "d", "c">>, <<"e", "f">>}
MCHosts == {<<"a", "b", "c">>, <<"e", "f">>}
MCHash(d) ==
  CASE d = <<"b", "c">> -> 3
    [] d = <<"a", "b", "c">> -> 1
    [] d = <<"d", "c">> -> 4
    [] d = <<"x", "d", "c">> -> 2
    [] d = <<"e", "f">> -> 3

Token(d) == [kind |-> "domain", name |-> d]
Other(k) == [kind |-> k, name |-> <<>>]

MCFeeds == <<"kadhosts", "stevenblack">>

\* A hosts line with a comment; bare names and a hosts line.
MCLists ==
  { {<<Other("ip"), Token(<<"b", "c">>), Other("comment"), Token(<<"d", "c">>)>>},
    {<<Token(<<"d", "c">>), Other("junk")>>, <<Other("ip"), Token(<<"x", "d", "c">>), Token(<<"a", "b", "c">>)>>,
     <<Token(<<"e", "f">>)>>} }
============================================================================
