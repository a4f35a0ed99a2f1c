--------------------------- MODULE MCCorrelation ---------------------------
(* Small instances of Correlation for TLC. *)
EXTENDS Correlation, TLC

CONSTANTS w1, w2, w3

\* The transactions are interchangeable.
MCSymmetry == Permutations(Writers)

Entry(email, password, source, other) ==
    [email |-> email, username |-> <<"u">>, password |-> password,
     ip_address |-> <<"ip">>, database_name |-> source, other |-> other]

\* A password under one source, another one, none, and blank; an exposure that
\* differs from the first in a field the profile does not list.
MCEntries ==
    {Entry(<<"a">>, <<"pw">>, <<"db1">>, <<>>),
     Entry(<<"a">>, <<"pw">>, <<"db1">>, <<"phone">>),
     Entry(<<"b">>, <<"pw", "">>, <<"db2">>, <<>>),
     Entry(<<"b">>, <<"pw">>, <<>>, <<>>),
     Entry(<<"">>, <<>>, <<"db1">>, <<>>)}
=============================================================================
