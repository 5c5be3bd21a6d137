--------------------------- MODULE MCTransactions ---------------------------
\* Two instructions that share a transaction or have one each, with two
\* signings; and one alone with three, so that a fresh blockhash is replaced too.
EXTENDS Transactions

PairAndSingle == {[instructions |-> <<"i", "j">>, retry_count |-> 2],
                  [instructions |-> <<"i">>, retry_count |-> 3]}
=============================================================================
