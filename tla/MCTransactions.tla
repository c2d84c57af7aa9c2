---------------------------- MODULE MCTransactions ----------------------------
(* Small instances of Transactions for TLC.                                 *)
EXTENDS Transactions, TLC

ReportedTypes ==
  {<<"authorization", "success">>, <<"charge", "success">>, <<"charge", "failure">>,
   <<"refund", "extra">>}

PspSymmetry == Permutations(PspReferences)
=============================================================================
