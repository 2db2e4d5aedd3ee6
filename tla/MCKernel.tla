------------------------------ MODULE MCKernel ------------------------------
EXTENDS Kernel

order  == [role |-> "regulator_decision", provenance |-> "issuer_direct"]
mirror == [role |-> "mirror_copy", provenance |-> "digest_crossmatched"]

MCSources == {order, mirror}

quote == [origin |-> "source_quote", modality |-> "order", exact |-> TRUE,
          transform |-> FALSE, money |-> "not_applicable"]

MCDrafts == {quote,
             [quote EXCEPT !.exact = FALSE],
             [quote EXCEPT !.origin = "derived", !.transform = TRUE]}

MCMaxMade == [version |-> 1, artifact |-> 2, anchor |-> 1, proposal |-> 2,
              report |-> 2, decision |-> 2]

=============================================================================
