------------------------- MODULE MCReviewerActions -------------------------
EXTENDS ReviewerActions

Req(target, role, class, version, nonce, key, diff) ==
    [target_ref |-> target, role |-> role, decision_class |-> class,
     expected_version |-> version, nonce |-> nonce, idempotency_key |-> key,
     csrf_ok |-> TRUE, supported |-> TRUE, fresh_diff_hash |-> diff]

Review(target, version, nonce, key) ==
    Req(target, "operator_reviewer", "ordinary_review", version, nonce, key,
        NoDiff)
Confirm(version, nonce, key, diff) ==
    Req("t1", "operator_reviewer", "material_correction", version, nonce, key,
        diff)

first   == Review("t1", 0, "n1", "k1")
rival   == Review("t1", 0, "n2", "k2")    \* saw the same version as first
replay  == Review("t1", 1, "n1", "k3")    \* the nonce of first, a new key
other   == Review("t2", 0, "n4", "k4")    \* another target
rights  == Req("t2", "policy_rights_adjudicator", "rights_personal_data",
               1, "n5", "k4", NoDiff)     \* the key of other
unsound == [Review("t2", 0, "n6", "k6") EXCEPT !.supported = FALSE]

(* Confirmations of one change, for whichever version they find. *)
MCRequests == {first, rival, replay, other, rights, unsound,
               Confirm(0, "n7", "k7", "d1"), Confirm(1, "n8", "k8", "d1"),
               Confirm(1, "n9", "k9", "d2")}

(* The second request of a batch is refused, or the batch as a whole. *)
MCBatches == {<<first, other>>, <<other, rival>>, <<other, rights>>}

MCChanges == {"t1"} \X {"material_correction", "boundary_change"}

MCSessions ==
    {[actor |-> OPERATOR, roles |-> HUMAN_ROLES, authenticated |-> TRUE,
      expires_at |-> MaxTime],
     [actor |-> OPERATOR, roles |-> {"operator_reviewer"},
      authenticated |-> TRUE, expires_at |-> MaxTime + 1],
     [actor |-> "assistant", roles |-> HUMAN_ROLES, authenticated |-> TRUE,
      expires_at |-> MaxTime + 1]}

=============================================================================
