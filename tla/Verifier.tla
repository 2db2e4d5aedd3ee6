------------------------------ MODULE Verifier ------------------------------
(***************************************************************************)
(* The deterministic verifier (verify.py, verify_anchor of anchors.py).    *)
(* Pure: a report is a function of the proposal, of the source version it  *)
(* names, of the text artifact verify was given and of the anchors.        *)
(*                                                                         *)
(* Texts and quotes are not modelled.  create_anchor cuts an anchor out of *)
(* its artifact's text and neither changes afterwards, so its byte range   *)
(* and hashes always agree; what can go wrong is that an anchor is         *)
(* unknown, that it belongs to another artifact, or that it is what the    *)
(* proposal claims as its quote and the proposal's raw_value differs.      *)
(***************************************************************************)

ROLE_MODALITIES ==
    [complaint_or_pleading  |-> {"allegation", "party_position"},
     judgment_or_order      |-> {"finding", "holding", "order",
                                 "procedural_event"},
     official_docket_entry  |-> {"procedural_event"},
     regulator_decision     |-> {"finding", "order", "procedural_event"},
     official_press_release |-> {"announcement"},
     settlement_instrument  |-> {"party_position", "admission", "order"},
     mirror_copy            |-> {},
     tracker_or_news        |-> {}]

PUBLISHABLE_PROVENANCE ==
    {"issuer_direct", "official_docket", "signature_verified",
     "digest_crossmatched", "human_corroborated"}

(* The roles of an edge that verify tells apart: "contradicts" is treated  *)
(* as "context" is.                                                        *)
EdgeRoles == {"supports", "context"}

(* One edge of a source_quote's support resolves.  anchors maps the known  *)
(* anchors to the artifacts they were cut from.  Only the anchor of an     *)
(* edge that supports must be the proposal's raw_value.                    *)
EdgeResolves(anchors, artifact, edge, exact) ==
    /\ edge.anchor \in DOMAIN anchors
    /\ anchors[edge.anchor] = artifact
    /\ edge.role = "supports" => exact

AnchorResolution(p, artifact, anchors) ==
    CASE p.origin = "source_quote" ->
             IF p.support # {} /\ \A edge \in p.support :
                    EdgeResolves(anchors, artifact, edge, p.exact)
             THEN "pass" ELSE "fail"
      [] p.origin \in {"normalized", "derived"} -> "not_applicable"
      [] OTHER -> "indeterminate"

TransformProvenance(p) ==
    CASE p.origin \notin {"normalized", "derived"} -> "absent"
      [] p.transform -> "pass"
      [] OTHER -> "fail"

PassIf(holds) == IF holds THEN "pass" ELSE "fail"

(* The blocking checks.  schema_valid passes: propose validated the same   *)
(* proposal.  semantic_support is always indeterminate and never blocks.   *)
Results(p, version, source, artifact, anchors) ==
    [source_version_binding       |-> PassIf(p.version = version),
     anchor_resolution            |-> AnchorResolution(p, artifact, anchors),
     transform_provenance         |-> TransformProvenance(p),
     source_role_permits_modality |->
         PassIf(p.modality \in ROLE_MODALITIES[source.role]),
     copy_provenance              |->
         PassIf(source.provenance \in PUBLISHABLE_PROVENANCE),
     money_decimal                |-> p.money]

Overall(results) ==
    PassIf(\A check \in DOMAIN results : results[check] # "fail")

=============================================================================
