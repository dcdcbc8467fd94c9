-------------------------- MODULE MCEffectProvider --------------------------
(***************************************************************************)
(* EffectProvider with one request of every kind the provider tells apart. *)
(***************************************************************************)
EXTENDS EffectProvider

MCRequests ==
  {[kind |-> "STATE", value |-> v, object |-> "DOC-001"] : v \in {"DRAFT", "REVIEW"}}
  \cup
  {[kind |-> "STATE", value |-> "REVIEW", object |-> "OTHER"],
   [kind |-> "CONTENT_WRITE", value |-> "different", object |-> "DOC-001"],
   [kind |-> "EXISTS", value |-> "false", object |-> "DOC-001"],
   [kind |-> "DELETE", value |-> "true", object |-> "DOC-001"]}
=============================================================================
