-------------------------- MODULE MCWebhookIngress --------------------------
(* Small instances of WebhookIngress for TLC. *)
EXTENDS WebhookIngress, TLC

CONSTANTS q1, q2, q3, d1, d2

\* A request the route would queue, and every way to fall short of it in one
\* respect; two deliveries are distinguished where the queue looks at them.
Good(d) == [signature |-> "right", body |-> "object", kind |-> "pull_request",
            action |-> "opened", delivery |-> d, payload |-> "complete"]

OneRespectWrong ==
    {[Good(d1) EXCEPT !.signature = s] : s \in {"missing", "malformed", "wrong"}}
    \cup {[Good(d1) EXCEPT !.body = b] : b \in {"not_json", "not_object"}}
    \cup {[Good(d1) EXCEPT !.payload = p] :
            p \in {"field_missing", "field_rejected", "not_nested"}}
    \cup {[Good(d1) EXCEPT !.kind = "other"],
          [Good(d1) EXCEPT !.action = "closed"],
          Good(NoDelivery),
          [Good(NoDelivery) EXCEPT !.kind = "other"],
          [Good(d1) EXCEPT !.signature = "wrong", !.kind = "other"]}

Mixed == {Good(d1), Good(d2)} \cup OneRespectWrong
=============================================================================
