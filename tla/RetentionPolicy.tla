--------------------------- MODULE RetentionPolicy ---------------------------
(***************************************************************************)
(* retention_decision_for_record (proxy/qz_braincase_retention.py) under   *)
(* the policy the proxy ships with.  A record is judged by its status, its *)
(* retention class and the time since it was last updated; that time is    *)
(* abstract: "fresh" within both thresholds of the rule that matches,      *)
(* "stale" past the first, "expired" past every threshold it has.  Records *)
(* without a usable timestamp are kept and left out; so are the match      *)
(* fields the shipped policy does not use.                                 *)
(***************************************************************************)
EXTENDS Naturals, Sequences

Classes == {"ephemeral", "session", "project", "durable"}

Ages == {"fresh", "stale", "expired"}

Rule(status, class, expires, action) ==
  [status |-> status, class |-> class, expires |-> expires, action |-> action]

(* Every rule but the last has a stale_after; expires: it has expire_after. *)
DefaultPolicy ==
  << Rule("candidate", "ephemeral", TRUE,  "retire"),
     Rule("candidate", "session",   TRUE,  "retire"),
     Rule("candidate", "project",   TRUE,  "retire"),
     Rule("candidate", "durable",   FALSE, "stale"),
     Rule("active",    "ephemeral", TRUE,  "retire"),
     Rule("active",    "session",   TRUE,  "stale"),
     Rule("active",    "project",   FALSE, "stale"),
     Rule("active",    "durable",   FALSE, "keep") >>

(* Slip: a match field of the policy that is not understood is ignored.    *)
RuleMatchesAnyClass(rule, status, class) == rule.status = status

RuleMatches(rule, status, class) == rule.status = status /\ rule.class = class

(* The first rule that matches decides: its action once expired, "stale"   *)
(* before that.  Inactive and active durable records are kept whatever the *)
(* rules say, and so is a record no rule matches.                          *)
Decision(status, class, age) ==
  LET hits == {k \in DOMAIN DefaultPolicy : RuleMatches(DefaultPolicy[k], status, class)}
      first == DefaultPolicy[CHOOSE k \in hits : \A j \in hits : k <= j]
      kept == \/ status \in {"retired", "superseded"}
              \/ status = "active" /\ class = "durable"
              \/ hits = {}
              \/ age = "fresh"
  IN  IF kept THEN "keep"
      ELSE IF age = "expired" /\ first.expires THEN first.action
      ELSE "stale"
=============================================================================
