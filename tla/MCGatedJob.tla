------------------------------ MODULE MCGatedJob ------------------------------
(***************************************************************************)
(* GatedJob for TLC: an API token every job needs, a service principal of  *)
(* one value, the private key for the node, and one setting that is a bool.*)
(* As in the workflows, only the scans of an apply look for the key.       *)
(***************************************************************************)
EXTENDS GatedJob

CONSTANTS plain, key, script, markup, pin, blank, jwt

(* A key is plain text; a script has what the scans foresee; markup has    *)
(* what Go spells differently; a pin is too short.                         *)
TraitsOf ==
  [v \in Value |-> CASE v = script -> {"quote", "newline", "margin", "foreign"}
                     [] v = markup -> {"quote", "control", "html"}
                     [] OTHER -> {}]

SecretVars ==
  [k \in {"plan", "apply"} |-> {"api", "principal", "arc_access_token"}
                                 \cup (IF k = "apply" THEN {"private_key"} ELSE {})]

Configured(api, principal, private, tls, known) ==
  [secrets |-> [n \in {"api", "principal", "private_key"} |->
                  CASE n = "api" -> api [] n = "principal" -> principal [] OTHER -> private],
   settings |-> [n \in {"tls"} |-> tls], knownCloud |-> known]

(* Everything set; rotated, with Arc left out; an unusable principal and a *)
(* setting left blank; a principal that Go spells differently; a cloud     *)
(* nobody knows; an API token too short; no API token; a bool that is none.*)
Labs ==
  {Configured(plain, script, key, "right", TRUE),
   Configured(plain, "unset", script, "unset", TRUE),
   Configured(plain, blank, "unset", "blank", TRUE),
   Configured(plain, markup, "unset", "right", TRUE),
   Configured(plain, key, "unset", "unset", FALSE),
   Configured(pin, "unset", key, "unset", TRUE),
   Configured("unset", key, script, "unset", TRUE),
   Configured(plain, "unset", script, "wrong", TRUE)}
===============================================================================
