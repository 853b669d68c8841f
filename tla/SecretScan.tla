------------------------------ MODULE SecretScan ------------------------------
(***************************************************************************)
(* The two searches for credentials: assert_no_secrets.py, which a         *)
(* document must pass before a workflow prints it, and credential_audit.py *)
(* with audit_state_secrets.py in front, which looks into the state file   *)
(* and its backups.                                                        *)
(*                                                                         *)
(* A text is the set of images in it.  An image is a value together with   *)
(* what the writer did to it: the characters it escaped the way JSON does  *)
(* ("hex" if it wrote control characters as \x1b instead), "base64", the   *)
(* indentation of a heredoc ("indented"), or the loss of all leading       *)
(* blanks ("flat").  Whatever else a text holds is no concern here.        *)
(*                                                                         *)
(* How the two scripts spell a value is translated from them (Variants);   *)
(* how Terraform spells it is external and defined apart (Prints, Stores): *)
(* Terraform is written in Go, whose JSON also escapes <, > and &, and     *)
(* leaves characters outside ASCII alone, which Python's does not.         *)
(***************************************************************************)
CONSTANTS
  Value,     \* the values a credential may have
  TooShort,  \* those of fewer than DEFAULT_MIN_LEN characters
  Special    \* Special[v]: what some writer changes of v, a set of Traits

(* A quote, backslash, tab or carriage return; a line break; another       *)
(* control character; blanks at the start of a line other than the first;  *)
(* one of <, > and &; a character outside ASCII.                           *)
Traits == {"quote", "newline", "control", "margin", "html", "foreign"}

ASSUME ValueAssumption == TooShort \subseteq Value /\ Special \in [Value -> SUBSET Traits]

Unset == "unset"
ASSUME UnsetAssumption == Unset \notin Value

Image == [of : Value, as : SUBSET (Traits \cup {"hex", "base64", "indented", "flat"})]

(* variants(): what each form escapes.                                     *)
Escapes == [raw |-> {}, terraform |-> {"quote", "newline"},
            json |-> {"quote", "newline", "control", "foreign"},
            newline |-> {"newline"}]
Forms == DOMAIN Escapes \cup {"base64"}

Rendering(v, form) ==
  [of |-> v, as |-> IF form = "base64" THEN {"base64"} ELSE Escapes[form] \cap Special[v]]
Variants(v) == {Rendering(v, f) : f \in Forms}

(* External: Terraform's own spellings.  A value of several lines has no   *)
(* contiguous copy in a heredoc; a literal is Go's %q; `show -json`,       *)
(* diagnostics in JSON and the state file are Go's encoding/json.          *)
Heredoc(v) ==
  [of |-> v, as |-> IF "newline" \in Special[v] THEN {"indented"} ELSE {}]
Literal(v) ==
  [of |-> v, as |-> (Special[v] \cap {"quote", "newline"})
                      \cup (IF "control" \in Special[v] THEN {"hex"} ELSE {})]
GoJson(v) == [of |-> v, as |-> Special[v] \cap {"quote", "newline", "control", "html"}]
Encoded(v) == [of |-> v, as |-> {"base64"}]

Stores(v) == {GoJson(v), Encoded(v)}
Prints(v) == {Heredoc(v), Literal(v)} \cup Stores(v)

(* Spelled with an escape that none of the scripts' forms has: \u003c for  *)
(* <, \x1b for a control character, or the \u001b of JSON in a value whose *)
(* characters outside ASCII were left alone.                               *)
Obscure(i) ==
  \/ i.as \cap {"html", "hex"} # {}
  \/ "control" \in i.as /\ "foreign" \in Special[i.of] \ i.as

(* unindent() of an image that still spans several lines.                  *)
SpansLines(i) == "newline" \in Special[i.of] /\ i.as \cap {"newline", "base64"} = {}
Unindent(i) ==
  IF SpansLines(i)
  THEN [i EXCEPT !.as = (@ \ {"indented"})
                          \cup (IF "margin" \in Special[i.of] THEN {"flat"} ELSE {})]
  ELSE i

(* The comparison in assert_no_secrets.main.                               *)
(* Mutant: the substring test alone.                                       *)
FoundContiguous(v, text) == Variants(v) \cap text # {}
Found(v, text) ==
  \E needle \in Variants(v) :
    \/ needle \in text
    \/ SpansLines(needle) /\ Unindent(needle) \in {Unindent(i) : i \in text}

(* The comparison in credential_audit.scan_file: there the value itself    *)
(* keeps its blanks.                                                       *)
FoundByAudit(v, text) ==
  \E needle \in Variants(v) : needle \in text \cup {Unindent(i) : i \in text}

(* Of the named values in the job's environment, those that can be         *)
(* searched for, and those that are set and cannot.                        *)
Scannable(names, env) == {n \in names : env[n] \in Value \ TooShort}
Unusable(names, env) == {n \in names : env[n] \in TooShort}

(* assert_no_secrets.main on the files that exist: the exit code.          *)
Scan(names, env, texts) ==
  IF names = {} \/ texts = {} THEN 2
  ELSE IF \/ \E n \in Scannable(names, env), t \in texts : Found(env[n], t)
          \/ Unusable(names, env) # {}
          \/ Scannable(names, env) = {} THEN 1
  ELSE 0

(* audit_state_secrets.files_to_scan: the state file, if there is one, and *)
(* every backup.                                                           *)
(* Mutant: only the live file.                                             *)
LiveFile(live, backups) == live
FilesToScan(live, backups) == live \cup backups

(* credential_audit.audit: the exit code.  With no value set it scans for  *)
(* nothing and still ends with 0.                                          *)
Audit(names, env, files) ==
  IF names = {} \/ files = {} THEN 2
  ELSE IF \E n \in Scannable(names, env), f \in files : FoundByAudit(env[n], f) THEN 1
  ELSE IF Unusable(names, env) # {} THEN 2
  ELSE 0
===============================================================================
