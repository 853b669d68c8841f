---------------------------- MODULE GatedJobProofs ----------------------------
(***************************************************************************)
(* Proofs about GatedJob, for every set of secrets, settings and values,   *)
(* every configuration and every list a scan may be given.                 *)
(***************************************************************************)
EXTENDS GatedJob, TLAPS

(* Nothing is printed before "publish", found before "audit", or touched   *)
(* before "apply".                                                         *)
Early == {"idle", "env", "token", "backup", "preflight", "plan", "scan"}

InOrder ==
  /\ step \in Early \cup {"publish"} => log = {}
  /\ step \in Early \cup {"publish", "apply", "audit"} => audit = -1
  /\ step \in Early \cup {"publish"} => touched = "no"

(* Which steps are those of an apply.                                      *)
ApplyOnly == step \in {"backup", "preflight", "apply", "audit", "converge"} => kind = "apply"

(* Every image is one that Terraform makes of its value.                   *)
Known ==
  /\ \A i \in text \cup log : i \in Prints(i.of)
  /\ \A file \in live \cup previous \cup backups : \A i \in file : i \in Stores(i.of)

(* What is about to be printed has been scanned.                           *)
Scanned == step = "publish" => Passes(text)

(* What a configuration makes of the inputs once the token is minted.      *)
Promised(c) ==
  [n \in Input |-> IF n = Token THEN (IF PrincipalComplete(c.secrets) THEN "set" ELSE Unset)
                   ELSE Rendered(c.secrets, c.settings)[n]]

Supplied == {"backup", "preflight", "plan", "scan", "publish", "apply", "audit", "converge"}

InputsSound ==
  /\ reviewed \subseteq {Promised(config)}
  /\ step = "token" => env = Rendered(config.secrets, config.settings)
  /\ step \in Supplied => Shape(env) = Promised(config)

(* An apply has copied the state before it writes, so that what it replaced*)
(* is among the backups.                                                   *)
Copied ==
  /\ kind = "apply" /\ step \in {"preflight", "plan", "scan", "publish", "apply"}
       => live \subseteq backups
  /\ touched = "wrote" => previous \subseteq backups

(* The cluster was seen to be writable before the apply plans.             *)
QuorumSound ==
  /\ step # "idle" /\ Writable(cluster) => writable
  /\ kind = "apply" /\ step \in {"plan", "scan", "publish", "apply", "audit", "converge"} => writable

IInv ==
  /\ TypeOK /\ InOrder /\ ApplyOnly /\ Known /\ Scanned /\ LogIsClean
  /\ InputsSound /\ QuorumSound /\ UntouchedWithoutQuorum /\ Copied /\ CleanAuditMeansAbsent

-------------------------------------------------------------------------------
(* Whatever Terraform makes of a value is an image of it.                  *)
LEMMA PrintsImages ==
  ASSUME NEW v \in Value, NEW i \in Prints(v)
  PROVE  i \in Image /\ i.of = v
<1>1. Special[v] \subseteq Traits
  BY ValueAssumption
<1>2. CASE i = Heredoc(v)
  BY <1>2 DEF Heredoc, Image
<1>3. CASE i = Literal(v)
  BY <1>1, <1>3 DEF Literal, Image
<1>4. CASE i = GoJson(v)
  BY <1>1, <1>4 DEF GoJson, Image
<1>5. CASE i = Encoded(v)
  BY <1>5 DEF Encoded, Image
<1>6. QED
  BY <1>2, <1>3, <1>4, <1>5 DEF Prints, Stores

(* Of the two ways state holds a value, base64 is always a form that is    *)
(* searched for; Go's JSON is what Python's would be, or what a literal    *)
(* would be, unless it has an escape that neither has.                     *)
LEMMA StoredIsSearched ==
  ASSUME NEW v \in Value, NEW i \in Stores(v), ~Obscure(i)
  PROVE  i \in Variants(v)
<1>1. Special[v] \subseteq Traits
  BY ValueAssumption
<1>2. {Rendering(v, "base64"), Rendering(v, "json"), Rendering(v, "terraform")} \subseteq Variants(v)
  BY DEF Variants, Forms, Escapes
<1>3. CASE i = Encoded(v)
  BY <1>2, <1>3 DEF Encoded, Rendering
<1>4. CASE i = GoJson(v)
  <2>1. "html" \notin Special[v]
    BY <1>4 DEF Obscure, GoJson
  <2>2. "control" \notin Special[v] \/ "foreign" \notin Special[v]
    BY <1>4 DEF Obscure, GoJson
  <2>3. CASE "foreign" \notin Special[v]
    <3>1. GoJson(v).as = Escapes["json"] \cap Special[v]
      BY <1>1, <2>1, <2>3 DEF GoJson, Escapes
    <3>2. GoJson(v) = Rendering(v, "json")
      BY <3>1 DEF GoJson, Rendering
    <3>3. QED
      BY <1>2, <1>4, <3>2
  <2>4. CASE "control" \notin Special[v]
    <3>1. GoJson(v).as = Escapes["terraform"] \cap Special[v]
      BY <1>1, <2>1, <2>4 DEF GoJson, Escapes
    <3>2. GoJson(v) = Rendering(v, "terraform")
      BY <3>1 DEF GoJson, Rendering
    <3>3. QED
      BY <1>2, <1>4, <3>2
  <2>5. QED
    BY <2>2, <2>3, <2>4
<1>5. QED
  BY <1>3, <1>4 DEF Stores

(* Where the scan's forms end: in whichever way Terraform, a Go program    *)
(* with spellings of its own, prints a value - heredoc, literal, JSON or   *)
(* base64 - comparing the document with the variants that Python makes of  *)
(* the value, and line by line, finds it, except where Terraform used an   *)
(* escape that no variant has (assert_no_secrets.py, variants, unindent).  *)
THEOREM PrintedIsFound ==
  ASSUME NEW v \in Value, NEW document, NEW i \in document, i \in Prints(v), ~Obscure(i)
  PROVE  Found(v, document)
<1> DEFINE raw == Rendering(v, "raw")
<1>1. raw \in Variants(v) /\ raw = [of |-> v, as |-> {}]
  BY DEF Variants, Forms, Escapes, Rendering
<1>2. CASE i \in Stores(v)
  BY <1>2, StoredIsSearched DEF Found
<1>3. CASE i = Heredoc(v) /\ "newline" \notin Special[v]
  BY <1>1, <1>3 DEF Found, Heredoc
<1>4. CASE i = Heredoc(v) /\ "newline" \in Special[v]
  <2>1. i = [of |-> v, as |-> {"indented"}]
    BY <1>4 DEF Heredoc
  <2>2. SpansLines(raw) /\ SpansLines(i)
    BY <1>1, <1>4, <2>1 DEF SpansLines
  <2>3. Unindent(raw) = Unindent(i)
    BY <1>1, <2>1, <2>2 DEF Unindent
  <2>4. QED
    BY <1>1, <2>2, <2>3 DEF Found
<1>5. CASE i = Literal(v)
  <2>1. "control" \notin Special[v]
    BY <1>5 DEF Obscure, Literal
  <2>2. Literal(v).as = Escapes["terraform"] \cap Special[v]
    BY <2>1 DEF Literal, Escapes
  <2>3. Literal(v) = Rendering(v, "terraform") /\ Rendering(v, "terraform") \in Variants(v)
    BY <2>2 DEF Literal, Rendering, Variants, Forms, Escapes
  <2>4. QED
    BY <1>5, <2>3 DEF Found
<1>6. QED
  BY <1>2, <1>3, <1>4, <1>5 DEF Prints

(* A document that passes shows none of the values it was searched for, or *)
(* only as the scan cannot read them.                                      *)
LEMMA PassesIsClean ==
  ASSUME TypeOK, NEW document \in SUBSET Image, \A i \in document : i \in Prints(i.of),
         Passes(document)
  PROVE  \A n \in Searched[kind], i \in document : i.of = env[n] => Obscure(i)
<1> SUFFICES ASSUME NEW n \in Searched[kind], NEW i \in document, i.of = env[n], ~Obscure(i)
             PROVE  FALSE
  OBVIOUS
<1>1. env[n] \in Value
  BY DEF Image
<1>2. Scan(Searched[kind], env, {document}) = 0
  BY DEF Passes
<1>3. Unusable(Searched[kind], env) = {}
  BY <1>2 DEF Scan
<1>4. n \in Scannable(Searched[kind], env)
  BY <1>1, <1>3 DEF Scannable, Unusable
<1>5. Found(env[n], document)
  BY <1>1, PrintedIsFound
<1>6. QED
  BY <1>2, <1>4, <1>5 DEF Scan

(* What Terraform says, and writes, is made of its inputs and its state.   *)
LEMMA DocumentsKnown ==
  ASSUME TypeOK, Known, NEW document \in Documents(Shown(env, live))
  PROVE  document \subseteq Image /\ \A i \in document : i \in Prints(i.of)
<1>1. ASSUME NEW i \in Shown(env, live)
      PROVE  i \in Image /\ i \in Prints(i.of)
  <2>1. CASE \E v \in Values(env) : i \in Prints(v)
    <3>1. PICK v \in Value : i \in Prints(v)
      BY <2>1 DEF Values
    <3>2. QED
      BY <3>1, PrintsImages
  <2>2. CASE \E file \in live : i \in file
    <3>1. PICK file \in live : i \in file
      BY <2>2
    <3>2. i \in Image /\ i \in Stores(i.of)
      BY <3>1 DEF TypeOK, Known
    <3>3. QED
      BY <3>2 DEF Prints
  <2>3. QED
    BY <1>1, <2>1, <2>2 DEF Shown
<1>2. QED
  BY <1>1 DEF Documents

(* What Terraform writes into state is a value it was given, raw or         *)
(* encoded as state stores it.                                              *)
LEMMA WrittenKnown ==
  ASSUME TypeOK, Known, NEW file \in Written(env, live)
  PROVE  file \subseteq Image /\ \A i \in file : i \in Stores(i.of)
<1>1. ASSUME NEW v \in Values(env), NEW i \in Stores(v)
      PROVE  i \in Image /\ i \in Stores(i.of)
  BY <1>1, PrintsImages DEF Values, Prints
<1>2. ASSUME NEW old \in live, NEW i \in old
      PROVE  i \in Image /\ i \in Stores(i.of)
  BY <1>2 DEF TypeOK, Known
<1>3. QED
  BY <1>1, <1>2 DEF Written

-------------------------------------------------------------------------------
(* What a job is given has the type of an environment.                     *)
LEMMA RenderedType ==
  ASSUME NEW secrets \in Secrets, NEW settings \in Settings
  PROVE  Rendered(secrets, settings) \in Environments
<1>1. ASSUME NEW n \in Input
      PROVE  Rendered(secrets, settings)[n] \in Value \cup {Unset, "right", "wrong"}
  BY <1>1 DEF Rendered, Secrets, Settings, Input
<1>2. QED
  BY <1>1 DEF Rendered, Environments

(* A mint that does not fail gives a token exactly when the principal is    *)
(* complete.                                                                *)
LEMMA MintedType ==
  ASSUME NEW secrets, NEW known, NEW token \in MayMint(secrets, known), token # "failed"
  PROVE  token \in Value \cup {Unset} /\ (token # Unset <=> PrincipalComplete(secrets))
BY ValuesAssumption, UnsetAssumption DEF MayMint, Exchange

(* The audit has three exit codes.                                          *)
LEMMA AuditType ==
  ASSUME NEW names, NEW inputs, NEW files
  PROVE  Audit(names, inputs, files) \in {0, 1, 2}
BY Zenon DEF Audit

(* Every step keeps the types.                                              *)
LEMMA TypeStep ==
  ASSUME TypeOK, Known, Next
  PROVE  TypeOK'
<1> USE DEF job, disk, seen, At, GoTo, Step, Kind
<1>1. CASE Configure
  BY <1>1 DEF TypeOK, Configure
<1>2. CASE ClusterChanges
  <2>1. writable' \in BOOLEAN
    BY <1>2, Zenon DEF ClusterChanges
  <2>2. QED
    BY <1>2, <2>1 DEF TypeOK, ClusterChanges
<1>3. CASE Start
  <2>1. writable' \in BOOLEAN
    BY <1>3, Zenon DEF Start, Writable
  <2>2. QED
    BY <1>3, <2>1 DEF TypeOK, Start
<1>4. CASE StepFails
  BY <1>4 DEF TypeOK, StepFails
<1>5. CASE JobDies \/ Tidy
  <2>1. NoInputs \in Environments
    BY DEF NoInputs, Environments
  <2>2. QED
    BY <1>5, <2>1 DEF TypeOK, JobDies, Tidy, JobOver
<1>6. CASE Render
  <2>1. config.secrets \in Secrets /\ config.settings \in Settings
    BY ConfigurationsAssumption DEF TypeOK
  <2>2. QED
    BY <1>6, <2>1, RenderedType DEF TypeOK, Render
<1>7. CASE Mint
  <2>1. PICK token \in MayMint(config.secrets, config.knownCloud) :
          IF token = "failed" THEN GoTo("tidy") /\ UNCHANGED env
          ELSE /\ env' = [env EXCEPT ![Token] = token]
               /\ GoTo(IF kind = "apply" THEN "backup" ELSE "plan")
    BY <1>7 DEF Mint
  <2>2. env' \in Environments
    BY <2>1, MintedType DEF TypeOK, Environments
  <2>3. step' \in Step /\ kind' \in Kind
    BY <2>1 DEF TypeOK
  <2>4. QED
    BY <1>7, <2>2, <2>3 DEF TypeOK, Mint
<1>8. CASE BackUp
  BY <1>8 DEF TypeOK, BackUp
<1>9. CASE Preflight
  BY <1>9 DEF TypeOK, Preflight
<1>10. CASE Plan
  <2>1. text' \subseteq Image
    BY <1>10, DocumentsKnown DEF Plan
  <2>2. env \in [Input -> Value \cup {Unset, "right", "wrong"}]
    BY DEF TypeOK, Environments
  <2>3. Shape(env) \in [Input -> Value \cup {Unset, "right", "wrong", "set"}]
    BY <2>2 DEF Shape
  <2>4. reviewed' \subseteq [Input -> Value \cup {Unset, "right", "wrong", "set"}]
    BY <1>10, <2>3 DEF TypeOK, Plan
  <2>5. QED
    BY <1>10, <2>1, <2>4 DEF TypeOK, Plan
<1>11. CASE ScanText
  BY <1>11 DEF TypeOK, ScanText
<1>12. CASE Publish
  BY <1>12 DEF TypeOK, Publish
<1>13. CASE Apply
  <2>1. live' \subseteq SUBSET Image /\ previous' \subseteq SUBSET Image
    BY <1>13, WrittenKnown DEF TypeOK, Apply
  <2>2. QED
    BY <1>13, <2>1 DEF TypeOK, Apply
<1>14. CASE AuditState
  BY <1>14, AuditType DEF TypeOK, AuditState
<1>15. CASE Converge
  <2>1. text' \subseteq Image
    BY <1>15, DocumentsKnown DEF Converge
  <2>2. QED
    BY <1>15, <2>1 DEF TypeOK, Converge
<1>16. QED
  BY <1>1, <1>2, <1>3, <1>4, <1>5, <1>6, <1>7, <1>8, <1>9, <1>10, <1>11, <1>12, <1>13,
     <1>14, <1>15 DEF Next

-------------------------------------------------------------------------------
(* The steps are taken in their order, those of an apply in an apply.      *)
LEMMA OrderStep ==
  ASSUME TypeOK, InOrder, ApplyOnly, Next
  PROVE  InOrder' /\ ApplyOnly'
<1> USE DEF InOrder, ApplyOnly, Early, job, disk, seen, At, GoTo
<1>1. CASE Configure \/ ClusterChanges \/ Start \/ StepFails
  BY <1>1 DEF Configure, ClusterChanges, Start, StepFails
<1>2. CASE JobDies \/ Tidy
  BY <1>2 DEF JobDies, Tidy, JobOver
<1>3. CASE Render \/ Mint
  BY <1>3 DEF Render, Mint, TypeOK, Kind
<1>4. CASE BackUp \/ Preflight \/ Plan \/ ScanText
  BY <1>4 DEF BackUp, Preflight, Plan, ScanText
<1>5. CASE Publish \/ Apply
  BY <1>5 DEF Publish, Apply
<1>6. CASE AuditState \/ Converge
  BY <1>6 DEF AuditState, Converge
<1>7. QED
  BY <1>1, <1>2, <1>3, <1>4, <1>5, <1>6 DEF Next

(* A document comes from Plan or Converge, a file from Apply.              *)
LEMMA KnownStep ==
  ASSUME TypeOK, Known, Next
  PROVE  Known'
<1> USE DEF job, disk, seen, At, GoTo
<1>1. CASE Configure \/ ClusterChanges \/ Start \/ StepFails \/ JobDies \/ Tidy
  BY <1>1 DEF Known, Configure, ClusterChanges, Start, StepFails, JobDies, Tidy, JobOver
<1>2. CASE Render \/ Mint \/ Preflight \/ ScanText \/ Publish \/ AuditState
  BY <1>2 DEF Known, Render, Mint, Preflight, ScanText, Publish, AuditState
<1>3. CASE BackUp
  <2>1. backups' \subseteq backups \cup live
    BY <1>3 DEF BackUp
  <2>2. QED
    BY <1>3, <2>1 DEF Known, BackUp
<1>4. CASE Plan
  <2>1. \A i \in text' : i \in Prints(i.of)
    BY <1>4, DocumentsKnown DEF Plan
  <2>2. QED
    BY <1>4, <2>1 DEF Known, Plan
<1>5. CASE Apply
  <2>1. \A file \in live' : \A i \in file : i \in Stores(i.of)
    BY <1>5, WrittenKnown DEF Known, Apply
  <2>2. previous' \subseteq previous \cup live
    BY <1>5 DEF Apply
  <2>3. QED
    BY <1>5, <2>1, <2>2 DEF Known, Apply
<1>6. CASE Converge
  <2>1. \A i \in text' : i \in Prints(i.of)
    BY <1>6, DocumentsKnown DEF Converge
  <2>2. log' \subseteq log \cup text'
    BY <1>6 DEF Converge
  <2>3. QED
    BY <1>6, <2>1, <2>2 DEF Known, Converge
<1>7. QED
  BY <1>1, <1>2, <1>3, <1>4, <1>5, <1>6 DEF Next

(* Only Publish and Converge print, and only what passed the scan.         *)
LEMMA LogStep ==
  ASSUME TypeOK, InOrder, Known, Scanned, LogIsClean, Next
  PROVE  Scanned' /\ LogIsClean'
<1> USE DEF job, disk, seen, At, GoTo
<1>1. CASE Configure \/ ClusterChanges \/ StepFails
  BY <1>1 DEF Scanned, LogIsClean, Passes, Configure, ClusterChanges, StepFails
<1>2. CASE BackUp \/ Preflight \/ ScanText \/ AuditState \/ Plan \/ Apply
  BY <1>2 DEF Scanned, LogIsClean, Passes, BackUp, Preflight, ScanText, AuditState, Plan, Apply
<1>3. CASE Start \/ Render \/ Mint
  BY <1>3 DEF Scanned, LogIsClean, InOrder, Early, Start, Render, Mint
<1>4. CASE JobDies \/ Tidy
  BY <1>4 DEF Scanned, LogIsClean, JobDies, Tidy, JobOver
<1>5. CASE Publish
  <2>1. \A n \in Searched[kind], i \in text : i.of = env[n] => Obscure(i)
    BY <1>5, PassesIsClean DEF Scanned, Known, TypeOK, Publish
  <2>2. QED
    BY <1>5, <2>1 DEF Scanned, LogIsClean, Publish
<1>6. CASE Converge
  <2>1. CASE Passes(text') /\ text' \in Documents(Shown(env, live))
    <3>1. \A n \in Searched[kind], i \in text' : i.of = env[n] => Obscure(i)
      BY <2>1, PassesIsClean, DocumentsKnown
    <3>2. log' \subseteq log \cup text'
      BY <1>6 DEF Converge
    <3>3. QED
      BY <1>6, <3>1, <3>2 DEF Scanned, LogIsClean, Converge
  <2>2. CASE ~(Passes(text') /\ text' \in Documents(Shown(env, live)))
    BY <1>6, <2>2 DEF Scanned, LogIsClean, Converge
  <2>3. QED
    BY <2>1, <2>2
<1>7. QED
  BY <1>1, <1>2, <1>3, <1>4, <1>5, <1>6 DEF Next

(* The environment is what the configuration promises.                     *)
LEMMA InputsStep ==
  ASSUME TypeOK, InputsSound, Next
  PROVE  InputsSound'
<1> USE DEF job, disk, seen, At, GoTo
<1>1. CASE Configure
  BY <1>1 DEF InputsSound, Supplied, Configure
<1>2. CASE ClusterChanges \/ Start \/ StepFails
  BY <1>2 DEF InputsSound, Supplied, ClusterChanges, Start, StepFails
<1>3. CASE JobDies \/ Tidy
  BY <1>3 DEF InputsSound, Supplied, JobDies, Tidy, JobOver
<1>4. CASE Render
  BY <1>4 DEF InputsSound, Supplied, Render
<1>5. CASE Mint
  <2>1. PICK token \in MayMint(config.secrets, config.knownCloud) :
          IF token = "failed" THEN GoTo("tidy") /\ UNCHANGED env
          ELSE /\ env' = [env EXCEPT ![Token] = token]
               /\ GoTo(IF kind = "apply" THEN "backup" ELSE "plan")
    BY <1>5 DEF Mint
  <2>2. CASE token = "failed"
    BY <1>5, <2>1, <2>2 DEF InputsSound, Supplied, Mint
  <2>3. CASE token # "failed"
    <3>1. DOMAIN env = Input /\ Token \in Input
      BY DEF TypeOK, Environments, Input
    <3>2. \A n \in Input : env'[n] = IF n = Token THEN token ELSE env[n]
      BY <2>1, <2>3, <3>1
    <3>3. env = Rendered(config.secrets, config.settings)
      BY <1>5 DEF InputsSound, Mint
    <3>4. token # Unset <=> PrincipalComplete(config.secrets)
      BY <2>3, MintedType
    <3>5. ASSUME NEW n \in Input
          PROVE  Shape(env')[n] = Promised(config)[n]
      <4>1. CASE n = Token
        BY <3>2, <3>4, <4>1 DEF Shape, Promised
      <4>2. CASE n # Token
        BY <3>2, <3>3, <4>2 DEF Shape, Promised
      <4>3. QED
        BY <4>1, <4>2
    <3>6. Shape(env') = Promised(config)
      BY <3>5 DEF Shape, Promised
    <3>7. QED
      BY <1>5, <2>1, <2>3, <3>6 DEF InputsSound, Supplied, Mint, TypeOK, Kind
  <2>4. QED
    BY <2>2, <2>3
<1>6. CASE BackUp \/ Preflight \/ ScanText \/ Publish \/ Apply \/ AuditState \/ Converge
  BY <1>6 DEF InputsSound, Supplied, BackUp, Preflight, ScanText, Publish, Apply, AuditState,
     Converge
<1>7. CASE Plan
  BY <1>7 DEF InputsSound, Supplied, Plan
<1>8. QED
  BY <1>1, <1>2, <1>3, <1>4, <1>5, <1>6, <1>7 DEF Next

(* A cluster that answers the way preflight accepts can be written to.     *)
LEMMA AcceptedIsWritable ==
  ASSUME NEW answer \in Answers(cluster), Accepts(answer)
  PROVE  Writable(cluster)
BY DEF Answers, Accepts, Writable

(* No step puts an apply past a preflight that found no quorum.             *)
LEMMA QuorumStep ==
  ASSUME TypeOK, InOrder, ApplyOnly, QuorumSound, UntouchedWithoutQuorum, Next
  PROVE  QuorumSound' /\ UntouchedWithoutQuorum'
<1> USE DEF QuorumSound, UntouchedWithoutQuorum, job, disk, seen, At, GoTo
<1>1. CASE Configure \/ StepFails
  BY <1>1 DEF Configure, StepFails
<1>2. CASE ClusterChanges
  <2>1. step = "idle" => touched = "no"
    BY DEF InOrder, Early
  <2>2. step' = step /\ kind' = kind /\ touched' = touched
    BY <1>2 DEF ClusterChanges
  <2>3. writable' = (step # "idle" /\ (writable \/ Writable(cluster')))
    BY <1>2 DEF ClusterChanges
  <2>4. writable' <=> (step # "idle" /\ (writable \/ Writable(cluster')))
    BY <2>3
  <2>5. step # "idle" /\ Writable(cluster)' => writable'
    BY <2>2, <2>4 DEF Writable
  <2>6. step # "idle" /\ writable => writable'
    BY <2>4, Zenon
  <2>7. touched # "no" => step # "idle" /\ writable
    BY <2>1
  <2>8. kind = "apply" /\ step \in {"plan", "scan", "publish", "apply", "audit", "converge"}
          => step # "idle" /\ writable
    OBVIOUS
  <2>9. UntouchedWithoutQuorum'
    BY <2>2, <2>6, <2>7, Zenon
  <2>10. (step # "idle" /\ Writable(cluster) => writable)'
    BY <2>2, <2>5, Zenon
  <2>11. QED
    BY <2>2, <2>6, <2>8, <2>9, <2>10, Zenon
<1>3. CASE Start
  BY <1>3 DEF Start, InOrder, Early
<1>4. CASE JobDies \/ Tidy
  BY <1>4 DEF JobDies, Tidy, JobOver
<1>5. CASE Render \/ BackUp \/ ScanText \/ Publish \/ AuditState \/ Converge \/ Plan
  BY <1>5 DEF Render, BackUp, ScanText, Publish, AuditState, Converge, Plan
<1>6. CASE Mint
  BY <1>6 DEF Mint
<1>7. CASE Preflight
  BY <1>7, AcceptedIsWritable DEF Preflight
<1>8. CASE Apply
  BY <1>8 DEF Apply, ApplyOnly
<1>9. QED
  BY <1>1, <1>2, <1>3, <1>4, <1>5, <1>6, <1>7, <1>8 DEF Next

(* Between the copy and the audit only Apply writes, and what it replaces   *)
(* has been copied.                                                         *)
LEMMA CopyStep ==
  ASSUME TypeOK, InOrder, ApplyOnly, Copied, Next
  PROVE  Copied'
<1> USE DEF Copied, job, disk, seen, At, GoTo
<1>1. CASE Configure \/ ClusterChanges \/ Start \/ StepFails
  BY <1>1 DEF Configure, ClusterChanges, Start, StepFails
<1>2. CASE JobDies \/ Tidy
  BY <1>2 DEF JobDies, Tidy, JobOver
<1>3. CASE Render \/ Mint
  BY <1>3 DEF InOrder, Early, Render, Mint, TypeOK, Kind
<1>4. CASE BackUp
  <2>1. live \subseteq backups' /\ touched = "no"
    BY <1>4 DEF BackUp, InOrder, Early
  <2>2. QED
    BY <1>4, <2>1 DEF BackUp
<1>5. CASE Preflight \/ Plan \/ ScanText \/ Publish
  BY <1>5 DEF Preflight, Plan, ScanText, Publish
<1>6. CASE Apply
  <2>1. live \subseteq backups
    BY <1>6 DEF Apply, ApplyOnly
  <2>2. QED
    BY <1>6, <2>1 DEF Apply
<1>7. CASE AuditState \/ Converge
  BY <1>7 DEF AuditState, Converge
<1>8. QED
  BY <1>1, <1>2, <1>3, <1>4, <1>5, <1>6, <1>7 DEF Next

(* The audit's search finds every value that Terraform stored in a file it  *)
(* opens, unless an escape hides it; the file it does not open holds what   *)
(* one of the others holds, if this job wrote the state.                    *)
LEMMA CleanAudit ==
  ASSUME TypeOK, Known, Copied, Audit(Audited, env, FilesToScan(live, backups)) = 0
  PROVE  \A n \in Audited :
           \A file \in live \cup backups \cup (IF touched = "wrote" THEN previous ELSE {}) :
             \A i \in file : i.of = env[n] => Obscure(i)
<1> SUFFICES ASSUME NEW n \in Audited,
                    NEW file \in live \cup backups \cup (IF touched = "wrote" THEN previous ELSE {}),
                    NEW i \in file, i.of = env[n], ~Obscure(i)
             PROVE  FALSE
  OBVIOUS
<1>1. file \in FilesToScan(live, backups)
  BY DEF FilesToScan, Copied
<1>2. i \in Image /\ i \in Stores(i.of)
  BY <1>1 DEF TypeOK, Known, FilesToScan
<1>3. env[n] \in Value
  BY <1>2 DEF Image
<1>4. Unusable(Audited, env) = {}
  BY DEF Audit
<1>5. n \in Scannable(Audited, env)
  BY <1>3, <1>4 DEF Scannable, Unusable
<1>6. FoundByAudit(env[n], file)
  BY <1>2, <1>3, StoredIsSearched DEF FoundByAudit
<1>7. QED
  BY <1>1, <1>5, <1>6 DEF Audit

(* A clean audit is one of the files as they then are.                      *)
LEMMA AuditStep ==
  ASSUME TypeOK, InOrder, Known, Copied, CleanAuditMeansAbsent, Next
  PROVE  CleanAuditMeansAbsent'
<1> USE DEF job, disk, seen, At, GoTo
<1>1. CASE Configure \/ ClusterChanges \/ Start \/ StepFails
  BY <1>1 DEF CleanAuditMeansAbsent, Configure, ClusterChanges, Start, StepFails
<1>2. CASE JobDies \/ Tidy
  BY <1>2 DEF CleanAuditMeansAbsent, JobDies, Tidy, JobOver
<1>3. CASE Render \/ Mint \/ BackUp \/ Apply
  BY <1>3 DEF CleanAuditMeansAbsent, InOrder, Early, Render, Mint, BackUp, Apply
<1>4. CASE Preflight \/ Plan \/ ScanText \/ Publish \/ Converge
  BY <1>4 DEF CleanAuditMeansAbsent, Preflight, Plan, ScanText, Publish, Converge
<1>5. CASE AuditState
  <2>1. CASE audit' = -1
    BY <2>1 DEF CleanAuditMeansAbsent
  <2>2. CASE audit' = Audit(Audited, env, FilesToScan(live, backups))
    <3>1. UNCHANGED <<env, live, previous, backups, touched>>
      BY <1>5 DEF AuditState
    <3>2. QED
      BY <2>2, <3>1, CleanAudit DEF CleanAuditMeansAbsent
  <2>3. QED
    BY <1>5, <2>1, <2>2 DEF AuditState
<1>6. QED
  BY <1>1, <1>2, <1>3, <1>4, <1>5 DEF Next

(* The inductive invariant holds at the start,                              *)
LEMMA InitIInv == Init => IInv
<1> SUFFICES ASSUME Init
             PROVE  IInv
  OBVIOUS
<1>1. NoInputs \in Environments
  BY DEF NoInputs, Environments
<1>2. TypeOK
  BY <1>1 DEF Init, TypeOK, Kind, Step
<1>3. QED
  BY <1>2 DEF Init, IInv, InOrder, Early, ApplyOnly, Known, Scanned, LogIsClean, InputsSound,
     Supplied, QuorumSound, UntouchedWithoutQuorum, Copied, CleanAuditMeansAbsent

(* and every step keeps it,                                                 *)
LEMMA StepIInv == IInv /\ [Next]_vars => IInv'
<1> SUFFICES ASSUME IInv, [Next]_vars
             PROVE  IInv'
  OBVIOUS
<1>1. CASE Next
  BY <1>1, TypeStep, OrderStep, KnownStep, LogStep, InputsStep, QuorumStep, CopyStep,
     AuditStep DEF IInv
<1>2. CASE UNCHANGED vars
  BY <1>2 DEF vars, job, disk, seen, IInv, TypeOK, InOrder, ApplyOnly, Known, Scanned, Passes,
     LogIsClean, InputsSound, QuorumSound, UntouchedWithoutQuorum, Copied, CleanAuditMeansAbsent
<1>3. QED
  BY <1>1, <1>2

(* so that it holds throughout: types, order, known images, a clean log,    *)
(* sound inputs, quorum and audit.                                          *)
THEOREM Inductive == Spec => []IInv
BY InitIInv, StepIInv, PTL DEF Spec

-------------------------------------------------------------------------------
(* Every variable keeps its type, and texts and files hold images.         *)
THEOREM GatedTypeCorrect == Spec => []TypeOK
BY Inductive, PTL DEF IInv

(* Nothing a job prints shows a credential its scan looks for, whichever   *)
(* the values are, however many images a document holds and whichever list *)
(* each kind of job is given; except spelled with an escape that the scan  *)
(* does not know (assert_no_secrets.py, and its uses in both workflows).   *)
THEOREM LogCorrect == Spec => []LogIsClean
BY Inductive, PTL DEF IInv

(* An apply plans with the inputs of the reviewed plan as long as nobody   *)
(* changes the configuration (render_terraform_env.py, mint_arc_token.py). *)
THEOREM InputsCorrect == Spec => []SameInputs
<1>1. IInv => SameInputs
  BY DEF IInv, InputsSound, SameInputs, Supplied, TypeOK, Step
<1>2. QED
  BY <1>1, Inductive, PTL

(* No job applies to a cluster that had no quorum at any time in it        *)
(* (preflight_cluster.py before the plan of an apply).                     *)
THEOREM QuorumCorrect == Spec => []UntouchedWithoutQuorum
BY Inductive, PTL DEF IInv

(* An audit that ends with 0 has told the truth about the state and every  *)
(* backup, and about terraform.tfstate.backup if its job wrote the state,  *)
(* for any number of files and values; except for values spelled with an   *)
(* escape that it does not know (credential_audit.py).                     *)
THEOREM AuditCorrect == Spec => []CleanAuditMeansAbsent
BY Inductive, PTL DEF IInv
===============================================================================
