---------------------------- MODULE SendContract ----------------------------
(***************************************************************************)
(* What one sending run promises about the recipients of a campaign, with  *)
(* no dispatcher, channel or workers: sender/service.go runCampaign seen   *)
(* from outside.  SendPipeline implements it.                              *)
(***************************************************************************)
CONSTANT Ids          \* the recipient ids

VARIABLES
  table,      \* recipients.status by id, "absent" where there is no row
  attempted,  \* recipients that mailer.Send was called for in this run
  delivered,  \* recipients whose message the mail server accepted
  told,       \* the outcome the run has reported, by id
  open        \* the run may still attempt recipients

contractVars == <<table, attempted, delivered, told, open>>

Outcomes == {"sent", "failed"}

Init ==
  /\ table \in [Ids -> Outcomes \cup {"absent", "pending"}]
  /\ attempted = {} /\ delivered = {}
  /\ told = [r \in Ids |-> "none"]
  /\ open = TRUE

\* A recipient with no recorded outcome is attempted, once; the server may
\* accept the message even when the attempt will be reported as failed.
Attempt(r) ==
  /\ open
  /\ r \notin attempted
  /\ table[r] \notin Outcomes
  /\ attempted' = attempted \cup {r}
  /\ delivered' \in {delivered, delivered \cup {r}}
  /\ UNCHANGED <<table, told, open>>

\* The attempt's outcome is reported, once; "sent" only of a delivered message.
Report(r, outcome) ==
  /\ open
  /\ r \in attempted /\ told[r] = "none"
  /\ outcome = "sent" => r \in delivered
  /\ told' = [told EXCEPT ![r] = outcome]
  /\ UNCHANGED <<table, attempted, delivered, open>>

\* The run stops attempting only when every attempt has its outcome.
Close ==
  /\ open
  /\ \A r \in attempted : told[r] # "none"
  /\ open' = FALSE
  /\ UNCHANGED <<table, attempted, delivered, told>>

\* Outcomes reach the table after that, as they were reported.
Record ==
  /\ ~open
  /\ \E S \in SUBSET {r \in attempted : table[r] # "absent"} :
       table' = [r \in Ids |-> IF r \in S THEN told[r] ELSE table[r]]
  /\ UNCHANGED <<attempted, delivered, told, open>>

\* Meanwhile users add recipients, and delete them.
Edit ==
  /\ table' \in [Ids -> Outcomes \cup {"absent", "pending"}]
  /\ \A r \in Ids : table'[r] # table[r] =>
       \/ table'[r] = "absent"
       \/ table[r] = "absent" /\ table'[r] = "pending" /\ r \notin attempted
  /\ UNCHANGED <<attempted, delivered, told, open>>

Next ==
  \/ \E r \in Ids : Attempt(r)
  \/ \E r \in Ids, outcome \in Outcomes : Report(r, outcome)
  \/ Close \/ Record \/ Edit

Spec == Init /\ [][Next]_contractVars
=============================================================================
