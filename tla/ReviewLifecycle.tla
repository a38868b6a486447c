--------------------------- MODULE ReviewLifecycle ---------------------------
(***************************************************************************)
(* What the service promises about the status of a review, with nothing of *)
(* how it keeps the promise.                                               *)
(*                                                                         *)
(* A review appears as PENDING and, once decided, never is PENDING again.  *)
(* Two parties decide: the automation (the moderation job with its worker  *)
(* and its failure handler) and the moderators.  The automation is "none"  *)
(* before a job exists for the review, "open" while anything of it may     *)
(* still write, and "closed" for good afterwards: from then on the status  *)
(* is the moderators' alone.                                               *)
(***************************************************************************)
CONSTANTS Reviews,     \* identities of the reviews
          Moderators,  \* identities of the administrators
          NULL         \* "no moderator"

VARIABLES status,      \* status[r]: the review's status, "ABSENT" before it exists
          moderatedBy, \* moderatedBy[r]: the last moderator to decide r, or NULL
          automation   \* automation[r]: "none", "open" or "closed"

lifecycleVars == <<status, moderatedBy, automation>>

Decided == {"APPROVED", "REJECTED", "FLAGGED"}

LifecycleInit ==
    /\ status = [r \in Reviews |-> "ABSENT"]
    /\ moderatedBy = [r \in Reviews |-> NULL]
    /\ automation = [r \in Reviews |-> "none"]

\* A client's review is stored.
Appear(r) ==
    /\ status[r] = "ABSENT"
    /\ status' = [status EXCEPT ![r] = "PENDING"]
    /\ UNCHANGED <<moderatedBy, automation>>

\* The automation is given the review, once in the review's life.
OpenAutomation(r) ==
    /\ status[r] # "ABSENT"
    /\ automation[r] = "none"
    /\ automation' = [automation EXCEPT ![r] = "open"]
    /\ UNCHANGED <<status, moderatedBy>>

\* The automation decides, or decides again; it signs nothing.
AutomationDecides(r, s) ==
    /\ automation[r] = "open"
    /\ status' = [status EXCEPT ![r] = s]
    /\ UNCHANGED <<moderatedBy, automation>>

\* The automation is done with some reviews: one when its job settles, several
\* when the process dies with their last steps in memory.
CloseAutomation(S) ==
    /\ \A r \in S : automation[r] = "open"
    /\ automation' = [r \in Reviews |-> IF r \in S THEN "closed" ELSE automation[r]]
    /\ UNCHANGED <<status, moderatedBy>>

\* A moderator approves or rejects and signs; at any time after the review exists.
ModeratorDecides(m, r, s) ==
    /\ status[r] # "ABSENT"
    /\ status' = [status EXCEPT ![r] = s]
    /\ moderatedBy' = [moderatedBy EXCEPT ![r] = m]
    /\ UNCHANGED automation

LifecycleNext ==
    \/ \E r \in Reviews : Appear(r) \/ OpenAutomation(r)
    \/ \E r \in Reviews, s \in Decided : AutomationDecides(r, s)
    \/ \E S \in SUBSET Reviews : CloseAutomation(S)
    \/ \E m \in Moderators, r \in Reviews, s \in {"APPROVED", "REJECTED"} :
          ModeratorDecides(m, r, s)

LifecycleSpec == LifecycleInit /\ [][LifecycleNext]_lifecycleVars
==============================================================================
