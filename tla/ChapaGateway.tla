----------------------------- MODULE ChapaGateway -----------------------------
(***************************************************************************)
(* The Chapa payment gateway, which is outside the repository, as the code *)
(* uses it: a bulk request names one transfer per reference, the request   *)
(* is answered or times out, and the outcome of each transfer is reported  *)
(* later by a webhook call for its reference.  The gateway identifies a    *)
(* transfer by its reference: one it already knows is not started again.   *)
(***************************************************************************)
EXTENDS Naturals

CONSTANTS
    Reference  \* the references the callers can submit

VARIABLES
    transfer,  \* what the gateway did with each reference
    posts,     \* how many bulk requests that it accepted named the reference
    notices    \* webhook calls under way: a reference and the reported status

gatewayVars == <<transfer, posts, notices>>

TransferState == {"unknown", "accepted", "success", "failed"}

(***************************************************************************)
(* "other" is any status but success and failed: an interim report.        *)
(***************************************************************************)
NoticeStatus == {"success", "failed", "other"}
Notice == [ref : Reference, status : NoticeStatus]

GatewayTypeOK ==
    /\ transfer \in [Reference -> TransferState]
    /\ posts \in [Reference -> Nat]
    /\ notices \subseteq Notice

GatewayInit ==
    /\ transfer = [r \in Reference |-> "unknown"]
    /\ posts = [r \in Reference |-> 0]
    /\ notices = {}

\* The gateway accepts a bulk request that names the references in batch.
Accept(batch) ==
    /\ transfer' = [r \in Reference |->
                      IF r \in batch /\ transfer[r] = "unknown"
                      THEN "accepted" ELSE transfer[r]]
    /\ posts' = [r \in Reference |->
                      IF r \in batch THEN posts[r] + 1 ELSE posts[r]]
    /\ UNCHANGED notices

\* A transfer reaches its end and the gateway reports it.
Settle(r) ==
    /\ transfer[r] = "accepted"
    /\ \E outcome \in {"success", "failed"} :
          /\ transfer' = [transfer EXCEPT ![r] = outcome]
          /\ notices' = notices \cup {[ref |-> r, status |-> outcome]}
    /\ UNCHANGED posts

\* An interim report, sent while the transfer is still under way.
Interim(r) ==
    /\ transfer[r] = "accepted"
    /\ notices' = notices \cup {[ref |-> r, status |-> "other"]}
    /\ UNCHANGED <<transfer, posts>>

\* A webhook call is answered, or given up: the gateway sends it no more.
Consume(m) ==
    /\ notices' = notices \ {m}
    /\ UNCHANGED <<transfer, posts>>

===============================================================================
