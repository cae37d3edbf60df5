------------------------ MODULE RemediationLifecycle ------------------------
(***************************************************************************)
(* What the remediation engine of twin/remediation.py promises about an    *)
(* action: it is proposed, then rejected or applied, an applied one may be *)
(* reverted, and every such change appears in the log together with the    *)
(* change itself.  Nothing is said of the nodes: the detailed              *)
(* specification adds them, the locks, the crashes and the retries.        *)
(***************************************************************************)
EXTENDS Naturals, Sequences

VARIABLES
    status,    \* the status of each action, by number
    story      \* the entries of the log about each action, in order

lvars == <<status, story>>

LifecycleInit == status = << >> /\ story = << >>

(* A batch of new actions, each with its entry.                            *)
Propose ==
    /\ Len(status') > Len(status)
    /\ \A i \in 1..Len(status) : status'[i] = status[i] /\ story'[i] = story[i]
    /\ Len(story') = Len(status')
    /\ \A i \in Len(status) + 1 .. Len(status') :
          status'[i] = "proposed" /\ story'[i] = <<"proposed">>

(* Action i goes from one status to another and the log tells it.          *)
Move(i, from, to, events) ==
    /\ status[i] = from
    /\ status' = [status EXCEPT ![i] = to]
    /\ story' = [story EXCEPT ![i] = @ \o events]

(* Approval applies the action at once; when its node is gone the action   *)
(* ends rejected although the log says it was approved.                    *)
Approve(i) ==
    \/ \E applied \in {"applied", "quarantine"} :
          Move(i, "proposed", "applied", <<"approved", applied>>)
    \/ Move(i, "proposed", "rejected", <<"approved">>)

Reject(i) == Move(i, "proposed", "rejected", <<"rejected">>)

Revert(i) == Move(i, "applied", "reverted", <<"reverted">>)

LifecycleNext ==
    \/ Propose
    \/ \E i \in DOMAIN status : Approve(i) \/ Reject(i) \/ Revert(i)

LifecycleSpec == LifecycleInit /\ [][LifecycleNext]_lvars
=============================================================================
