---------------------------- MODULE JobLifecycle ----------------------------
(***************************************************************************)
(* What the publishing subsystem promises of a job, whoever executes it    *)
(* and whatever happens to them: a job is posted only while it is PENDING  *)
(* and holds a permit, it is called a SUCCESS only after a post, and what  *)
(* has ended changes only by failing after all or by a new permit.         *)
(*                                                                         *)
(* PublishJobs implements it: see Life there.                              *)
(***************************************************************************)
EXTENDS Naturals

CONSTANTS Jobs, None

VARIABLES status,   \* PublishJob.status, None before the row exists
          posts,    \* the posts of the job that the provider has accepted
          permits,  \* how many it may accept
          loose     \* jobs of which nothing is promised any more

lifecycle == <<status, posts, permits, loose>>

\* A job does not exist yet, or it waits for its first post.
Init ==
    /\ status \in [Jobs -> {None, "PENDING"}]
    /\ posts = [j \in Jobs |-> 0]
    /\ permits = [j \in Jobs |-> IF status[j] = None THEN 0 ELSE 1]
    /\ loose = {}

\* The job is to be posted, for the first time or again.
Authorise(j) ==
    /\ status' = [status EXCEPT ![j] = "PENDING"]
    /\ permits' = [permits EXCEPT ![j] = @ + 1]
    /\ UNCHANGED <<posts, loose>>

\* Whoever posted the job is gone before the post was written down.
Forget(j) ==
    /\ posts[j] > 0
    /\ permits' = [permits EXCEPT ![j] = @ + 1]
    /\ UNCHANGED <<status, posts, loose>>

Publish(j) ==
    /\ j \in loose \/ (status[j] = "PENDING" /\ posts[j] < permits[j])
    /\ posts' = [posts EXCEPT ![j] = @ + 1]
    /\ UNCHANGED <<status, permits, loose>>

Ends(j, end) ==
    /\ status' = [status EXCEPT ![j] = end]
    /\ UNCHANGED <<posts, permits, loose>>

Succeed(j) == (j \in loose \/ status[j] = "PENDING") /\ posts[j] > 0 /\ Ends(j, "SUCCESS")
Skip(j) == (j \in loose \/ status[j] = "PENDING") /\ Ends(j, "SKIPPED")

\* A job fails, also one whose success or skipping could not be followed up.
Fail(j) == status[j] # None /\ Ends(j, "FAILED")

\* The lock that keeps executions apart is lost under these jobs.
Loosen(js) ==
    /\ loose' = loose \cup js
    /\ UNCHANGED <<status, posts, permits>>

Next ==
    \/ \E j \in Jobs : \/ Authorise(j) \/ Forget(j) \/ Publish(j)
                       \/ Succeed(j) \/ Skip(j) \/ Fail(j)
    \/ \E js \in SUBSET Jobs : Loosen(js)

Spec == Init /\ [][Next]_lifecycle

=============================================================================
