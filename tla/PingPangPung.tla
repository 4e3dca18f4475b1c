---------------------------- MODULE PingPangPung ----------------------------
(****************************************************************************)
(* What the ping-pang-pung controller promises, without its registers: each *)
(* agent has a first-in first-out queue of buffers to work on, and a buffer *)
(* an agent has finished goes to the back of the next agent's queue.        *)
(* Several agents may finish in one step; the snooper then gets the         *)
(* rejected buffer ahead of the forwarded one.                              *)
(****************************************************************************)
EXTENDS Naturals, Sequences

CONSTANT Start           \* the snooper's jobs when the controller starts

VARIABLE jobs            \* jobs[a]: the buffers agent a has to work on, oldest first

Agents == {"snooper", "cpu", "forwarder"}
Verdict == {"accept", "reject", "none"}

Init == jobs = [snooper |-> Start, cpu |-> <<>>, forwarder |-> <<>>]

Taken(a) == <<Head(jobs[a])>>
Rest(a, finished) == IF finished THEN Tail(jobs[a]) ELSE jobs[a]

Round(sn, verdict, fwd) ==
    /\ sn => jobs["snooper"] # <<>>
    /\ verdict # "none" => jobs["cpu"] # <<>>
    /\ fwd => jobs["forwarder"] # <<>>
    /\ jobs' = [snooper   |-> Rest("snooper", sn)
                                \o (IF verdict = "reject" THEN Taken("cpu") ELSE <<>>)
                                \o (IF fwd THEN Taken("forwarder") ELSE <<>>),
                cpu       |-> Rest("cpu", verdict # "none")
                                \o (IF sn THEN Taken("snooper") ELSE <<>>),
                forwarder |-> Rest("forwarder", fwd)
                                \o (IF verdict = "accept" THEN Taken("cpu") ELSE <<>>)]

Restart == jobs' = [snooper |-> Start, cpu |-> <<>>, forwarder |-> <<>>]

Next == \/ \E sn, fwd \in BOOLEAN, verdict \in Verdict : Round(sn, verdict, fwd)
        \/ Restart

Spec == Init /\ [][Next]_jobs
=============================================================================
