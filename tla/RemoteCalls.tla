---------------------------- MODULE RemoteCalls -----------------------------
(***************************************************************************)
(* What the server's end of the link promises its clients: a call is       *)
(* carried out at most once and only after it was made, success is told    *)
(* only of one that was, and one that is refused never will be.  A failure *)
(* on the way is told as an error, which says nothing of the call, and a   *)
(* caller may give up at any time, whatever becomes of its call.           *)
(***************************************************************************)
CONSTANT Requests  \* the calls

VARIABLES told,  \* what each caller knows
          done   \* the calls that were carried out

CallsInit == told = [r \in Requests |-> "idle"] /\ done = {}

Ask(r) == told[r] = "idle" /\ told' = [told EXCEPT ![r] = "waiting"] /\ UNCHANGED done

\* Even after the caller gave up.
CarryOut(r) ==
    /\ r \notin done
    /\ told[r] \in {"waiting", "gaveup"}
    /\ done' = done \cup {r}
    /\ UNCHANGED told

Tell(r, answer) ==
    /\ told[r] = "waiting"
    /\ told' = [told EXCEPT ![r] = answer]
    /\ UNCHANGED done

CallsNext ==
    \E r \in Requests : \/ Ask(r)
                        \/ CarryOut(r)
                        \/ r \in done /\ Tell(r, "success")
                        \/ r \notin done /\ Tell(r, "refused")
                        \/ \E answer \in {"error", "gaveup"} : Tell(r, answer)

CallsSpec == CallsInit /\ [][CallsNext]_<<told, done>>
=============================================================================
