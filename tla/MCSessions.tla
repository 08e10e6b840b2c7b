------------------------------ MODULE MCSessions ------------------------------
(***************************************************************************)
(* Instances of Sessions for TLC.                                          *)
(***************************************************************************)
EXTENDS Sessions, TLC

(* The users of a domain may sign in by SSO, and by nothing else.           *)
EnforcedForOthers == {[enforce |-> TRUE, domains |-> Users \ Admins]}

Symmetry == Permutations(Handlers) \cup Permutations(Sids) \cup Permutations(Links)
                \cup Permutations(IPs) \cup Permutations(Spellings)

(* A link past the hour of the throttle that no request has read can only   *)
(* be swept, and counts no more: it is as good as gone.                     *)
IsRead(l) == \E h \in Handlers : req[h].at = "consume" /\ req[h].link = l

LinkView ==
    [l \in Links |->
        IF link[l].st \in {"sent", "used"} /\ link[l].age = 2 /\ ~IsRead(l)
        THEN [st |-> "gone"] ELSE link[l]]

RotateView == <<memberVars, LinkView, sess, req, ended>>

(* Where sessions are only begun, and never rotated for want of a second,   *)
(* nothing but their number matters to links and members.                   *)
SignInView ==
    <<memberVars, LinkView, {s \in Sids : Born(s)},
      [h \in Handlers |-> IF req[h].at \in {"role", "rotate", "family"}
                          THEN [at |-> "session"] ELSE req[h]]>>
=============================================================================
