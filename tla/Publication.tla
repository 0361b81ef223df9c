---------------------------- MODULE Publication ----------------------------
(***************************************************************************)
(* What the checkpoint compiler promises about its output path: at most    *)
(* one directory is ever published there, publishing happens once and      *)
(* never replaces anything, and once a compilation has reported success    *)
(* not even a loss of power takes the artifact or its lock away.           *)
(***************************************************************************)
CONSTANTS Directories, Nobody

VARIABLES published,  \* the directory under the output path, or Nobody
          promised    \* the success of some compilation has been reported

Init == published = Nobody /\ promised = FALSE

\* One directory appears, whole, where there was none.
Publish == /\ published = Nobody
           /\ published' \in Directories
           /\ UNCHANGED promised

\* Success is reported only for what is published.
Promise == /\ published # Nobody
           /\ promised' = TRUE
           /\ UNCHANGED published

\* Power may take back what nobody has been promised yet.
Lose == /\ ~promised
        /\ published' = Nobody
        /\ UNCHANGED promised

Next == Publish \/ Promise \/ Lose

Spec == Init /\ [][Next]_<<published, promised>>
=============================================================================
