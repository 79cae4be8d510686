---------------------------- MODULE CommitQueue ----------------------------
(***************************************************************************)
(* What the writer and the reader of eb_commit_fifo rely on: entries are   *)
(* drafted one by one, a whole draft is published or thrown away, and the  *)
(* reader takes published entries in the order they were drafted.          *)
(***************************************************************************)
EXTENDS Sequences

CONSTANT Word
VARIABLES published, draft

Init == published = <<>> /\ draft = <<>>

(* One clock period: at most one word drafted, at most one taken.  A draft *)
(* that is published or dropped includes the word of the same period.      *)
Step(words, commit, abort, taken) ==
    LET whole == draft \o words
        rest  == IF taken THEN Tail(published) ELSE published
    IN  /\ taken => published # <<>>
        /\ published' = IF commit THEN rest \o whole ELSE rest
        /\ draft' = IF commit \/ abort THEN <<>> ELSE whole

Next == \E words \in {<<>>} \cup {<<w>> : w \in Word}, commit, abort, taken \in BOOLEAN :
            ~(commit /\ abort) /\ Step(words, commit, abort, taken)

Spec == Init /\ [][Next]_<<published, draft>>
============================================================================
