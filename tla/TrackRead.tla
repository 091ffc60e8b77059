------------------------------ MODULE TrackRead ------------------------------
(***************************************************************************)
(* What a read of the track promises, whatever the ring, the timer and the *)
(* batches in which the CPU takes captures: the words of the buffer are    *)
(* the cells that have passed the head since the read began, from the      *)
(* first sync mark on, each word once all of it has passed; and a word     *)
(* once delivered stays, also after captures have been missed.             *)
(***************************************************************************)
EXTENDS Integers, Sequences

CONSTANTS Word, NrWords, MfmMarks, FmMarks    \* as in ReadRing

VARIABLES
  kind,    \* the mark looked for: "mfm", "fm", or "none"
  passed,  \* the cells that have passed the head
  missed,  \* captures were overwritten unread: what comes now is anything
  got      \* the words delivered

Marks == IF kind = "fm" THEN FmMarks ELSE MfmMarks
Ends  == {i \in Word .. Len(passed) : SubSeq(passed, i - Word + 1, i) \in Marks}

\* The buffer begins with the first cell of the first mark; an FM mark is the
\* last Word - 1 cells of its window.
StartsWith(b) ==
  IF kind = "none" THEN b = 1
  ELSE \E f \in Ends : /\ \A i \in Ends : f <= i
                       /\ b = f - Word + (IF kind = "fm" THEN 2 ELSE 1)

WordsFrom(b, n) ==
  [w \in 1 .. n |-> SubSeq(passed, b + (w - 1) * Word, b + w * Word - 1)]

Extends(s, t) == Len(s) <= Len(t) /\ SubSeq(t, 1, Len(s)) = s

Init == kind = "none" /\ passed = <<>> /\ missed = FALSE /\ got = <<>>

Begin == /\ kind' \in {"none", "mfm", "fm"}
         /\ passed' = <<>> /\ missed' = FALSE /\ got' = <<>>

Pass == /\ Extends(passed, passed') /\ Len(passed') > Len(passed)
        /\ missed' \in {missed, TRUE}
        /\ UNCHANGED <<kind, got>>

Deliver ==
  /\ Extends(got, got') /\ Len(got') \in Len(got) + 1 .. NrWords
  /\ missed \/ \E b \in 1 .. Len(passed) :
                 /\ StartsWith(b) /\ b + Len(got') * Word - 1 <= Len(passed)
                 /\ got' = WordsFrom(b, Len(got'))
  /\ UNCHANGED <<kind, passed, missed>>

Next == Begin \/ Pass \/ Deliver

Spec == Init /\ [][Next]_<<kind, passed, missed, got>>
=============================================================================
