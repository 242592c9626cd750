--------------------------- MODULE MCResponseLane ---------------------------
(* Small instances of ResponseLane for TLC.                                *)
EXTENDS ResponseLane

CONSTANTS l1, l2, l3, c1, c2, ann, bob

(* Two speakers answer, then another turn: speech only.                    *)
Talk      == << [lines |-> <<l1, l2>>, commands |-> <<>>],
                [lines |-> <<l3>>, commands |-> <<>>] >>
TalkBy    == [x \in {l1, l2, l3} |-> IF x = l2 THEN bob ELSE ann]

(* A line and two commands, then another turn.                             *)
Act       == << [lines |-> <<l1>>, commands |-> <<c1, c2>>],
                [lines |-> <<l2>>, commands |-> <<>>] >>
ActBy     == [x \in {l1, l2, c1, c2} |-> IF x \in {l2, c2} THEN bob ELSE ann]

(* One turn of two lines.                                                  *)
Reply     == << [lines |-> <<l1, l2>>, commands |-> <<>>] >>
BriefBy   == [x \in {l1, l2} |-> IF x = l1 THEN ann ELSE bob]

(* One interruption disturbs the talk, or one actor that comes and goes.   *)
Interrupted == {<<1, 0>>}
Disturbed   == {<<1, 0>>, <<0, 1>>}
=============================================================================
